------------------------ MODULE MultipathParseProofs --------------------------
(***************************************************************************)
(* Theorems about the parser for any maps and listings.                    *)
(***************************************************************************)
EXTENDS MultipathParse, TLAPS, FiniteSetTheorems, SequenceTheorems

Parsed == [wwid : Maps, paths : Seq(Maps)]

Typed ==
  /\ printed \in Seq(Lines) /\ done \in BOOLEAN
  /\ cur \in Seq(Parsed) /\ maps \in Seq(Parsed)

Own(m) == \A i \in DOMAIN m.paths : m.paths[i] = m.wwid

(***************************************************************************)
(* What makes OwnPaths inductive: the map being read is the one the last   *)
(* line belongs to.                                                        *)
(***************************************************************************)
CurIsPrinted ==
  \A k \in DOMAIN cur : printed # <<>> /\ cur[k].wwid = printed[Len(printed)].wwid

ParseInv ==
  /\ Typed
  /\ AllKnown => /\ \A k \in DOMAIN maps : Own(maps[k])
                 /\ \A k \in DOMAIN cur : Own(cur[k])
                 /\ ~done => CurIsPrinted

-----------------------------------------------------------------------------
\* A line that is read is the last one, and a listing that is known was known before.
LEMMA ReadLine ==
  ASSUME NEW line \in Lines, Typed, Read(line)
  PROVE  /\ printed' \in Seq(Lines) /\ printed' # <<>> /\ printed'[Len(printed')] = line
         /\ AllKnown' => AllKnown /\ line.kind # "odd"
         /\ done' = done /\ ~done
<1>1. printed' = Append(printed, line) /\ done' = done /\ ~done
  BY DEF Read
<1>2. printed \in Seq(Lines)
  BY DEF Typed
<1>3. /\ printed' \in Seq(Lines) /\ Len(printed') = Len(printed) + 1
      /\ printed'[Len(printed) + 1] = line
      /\ \A i \in DOMAIN printed : i \in DOMAIN printed' /\ printed'[i] = printed[i]
  BY <1>1, <1>2
<1>4. printed' # <<>> /\ printed'[Len(printed')] = line
  BY <1>2, <1>3
<1>5. Len(printed) + 1 \in DOMAIN printed'
  BY <1>2, <1>3
<1>6. AllKnown' => AllKnown /\ line.kind # "odd"
  BY <1>3, <1>5 DEF AllKnown
<1> QED
  BY <1>1, <1>3, <1>4, <1>6

LEMMA LineWwid == \A line \in Lines : line.wwid \in Maps
BY DEF Lines

\* A map that is taken from its header has no paths yet.
LEMMA NewMapParsed ==
  ASSUME NEW line \in Lines
  PROVE  newMap(line) \in Parsed /\ Own(newMap(line)) /\ newMap(line).wwid = line.wwid
<1>1. newMap(line) \in Parsed
  BY LineWwid DEF newMap, Parsed
<1>2. newMap(line).paths = <<>> /\ newMap(line).wwid = line.wwid
  BY DEF newMap
<1> QED
  BY <1>1, <1>2 DEF Own

\* The map that was read joins the others when it ends.
LEMMA EndedMap ==
  ASSUME Typed
  PROVE  /\ maps \o cur \in Seq(Parsed)
         /\ (\A k \in DOMAIN maps : Own(maps[k])) /\ (\A k \in DOMAIN cur : Own(cur[k]))
              => \A k \in DOMAIN (maps \o cur) : Own((maps \o cur)[k])
<1>1. maps \in Seq(Parsed) /\ cur \in Seq(Parsed)
  BY DEF Typed
<1>2. maps \o cur \in Seq(Parsed) /\ Len(maps \o cur) = Len(maps) + Len(cur)
  BY <1>1
<1>3. \A k \in DOMAIN (maps \o cur) :
        \/ k \in DOMAIN maps /\ (maps \o cur)[k] = maps[k]
        \/ k - Len(maps) \in DOMAIN cur /\ (maps \o cur)[k] = cur[k - Len(maps)]
  BY <1>1, <1>2
<1> QED
  BY <1>2, <1>3

LEMMA InitParse == Init => ParseInv
<1> SUFFICES ASSUME Init PROVE ParseInv
  OBVIOUS
<1>1. Typed
  <2>1. printed = <<>> /\ cur = <<>> /\ maps = <<>> /\ done = FALSE
    BY DEF Init
  <2>2. printed \in Seq(Lines) /\ cur \in Seq(Parsed) /\ maps \in Seq(Parsed)
    BY <2>1
  <2> QED
    BY <2>1, <2>2 DEF Typed
<1>2. DOMAIN maps = {} /\ DOMAIN cur = {}
  BY DEF Init
<1> QED
  BY <1>1, <1>2 DEF ParseInv, CurIsPrinted

LEMMA StepParse == ParseInv /\ [Next]_vars => ParseInv'
<1> SUFFICES ASSUME ParseInv, [Next]_vars PROVE ParseInv'
  OBVIOUS
<1>1. Typed
  BY DEF ParseInv
<1>2. ASSUME NEW line \in Lines, HeaderRead(line) PROVE ParseInv'
  <2>1. /\ Read(line) /\ maps' = maps \o cur /\ cur' = <<newMap(line)>>
    BY <1>2 DEF HeaderRead
  <2>2. Typed'
    BY <1>1, <2>1, ReadLine, EndedMap, NewMapParsed DEF Typed
  <2>3. AllKnown' => \A k \in DOMAIN maps' : Own(maps'[k])
    BY <1>1, <2>1, ReadLine, EndedMap DEF ParseInv
  <2>4. DOMAIN cur' = {1} /\ cur'[1] = newMap(line)
    BY <2>1
  <2>5. (\A k \in DOMAIN cur : Own(cur[k]))' /\ CurIsPrinted'
    BY <1>1, <2>1, <2>4, ReadLine, NewMapParsed DEF CurIsPrinted, Own
  <2> QED
    BY <2>2, <2>3, <2>5 DEF ParseInv, Own
<1>3. ASSUME NEW line \in Lines, PathRead(line) PROVE ParseInv'
  <2>1. /\ Read(line) /\ maps' = maps
        /\ cur' = [i \in DOMAIN cur |-> [cur[i] EXCEPT !.paths = Append(@, line.wwid)]]
    BY <1>3 DEF PathRead
  <2>2. cur \in Seq(Parsed) /\ line.wwid \in Maps
    BY <1>1, LineWwid DEF Typed
  <2>3. \A k \in DOMAIN cur :
          /\ cur[k] \in Parsed /\ cur'[k] \in Parsed
          /\ cur'[k].wwid = cur[k].wwid /\ cur'[k].paths = Append(cur[k].paths, line.wwid)
    <3> TAKE k \in DOMAIN cur
    <3>1. cur[k] \in Parsed
      BY <2>2
    <3>2. cur'[k] = [cur[k] EXCEPT !.paths = Append(cur[k].paths, line.wwid)]
      BY <2>1
    <3>3. cur[k].paths \in Seq(Maps) /\ Append(cur[k].paths, line.wwid) \in Seq(Maps)
      BY <2>2, <3>1 DEF Parsed
    <3> QED
      BY <3>1, <3>2, <3>3 DEF Parsed
  <2>4. DOMAIN cur' = DOMAIN cur /\ cur' \in Seq(Parsed)
    <3>1. DOMAIN cur = 1 .. Len(cur) /\ Len(cur) \in Nat
      BY <2>2
    <3>2. cur' \in [1 .. Len(cur) -> Parsed]
      BY <2>1, <2>3, <3>1
    <3> QED
      BY <2>1, <3>1, <3>2
  <2>5. Typed'
    BY <1>1, <2>1, <2>4, ReadLine DEF Typed
  <2>6. ASSUME AllKnown' PROVE (\A k \in DOMAIN cur : Own(cur[k]))' /\ CurIsPrinted'
    <3>1. AllKnown /\ ~done /\ follows(line) /\ ~isHeader(line)
      BY <1>1, <1>3, <2>1, <2>6, ReadLine DEF Read, PathRead, isHeader
    <3>2. \A k \in DOMAIN cur : Own(cur[k]) /\ cur[k].wwid = line.wwid
      BY <3>1 DEF ParseInv, CurIsPrinted, follows
    <3>3. ASSUME NEW k \in DOMAIN cur PROVE Own(cur'[k])
      <4>1. cur[k].paths \in Seq(Maps)
        BY <2>3 DEF Parsed
      <4>2. \A i \in DOMAIN cur[k].paths : cur[k].paths[i] = cur[k].wwid
        BY <3>2, <3>3 DEF Own
      <4>3. \A i \in DOMAIN Append(cur[k].paths, line.wwid) :
              Append(cur[k].paths, line.wwid)[i] = line.wwid
        BY <2>2, <3>2, <4>1, <4>2
      <4> QED
        BY <2>3, <3>2, <4>3 DEF Own
    <3>4. printed' # <<>> /\ printed'[Len(printed')].wwid = line.wwid
      BY <1>1, <2>1, ReadLine
    <3> QED
      BY <2>3, <2>4, <3>2, <3>3, <3>4 DEF CurIsPrinted, Own
  <2>7. AllKnown' => (\A k \in DOMAIN maps : Own(maps[k]))'
    BY <1>1, <2>1, ReadLine DEF ParseInv, Own
  <2> QED
    BY <2>5, <2>6, <2>7 DEF ParseInv
<1>4. ASSUME NEW line \in Lines, LineSkipped(line) PROVE ParseInv'
  <2>1. Read(line) /\ maps' = maps /\ cur' = cur /\ line.kind \in {"odd", "other"}
    BY <1>4 DEF LineSkipped
  <2>2. Typed'
    BY <1>1, <2>1, ReadLine DEF Typed
  <2>3. ASSUME AllKnown' PROVE CurIsPrinted'
    <3>1. AllKnown /\ ~done /\ follows(line) /\ ~isHeader(line)
      BY <1>1, <2>1, <2>3, ReadLine DEF Read, isHeader
    <3>2. \A k \in DOMAIN cur : cur[k].wwid = line.wwid
      BY <3>1 DEF ParseInv, CurIsPrinted, follows
    <3> QED
      BY <1>1, <2>1, <3>2, ReadLine DEF CurIsPrinted
  <2> QED
    BY <1>1, <2>1, <2>2, <2>3, ReadLine DEF ParseInv, Own
<1>5. CASE End
  <2>1. /\ done' = TRUE /\ printed' = printed /\ maps' = maps \o cur /\ cur' = <<>>
    BY <1>5 DEF End
  <2>2. Typed'
    BY <1>1, <2>1, EndedMap DEF Typed
  <2>3. AllKnown' => \A k \in DOMAIN maps' : Own(maps'[k])
    BY <1>1, <2>1, EndedMap DEF ParseInv, AllKnown
  <2> QED
    BY <2>1, <2>2, <2>3 DEF ParseInv, Own
<1>6. CASE UNCHANGED vars
  BY <1>6 DEF vars, ParseInv, Typed, AllKnown, Own, CurIsPrinted
<1> QED
  BY <1>2, <1>3, <1>4, <1>5, <1>6 DEF Next

(***************************************************************************)
(* As long as the parser knows the headers of a listing, no map is given a *)
(* path of another, for any number of maps and lines, also of a listing    *)
(* that is cut off after a line.  Without the condition it is false: see   *)
(* the finding of the run of MultipathParse.                               *)
(***************************************************************************)
THEOREM PathsAreOwn == Spec => [](AllKnown => OwnPaths)
<1>1. ParseInv => (AllKnown => OwnPaths)
  BY DEF ParseInv, OwnPaths, AllKnown, Own
<1> QED
  BY <1>1, InitParse, StepParse, PTL DEF Spec
-----------------------------------------------------------------------------
\* How many of the numbers up to i are in S.
upTo(S, i) == Cardinality({j \in 1 .. i : j \in S})

LEMMA UpToNat ==
  ASSUME NEW S, NEW i \in Nat
  PROVE  upTo(S, i) \in Nat /\ IsFiniteSet({j \in 1 .. i : j \in S})
<1> DEFINE C == {j \in 1 .. i : j \in S}
<1>1. IsFiniteSet(1 .. i)
  BY FS_Interval
<1>2. C \subseteq 1 .. i
  OBVIOUS
<1> HIDE DEF C
<1>3. IsFiniteSet(C) /\ Cardinality(C) \in Nat
  BY <1>1, <1>2, FS_Subset, FS_CardinalityType
<1> QED
  BY <1>3 DEF C, upTo

LEMMA UpToNext ==
  ASSUME NEW S, NEW n \in Nat
  PROVE  upTo(S, n + 1) = upTo(S, n) + (IF n + 1 \in S THEN 1 ELSE 0)
<1> DEFINE C == {j \in 1 .. n : j \in S}
           D == {j \in 1 .. n + 1 : j \in S}
<1>1. upTo(S, n) = Cardinality(C) /\ upTo(S, n + 1) = Cardinality(D)
  BY DEF upTo
<1>2. IsFiniteSet(C) /\ Cardinality(C) \in Nat
  BY <1>1, UpToNat
<1>3. CASE n + 1 \in S
  <2>1. D = C \union {n + 1} /\ n + 1 \notin C
    BY <1>3
  <2> HIDE DEF C, D
  <2>2. Cardinality(D) = Cardinality(C) + 1
    BY <1>2, <2>1, FS_AddElement
  <2> QED
    BY <1>1, <1>3, <2>2
<1>4. CASE n + 1 \notin S
  <2>1. D = C
    BY <1>4
  <2> HIDE DEF C, D
  <2> QED
    BY <1>1, <1>2, <1>4, <2>1
<1> QED
  BY <1>3, <1>4

LEMMA UpToGrows ==
  ASSUME NEW S, NEW n \in Nat, NEW i \in 0 .. n
  PROVE  upTo(S, i) <= upTo(S, n)
<1> DEFINE C == {j \in 1 .. i : j \in S}
           D == {j \in 1 .. n : j \in S}
<1>1. C \subseteq D /\ IsFiniteSet(D)
  BY UpToNat
<1> HIDE DEF C, D
<1>2. Cardinality(C) <= Cardinality(D)
  BY <1>1, FS_Subset
<1> QED
  BY <1>2 DEF C, D, upTo

LEMMA UpToMember ==
  ASSUME NEW S, NEW i \in Nat \ {0}, i \in S
  PROVE  upTo(S, i) \in Nat \ {0}
<1>1. i - 1 \in Nat /\ (i - 1) + 1 = i
  OBVIOUS
<1>2. upTo(S, i) = upTo(S, i - 1) + 1
  BY <1>1, UpToNext
<1>3. upTo(S, i - 1) \in Nat
  BY <1>1, UpToNat
<1> QED
  BY <1>2, <1>3

\* What a further line does to the places of maps.
LEMMA MapOfLine ==
  ASSUME NEW s \in Seq(Lines), NEW line \in Lines
  PROVE  /\ mapOf(s, Len(s)) \in Nat
         /\ \A i \in 1 .. Len(s) : /\ mapOf(s, i) \in 0 .. mapOf(s, Len(s))
                                   /\ isHeader(s[i]) => mapOf(s, i) > 0
                                   /\ mapOf(Append(s, line), i) = mapOf(s, i)
         /\ mapOf(Append(s, line), Len(s) + 1)
              = mapOf(s, Len(s)) + (IF isHeader(line) THEN 1 ELSE 0)
<1> DEFINE t == Append(s, line)
           S == {j \in 1 .. Len(s) + 1 : isHeader(t[j])}
<1>1. /\ Len(s) \in Nat /\ t[Len(s) + 1] = line
      /\ \A j \in 1 .. Len(s) : t[j] = s[j]
  OBVIOUS
<1>2. \A i \in 0 .. Len(s) : {j \in 1 .. i : isHeader(s[j])} = {j \in 1 .. i : j \in S}
  BY <1>1
<1>3. \A i \in 0 .. Len(s) + 1 : {j \in 1 .. i : isHeader(t[j])} = {j \in 1 .. i : j \in S}
  BY <1>1
<1>4. \A i \in 1 .. Len(s) : isHeader(s[i]) => i \in S
  BY <1>1
<1>5. Len(s) + 1 \in S <=> isHeader(line)
  BY <1>1
<1>6. /\ \A i \in 0 .. Len(s) : mapOf(s, i) = upTo(S, i)
      /\ \A i \in 0 .. Len(s) + 1 : mapOf(t, i) = upTo(S, i)
  BY <1>2, <1>3 DEF mapOf, upTo
<1> HIDE DEF S, t
<1>7. /\ mapOf(s, Len(s)) = upTo(S, Len(s)) /\ mapOf(t, Len(s) + 1) = upTo(S, Len(s) + 1)
  BY <1>1, <1>6
<1>8. upTo(S, Len(s)) \in Nat
  BY <1>1, UpToNat
<1>9. mapOf(t, Len(s) + 1) = mapOf(s, Len(s)) + (IF isHeader(line) THEN 1 ELSE 0)
  BY <1>1, <1>5, <1>7, UpToNext
<1>10. ASSUME NEW i \in 1 .. Len(s)
      PROVE  /\ mapOf(s, i) \in 0 .. mapOf(s, Len(s))
             /\ isHeader(s[i]) => mapOf(s, i) > 0
             /\ mapOf(t, i) = mapOf(s, i)
  <2>1. i \in 0 .. Len(s) /\ i \in 0 .. Len(s) + 1 /\ i \in Nat \ {0}
    BY <1>1
  <2>2. mapOf(s, i) = upTo(S, i) /\ mapOf(t, i) = upTo(S, i) /\ upTo(S, i) \in Nat
    BY <1>6, <2>1, UpToNat
  <2>3. upTo(S, i) <= upTo(S, Len(s))
    BY <1>1, <2>1, UpToGrows
  <2>4. isHeader(s[i]) => upTo(S, i) \in Nat \ {0}
    BY <1>4, <2>1, UpToMember
  <2> QED
    BY <1>7, <1>8, <2>2, <2>3, <2>4
<1> QED
  BY <1>7, <1>9, <1>10, <1>8 DEF t

\* What a further line does to the paths of map k.
LEMMA PathsToLine ==
  ASSUME NEW s \in Seq(Lines), NEW line \in Lines, NEW k \in Nat
  PROVE  /\ pathsTo(s, Len(s), k) \in Nat
         /\ \A i \in 1 .. Len(s) :
              /\ pathsTo(s, i, k) <= pathsTo(s, Len(s), k)
              /\ s[i].kind = "path" /\ mapOf(s, i) = k => pathsTo(s, i, k) \in Nat \ {0}
              /\ pathsTo(Append(s, line), i, k) = pathsTo(s, i, k)
         /\ pathsTo(Append(s, line), Len(s) + 1, k)
              = pathsTo(s, Len(s), k)
                + (IF line.kind = "path" /\ mapOf(Append(s, line), Len(s) + 1) = k THEN 1 ELSE 0)
<1> DEFINE t == Append(s, line)
           ofMap(u, j) == u[j].kind = "path" /\ mapOf(u, j) = k
           S == {j \in 1 .. Len(s) + 1 : ofMap(t, j)}
<1>1. /\ Len(s) \in Nat /\ t[Len(s) + 1] = line
      /\ \A j \in 1 .. Len(s) : t[j] = s[j]
  OBVIOUS
<1>2. \A j \in 1 .. Len(s) : ofMap(t, j) <=> ofMap(s, j)
  BY <1>1, MapOfLine
<1>3. \A i \in 0 .. Len(s) : {j \in 1 .. i : ofMap(s, j)} = {j \in 1 .. i : j \in S}
  BY <1>1, <1>2
<1>4. \A i \in 0 .. Len(s) + 1 : {j \in 1 .. i : ofMap(t, j)} = {j \in 1 .. i : j \in S}
  BY <1>1
<1>5. \A i \in 1 .. Len(s) : ofMap(s, i) => i \in S
  BY <1>1, <1>2
<1>6. Len(s) + 1 \in S <=> line.kind = "path" /\ mapOf(t, Len(s) + 1) = k
  BY <1>1
<1>7. /\ \A i \in 0 .. Len(s) : pathsTo(s, i, k) = upTo(S, i)
      /\ \A i \in 0 .. Len(s) + 1 : pathsTo(t, i, k) = upTo(S, i)
  BY <1>3, <1>4 DEF pathsTo, upTo
<1> HIDE DEF S, t
<1>8. /\ pathsTo(s, Len(s), k) = upTo(S, Len(s)) /\ pathsTo(t, Len(s) + 1, k) = upTo(S, Len(s) + 1)
  BY <1>1, <1>7
<1>9. upTo(S, Len(s)) \in Nat
  BY <1>1, UpToNat
<1>10. pathsTo(t, Len(s) + 1, k)
        = pathsTo(s, Len(s), k)
          + (IF line.kind = "path" /\ mapOf(t, Len(s) + 1) = k THEN 1 ELSE 0)
  BY <1>1, <1>6, <1>8, UpToNext
<1>11. ASSUME NEW i \in 1 .. Len(s)
       PROVE  /\ pathsTo(s, i, k) <= pathsTo(s, Len(s), k)
              /\ s[i].kind = "path" /\ mapOf(s, i) = k => pathsTo(s, i, k) \in Nat \ {0}
              /\ pathsTo(t, i, k) = pathsTo(s, i, k)
  <2>1. i \in 0 .. Len(s) /\ i \in 0 .. Len(s) + 1 /\ i \in Nat \ {0}
    BY <1>1
  <2>2. pathsTo(s, i, k) = upTo(S, i) /\ pathsTo(t, i, k) = upTo(S, i)
    BY <1>7, <2>1
  <2>3. upTo(S, i) <= upTo(S, Len(s))
    BY <1>1, <2>1, UpToGrows
  <2>4. s[i].kind = "path" /\ mapOf(s, i) = k => upTo(S, i) \in Nat \ {0}
    BY <1>5, <2>1, UpToMember
  <2> QED
    BY <1>8, <2>2, <2>3, <2>4
<1> QED
  BY <1>8, <1>10, <1>11, <1>9 DEF t

\* A map whose header has not been read has no paths.
LEMMA NoPathsYet ==
  ASSUME NEW s \in Seq(Lines), NEW line \in Lines, NEW k \in Nat, k > mapOf(s, Len(s))
  PROVE  pathsTo(s, Len(s), k) = 0
<1>1. \A j \in 1 .. Len(s) : mapOf(s, j) # k
  BY MapOfLine
<1>2. {j \in 1 .. Len(s) : s[j].kind = "path" /\ mapOf(s, j) = k} = {}
  BY <1>1
<1>3. Cardinality({}) = 0
  BY FS_EmptySet
<1> QED
  BY <1>2, <1>3 DEF pathsTo

\* What the maps ns are to be after a further line, if ms were the maps before it.
ReadOn(line, ms, ns) ==
  /\ Len(ns) = Len(ms) + (IF isHeader(line) THEN 1 ELSE 0)
  /\ isHeader(line) => ns[Len(ms) + 1] = newMap(line)
  /\ \A k \in 1 .. Len(ms) :
       /\ ns[k].wwid = ms[k].wwid
       /\ ns[k].paths = IF line.kind = "path" /\ k = Len(ms)
                        THEN Append(ms[k].paths, line.wwid) ELSE ms[k].paths

LEMMA ParsedPaths ==
  ASSUME NEW ms \in Seq(Parsed), NEW k \in 1 .. Len(ms)
  PROVE  ms[k].paths \in Seq(Maps)
<1>1. ms[k] \in Parsed
  OBVIOUS
<1> QED
  BY <1>1 DEF Parsed

LEMMA ReadingGoesOn ==
  ASSUME NEW s \in Seq(Lines), NEW line \in Lines, NEW ms \in Seq(Parsed), NEW ns \in Seq(Parsed),
         Reading(s, ms), ReadOn(line, ms, ns)
  PROVE  Reading(Append(s, line), ns)
<1> DEFINE t == Append(s, line)
           L == Len(s)
           n == Len(ms)
<1>1. /\ L \in Nat /\ n \in Nat /\ Len(t) = L + 1 /\ t[L + 1] = line
      /\ \A j \in 1 .. L : t[j] = s[j]
  OBVIOUS
<1>2. /\ n = mapOf(s, L)
      /\ mapOf(t, L + 1) = n + (IF isHeader(line) THEN 1 ELSE 0)
  BY MapOfLine DEF Reading
<1>3. \A i \in 1 .. L : /\ mapOf(s, i) \in 0 .. n /\ mapOf(t, i) = mapOf(s, i)
                        /\ isHeader(s[i]) => mapOf(s, i) \in 1 .. n
  BY <1>1, <1>2, MapOfLine
<1>4. line.kind = "path" => ~isHeader(line)
  BY DEF isHeader
<1> HIDE DEF t, L, n
<1>5. Len(ns) = mapOf(t, Len(t))
  BY <1>1, <1>2 DEF ReadOn, n
<1>6. ASSUME NEW i \in 1 .. Len(t), isHeader(t[i])
      PROVE  ns[mapOf(t, i)].wwid = t[i].wwid
  <2>1. CASE i \in 1 .. L
    <3>1. mapOf(t, i) = mapOf(s, i) /\ mapOf(s, i) \in 1 .. n /\ t[i] = s[i] /\ isHeader(s[i])
      BY <1>1, <1>3, <1>6, <2>1
    <3>2. ms[mapOf(s, i)].wwid = s[i].wwid
      BY <2>1, <3>1 DEF Reading, L
    <3>3. ns[mapOf(s, i)].wwid = ms[mapOf(s, i)].wwid
      BY <3>1 DEF ReadOn, n
    <3> QED
      BY <3>1, <3>2, <3>3
  <2>2. CASE i = L + 1
    <3>1. t[i] = line /\ isHeader(line) /\ mapOf(t, i) = n + 1
      BY <1>1, <1>2, <1>6, <2>2
    <3>2. ns[n + 1] = newMap(line)
      BY <3>1 DEF ReadOn, n
    <3> QED
      BY <3>1, <3>2 DEF newMap
  <2> QED
    BY <1>1, <2>1, <2>2
<1>7. ASSUME NEW k \in 1 .. Len(ns) PROVE Len(ns[k].paths) = pathsTo(t, Len(t), k)
  <2>1. k \in Nat
    OBVIOUS
  <2>2. /\ pathsTo(s, L, k) \in Nat
        /\ pathsTo(t, L + 1, k)
             = pathsTo(s, L, k) + (IF line.kind = "path" /\ mapOf(t, L + 1) = k THEN 1 ELSE 0)
    BY <2>1, PathsToLine DEF t, L
  <2>3. CASE k \in 1 .. n
    <3>1. Len(ms[k].paths) = pathsTo(s, L, k)
      BY <2>3 DEF Reading, L, n
    <3>2. ns[k].paths = IF line.kind = "path" /\ k = n
                        THEN Append(ms[k].paths, line.wwid) ELSE ms[k].paths
      BY <2>3 DEF ReadOn, n
    <3>3. ms[k].paths \in Seq(Maps)
      BY <2>3, ParsedPaths DEF n
    <3>4. CASE line.kind = "path" /\ k = n
      BY <1>1, <1>2, <1>4, <2>2, <3>1, <3>2, <3>3, <3>4
    <3>5. CASE ~(line.kind = "path" /\ k = n)
      BY <1>1, <1>2, <1>4, <2>2, <3>1, <3>2, <3>5
    <3> QED
      BY <3>4, <3>5
  <2>4. CASE k \notin 1 .. n
    <3>1. Len(ns) = n + (IF isHeader(line) THEN 1 ELSE 0)
      BY DEF ReadOn, n
    <3>2. isHeader(line) /\ k = n + 1
      BY <1>1, <2>1, <2>4, <3>1
    <3>3. ns[k].paths = <<>>
      BY <3>2 DEF ReadOn, newMap, n
    <3>4. pathsTo(s, L, k) = 0
      BY <1>1, <1>2, <2>1, <3>2, NoPathsYet DEF L
    <3> QED
      BY <1>1, <1>4, <2>2, <3>2, <3>3, <3>4
  <2> QED
    BY <2>3, <2>4
<1>8. ASSUME NEW i \in 1 .. Len(t), t[i].kind = "path", mapOf(t, i) > 0
      PROVE  ns[mapOf(t, i)].paths[pathsTo(t, i, mapOf(t, i))] = t[i].wwid
  <2>1. CASE i \in 1 .. L
    <3>1. mapOf(t, i) = mapOf(s, i) /\ mapOf(s, i) \in 1 .. n /\ t[i] = s[i]
      BY <1>1, <1>3, <1>8, <2>1
    <3> DEFINE k == mapOf(s, i)
               p == pathsTo(s, i, k)
    <3>2. ms[k].paths[p] = s[i].wwid
      BY <1>8, <2>1, <3>1 DEF Reading, L
    <3>3. /\ pathsTo(t, i, k) = p /\ p \in Nat \ {0} /\ p <= pathsTo(s, L, k)
          /\ pathsTo(s, L, k) \in Nat
      <4>1. k \in Nat /\ s[i].kind = "path" /\ mapOf(s, i) = k
        BY <1>1, <1>8, <3>1
      <4> HIDE DEF k
      <4>2. i \in 1 .. Len(s)
        BY <2>1 DEF L
      <4>3. /\ pathsTo(s, Len(s), k) \in Nat
            /\ \A j \in 1 .. Len(s) :
                 /\ pathsTo(s, j, k) <= pathsTo(s, Len(s), k)
                 /\ s[j].kind = "path" /\ mapOf(s, j) = k => pathsTo(s, j, k) \in Nat \ {0}
                 /\ pathsTo(Append(s, line), j, k) = pathsTo(s, j, k)
        BY <4>1, PathsToLine
      <4> QED
        BY <4>1, <4>2, <4>3 DEF L, t
    <3>4. Len(ms[k].paths) = pathsTo(s, L, k) /\ ms[k].paths \in Seq(Maps)
      BY <3>1, ParsedPaths DEF Reading, L, n
    <3>5. ns[k].paths = IF line.kind = "path" /\ k = n
                        THEN Append(ms[k].paths, line.wwid) ELSE ms[k].paths
      BY <3>1 DEF ReadOn, n
    <3> HIDE DEF k, p
    <3>6. ns[k].paths[p] = ms[k].paths[p]
      BY <3>3, <3>4, <3>5
    <3> QED
      BY <3>1, <3>2, <3>3, <3>6 DEF k
  <2>2. CASE i = L + 1
    <3>1. line.kind = "path" /\ t[i] = line /\ mapOf(t, i) = n /\ n \in 1 .. n
      BY <1>1, <1>2, <1>4, <1>8, <2>2
    <3>2. pathsTo(t, i, n) = pathsTo(s, L, n) + 1
      BY <1>1, <2>2, <3>1, PathsToLine DEF L, t
    <3>3. Len(ms[n].paths) = pathsTo(s, L, n) /\ ms[n].paths \in Seq(Maps)
      BY <3>1, ParsedPaths DEF Reading, L, n
    <3>4. ns[n].paths = Append(ms[n].paths, line.wwid)
      BY <3>1 DEF ReadOn, n
    <3>5. ns[n].paths[Len(ms[n].paths) + 1] = line.wwid
      BY <3>3, <3>4
    <3> QED
      BY <3>1, <3>2, <3>3, <3>5
  <2> QED
    BY <1>1, <2>1, <2>2
<1> QED
  BY <1>5, <1>6, <1>7, <1>8 DEF Reading, t

\* The maps that have been read and the one being read are what the lines so far say.
ReadInv ==
  /\ Typed
  /\ AllKnown => Reading(printed, maps \o cur)
  /\ Len(cur) <= 1 /\ (cur = <<>> /\ ~done => maps = <<>>)
  /\ done => cur = <<>>

LEMMA InitRead == Init => ReadInv
<1> SUFFICES ASSUME Init PROVE ReadInv
  OBVIOUS
<1>1. Typed /\ printed = <<>> /\ cur = <<>> /\ maps = <<>> /\ maps \o cur = <<>>
  BY InitParse DEF Init, ParseInv
<1>2. {j \in 1 .. 0 : isHeader(<<>>[j])} = {} /\ Cardinality({}) = 0
  BY FS_EmptySet
<1>3. mapOf(<<>>, 0) = 0
  BY <1>2 DEF mapOf
<1>4. Reading(<<>>, <<>>)
  BY <1>3 DEF Reading
<1> QED
  BY <1>1, <1>4 DEF ReadInv

\* The map being read is the last one.
LEMMA LastMap ==
  ASSUME NEW ms \in Seq(Parsed), NEW c \in Seq(Parsed)
  PROVE  /\ Len(ms \o c) = Len(ms) + Len(c)
         /\ \A k \in 1 .. Len(ms) : (ms \o c)[k] = ms[k]
         /\ Len(c) = 1 => (ms \o c)[Len(ms) + 1] = c[1]
<1>1. Len(ms) \in Nat /\ Len(c) \in Nat
  OBVIOUS
<1>2. Len(ms \o c) = Len(ms) + Len(c)
  BY ConcatProperties
<1>3. \A k \in 1 .. Len(ms) + Len(c) :
        (ms \o c)[k] = IF k <= Len(ms) THEN ms[k] ELSE c[k - Len(ms)]
  BY ConcatProperties
<1>4. ASSUME Len(c) = 1 PROVE (ms \o c)[Len(ms) + 1] = c[1]
  <2>1. Len(ms) + 1 \in 1 .. Len(ms) + Len(c) /\ ~(Len(ms) + 1 <= Len(ms)) /\ Len(ms) + 1 - Len(ms) = 1
    BY <1>1, <1>4
  <2> QED
    BY <1>3, <2>1
<1>5. \A k \in 1 .. Len(ms) : (ms \o c)[k] = ms[k]
  BY <1>1, <1>3
<1> QED
  BY <1>2, <1>4, <1>5

LEMMA StepRead == ReadInv /\ Typed' /\ [Next]_vars => ReadInv'
<1> SUFFICES ASSUME ReadInv, Typed', [Next]_vars PROVE ReadInv'
  OBVIOUS
<1>1. /\ Typed /\ (AllKnown => Reading(printed, maps \o cur))
      /\ printed \in Seq(Lines) /\ maps \in Seq(Parsed) /\ cur \in Seq(Parsed)
      /\ maps' \in Seq(Parsed) /\ cur' \in Seq(Parsed)
      /\ maps \o cur \in Seq(Parsed) /\ maps' \o cur' \in Seq(Parsed)
  BY DEF ReadInv, Typed
<1>2. ASSUME NEW line \in Lines, Read(line), ReadOn(line, maps \o cur, maps' \o cur')
      PROVE  (AllKnown => Reading(printed, maps \o cur))' /\ ~done'
  <2>1. AllKnown' => AllKnown /\ ~done'
    BY <1>1, <1>2, ReadLine
  <2> QED
    BY <1>1, <1>2, <2>1, ReadingGoesOn DEF Read
<1>3. ASSUME NEW line \in Lines, HeaderRead(line) PROVE ReadInv'
  <2>1. /\ Read(line) /\ isHeader(line) /\ line.kind # "path"
        /\ maps' = maps \o cur /\ cur' = <<newMap(line)>>
    BY <1>3 DEF HeaderRead, isHeader
  <2>2. ReadOn(line, maps \o cur, maps' \o cur')
    BY <1>1, <2>1 DEF ReadOn
  <2>3. Len(cur') <= 1 /\ cur' # <<>>
    BY <2>1
  <2> QED
    BY <1>2, <2>1, <2>2, <2>3 DEF ReadInv
<1>4. ASSUME NEW line \in Lines, PathRead(line) PROVE ReadInv'
  <2>1. /\ Read(line) /\ line.kind = "path" /\ ~isHeader(line) /\ maps' = maps
        /\ cur' = [i \in DOMAIN cur |-> [cur[i] EXCEPT !.paths = Append(@, line.wwid)]]
    BY <1>4 DEF PathRead, isHeader
  <2>2. Len(cur) = Len(cur') /\ Len(cur) \in Nat /\ Len(cur) <= 1
    BY <1>1, <2>1 DEF ReadInv
  <2>3. ReadOn(line, maps \o cur, maps' \o cur')
    <3>1. CASE cur = <<>>
      <4>1. cur' = <<>> /\ maps = <<>>
        BY <1>1, <2>1, <2>2, <3>1 DEF ReadInv, Read
      <4> QED
        BY <2>1, <3>1, <4>1 DEF ReadOn
    <3>2. CASE cur # <<>>
      <4>1. Len(cur) = 1 /\ cur[1] \in Parsed
        BY <1>1, <2>2, <3>2
      <4>2. /\ cur'[1].wwid = cur[1].wwid
            /\ cur'[1].paths = Append(cur[1].paths, line.wwid)
        BY <1>1, <2>1, <4>1 DEF Parsed
      <4>3. ASSUME NEW c \in Seq(Parsed), Len(c) = 1
            PROVE  /\ Len(maps \o c) = Len(maps) + 1 /\ (maps \o c)[Len(maps) + 1] = c[1]
                   /\ \A k \in 1 .. Len(maps) : (maps \o c)[k] = maps[k]
        <5>1. maps \in Seq(Parsed)
          BY <1>1
        <5>2. /\ Len(maps \o c) = Len(maps) + Len(c)
              /\ \A k \in 1 .. Len(maps) : (maps \o c)[k] = maps[k]
          BY <5>1, LastMap
        <5>3. (maps \o c)[Len(maps) + 1] = c[1]
          BY <4>3, <5>1, LastMap
        <5> QED
          BY <4>3, <5>2, <5>3
      <4>4. Len(cur') = 1
        BY <2>2, <4>1
      <4>5. Len(maps) \in Nat
        BY <1>1
      <4> QED
        BY <1>1, <2>1, <4>1, <4>2, <4>3, <4>4, <4>5 DEF ReadOn
    <3> QED
      BY <3>1, <3>2
  <2> QED
    BY <1>1, <1>2, <2>1, <2>2, <2>3 DEF ReadInv, Read
<1>5. ASSUME NEW line \in Lines, LineSkipped(line) PROVE ReadInv'
  <2>1. Read(line) /\ maps' = maps /\ cur' = cur /\ line.kind # "path" /\ line.kind # "header"
    BY <1>5 DEF LineSkipped
  <2>2. AllKnown' => ~isHeader(line)
    BY <1>1, <2>1, ReadLine DEF isHeader
  <2>3. ~isHeader(line) => ReadOn(line, maps \o cur, maps' \o cur')
    BY <1>1, <2>1 DEF ReadOn
  <2> QED
    BY <1>2, <2>1, <2>2, <2>3 DEF ReadInv, Read
<1>6. CASE End
  <2>1. /\ done' /\ printed' = printed /\ maps' = maps \o cur /\ cur' = <<>>
    BY <1>6 DEF End
  <2>2. maps' \o cur' = maps \o cur
    BY <1>1, <2>1
  <2> QED
    BY <1>1, <2>1, <2>2 DEF ReadInv, AllKnown
<1>7. CASE UNCHANGED vars
  BY <1>1, <1>7 DEF vars, ReadInv, AllKnown
<1> QED
  BY <1>3, <1>4, <1>5, <1>6, <1>7 DEF Next

(***************************************************************************)
(* A listing whose headers the parser knows is read as it was printed: a   *)
(* map for each header, in order, with the paths up to the next header, in *)
(* order, also the last map and also if the listing was cut off.           *)
(***************************************************************************)
THEOREM ParsedFaithfully == Spec => []ParsedAsPrinted
<1>1. ReadInv => ParsedAsPrinted
  <2> SUFFICES ASSUME ReadInv, AllKnown, done PROVE Reading(printed, maps)
    BY DEF ParsedAsPrinted
  <2>1. maps \o cur = maps
    BY DEF ReadInv, Typed
  <2> QED
    BY <2>1 DEF ReadInv
<1>2. ParseInv => Typed
  BY DEF ParseInv
<1> QED
  BY <1>1, <1>2, InitParse, StepParse, InitRead, StepRead, PTL DEF Spec
=============================================================================
