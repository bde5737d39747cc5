---------------------------- MODULE MultipathParse ----------------------------
(***************************************************************************)
(* How the cleaner reads a listing (parseMultipath in                      *)
(* cmd/fada-cleaner/main.go).  The command prints, for each map, a header  *)
(* and the lines of its paths, with other lines in between; the parser     *)
(* takes one line after the other and keeps the map it is in.              *)
(*                                                                         *)
(* A line is what the three regular expressions tell apart.  Headers whose *)
(* WWID is a long hexadecimal number, alone or after an alias, are known;  *)
(* any other header is a line that means nothing to the parser.            *)
(***************************************************************************)
EXTENDS Sequences, FiniteSets, Naturals

CONSTANTS
  Maps,       \* the multipath maps of the node, by WWID
  MaxLines    \* bound: lines of a listing

VARIABLES
  printed,    \* the lines read so far
  cur,        \* the map being read: a sequence of at most one
  maps,       \* the maps that were read
  done        \* the listing has ended

vars == <<printed, cur, maps, done>>

\* Of map w: a header, known or "odd", a path, or any other line.
Lines == [kind : {"header", "odd", "path", "other"}, wwid : Maps]

isHeader(line) == line.kind \in {"header", "odd"}

\* The paths of a map that is read are here the maps they were printed for.
newMap(line) == [wwid |-> line.wwid, paths |-> <<>>]

Init == printed = <<>> /\ cur = <<>> /\ maps = <<>> /\ done = FALSE

\* The lines of a map follow its header, and no map is printed twice.
follows(line) ==
  IF isHeader(line)
  THEN \A i \in DOMAIN printed : printed[i].wwid # line.wwid
  ELSE printed # <<>> /\ printed[Len(printed)].wwid = line.wwid

\* The command prints the next line, and the parser goes on to act.
Read(line) ==
  /\ ~done /\ Len(printed) < MaxLines /\ follows(line)
  /\ printed' = Append(printed, line)
  /\ UNCHANGED done

\* A header that is known ends the map before it.
HeaderRead(line) ==
  /\ line.kind = "header" /\ Read(line)
  /\ maps' = maps \o cur
  /\ cur' = <<newMap(line)>>

\* A path is one of the map being read, if there is one.
PathRead(line) ==
  /\ line.kind = "path" /\ Read(line)
  /\ cur' = [i \in DOMAIN cur |-> [cur[i] EXCEPT !.paths = Append(@, line.wwid)]]
  /\ UNCHANGED maps

\* No expression matches.
LineSkipped(line) ==
  /\ line.kind \in {"odd", "other"} /\ Read(line)
  /\ UNCHANGED <<cur, maps>>

\* The listing ends, or is cut off after any line (a path's name cut short is in FadaCleaner).
End ==
  /\ ~done /\ done' = TRUE
  /\ maps' = maps \o cur /\ cur' = <<>>
  /\ UNCHANGED printed

Next == End \/ \E line \in Lines : HeaderRead(line) \/ PathRead(line) \/ LineSkipped(line)

Spec == Init /\ [][Next]_vars

-----------------------------------------------------------------------------
\* The map line i of listing s belongs to: how many headers there are up to it.
mapOf(s, i) == Cardinality({j \in 1 .. i : isHeader(s[j])})

\* How many of the first i lines of s are paths of map k.
pathsTo(s, i, k) == Cardinality({j \in 1 .. i : s[j].kind = "path" /\ mapOf(s, j) = k})

(***************************************************************************)
(* What a listing s says: ms has one map for each header, in order, with   *)
(* the paths printed up to the next, in order.                             *)
(***************************************************************************)
Reading(s, ms) ==
  /\ Len(ms) = mapOf(s, Len(s))
  /\ \A i \in 1 .. Len(s) : isHeader(s[i]) => ms[mapOf(s, i)].wwid = s[i].wwid
  /\ \A k \in 1 .. Len(ms) : Len(ms[k].paths) = pathsTo(s, Len(s), k)
  /\ \A i \in 1 .. Len(s) : s[i].kind = "path" /\ mapOf(s, i) > 0 =>
       ms[mapOf(s, i)].paths[pathsTo(s, i, mapOf(s, i))] = s[i].wwid

AllKnown == \A i \in DOMAIN printed : printed[i].kind # "odd"

(***************************************************************************)
(* If it knows all the headers of a listing, also one that is cut off      *)
(* after a line, the parser returns what the listing says.                 *)
(***************************************************************************)
ParsedAsPrinted == AllKnown /\ done => Reading(printed, maps)

(***************************************************************************)
(* The paths of a map (mpMap: "backing sd device names") are its own: what *)
(* the cleaner deletes with a map of its vendor is none of another's.      *)
(***************************************************************************)
OwnPaths == \A k \in DOMAIN maps : \A i \in DOMAIN maps[k].paths : maps[k].paths[i] = maps[k].wwid
=============================================================================
