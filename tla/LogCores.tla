------------------------------ MODULE LogCores ------------------------------
(***************************************************************************)
(* Log.InitLog (log.go): which outputs a configuration creates and which   *)
(* of them a record of a level reaches. Levels are zap's numbers. A text   *)
(* of the configuration is the value it is parsed to, "absent" when it is  *)
(* not there; a list of levels is the sequence of its parts.               *)
(***************************************************************************)
EXTENDS Loops, FiniteSets

Debug == -1
Info == 0
Warn == 1
ErrorLevel == 2
DPanic == 3
PanicLevel == 4
Fatal == 5
Levels == Debug .. Fatal

(* The level a name stands for; other names stand for none. *)
Named == {<<"debug", Debug>>, <<"info", Info>>, <<"warn", Warn>>, <<"warning", Warn>>, <<"error", ErrorLevel>>,
          <<"fatal", Fatal>>, <<"panic", PanicLevel>>}
LevelsNamed(name) == {p[2] : p \in {q \in Named : q[1] = name}}

MinLevel(c) == IF LevelsNamed(c.level) = {} THEN Debug ELSE CHOOSE l \in LevelsNamed(c.level) : TRUE

(* Mutant: the levels of the list, whatever the minimum. *)
parseOutputLevelsAll(parts, min) == IF parts = <<"all">> THEN {} ELSE UNION {LevelsNamed(parts[i]) : i \in DOMAIN parts}

(* The levels of the list that are not below the minimum; none for an      *)
(* empty list and for "all".                                               *)
parseOutputLevels(parts, min) ==
  IF parts = <<"all">> THEN {} ELSE {l \in UNION {LevelsNamed(parts[i]) : i \in DOMAIN parts} : min <= l}

(* An empty list of levels stands for every level. *)
containsLevel(levels, lvl) == levels = {} \/ \E l \in levels : l <= lvl
containsExactLevel(levels, lvl) == levels = {} \/ lvl \in levels

(* A core: where it writes, and the levels it writes. *)
Core(to, levels) == [to |-> to, levels |-> levels]
GlobalLevel(c) == {l \in Levels : l >= MinLevel(c)}
Chosen(c, parts) == {l \in GlobalLevel(c) : containsLevel(parseOutputLevels(parts, MinLevel(c)), l)}

LevelFiles == {Core("debug", {Debug}), Core("info", {Info}), Core("warn", {Warn}), Core("error", ErrorLevel .. Fatal)}
Lowest(core) == CHOOSE l \in core.levels : \A k \in core.levels : l <= k
buildFileCores(c) ==
  {Core(f.to, f.levels \cap GlobalLevel(c)) :
     f \in {g \in LevelFiles : /\ MinLevel(c) <= Lowest(g)
                               /\ containsExactLevel(parseOutputLevels(c.fileLevels, MinLevel(c)), Lowest(g))}}

ConsoleCores(c) == IF c.type \in {"console", "hybrid", "absent"} THEN {Core("console", Chosen(c, c.consoleLevels))} ELSE {}
FileCores(c) ==
  IF c.type \notin {"file", "hybrid"} THEN {}
  ELSE IF c.fileMode = "single" THEN {Core("all", Chosen(c, c.fileLevels))}
  ELSE buildFileCores(c)

InitLog(c) ==
  IF ConsoleCores(c) \cup FileCores(c) = {} THEN {Core("console", GlobalLevel(c))}
  ELSE ConsoleCores(c) \cup FileCores(c)

(* Where a record goes: NewTee hands it to every core that takes its level. *)
Outputs(c, lvl) == {core.to : core \in {k \in InitLog(c) : lvl \in k.levels}}

----------------------------------------------------------------------------
(* Rotation. Times are seconds; a text that is absent or no number is not  *)
(* ok, which has the same effect: the default.                             *)
Minute == 60
Hour == 60 * Minute
Day == 24 * Hour

parseDuration(d) == d.n * (CASE d.unit = "d" -> Day [] d.unit = "h" -> Hour [] d.unit = "m" -> Minute [] d.unit = "s" -> 1)

Parsed(text, default) == IF text.ok THEN text.n ELSE default

(* The options for the library: how often a file is begun, in which unit   *)
(* its name tells the time, how long and how many files are kept.          *)
getWriter(r) ==
  LET time == IF r.rotationTime.ok /\ parseDuration(r.rotationTime) > 0 THEN parseDuration(r.rotationTime) ELSE Day
      maxAge == Parsed(r.maxAge, 7)
      count == IF Parsed(r.rotationCount, -1) > 0 THEN r.rotationCount.n ELSE -1
  IN  [time |-> time,
       unit |-> IF time >= Day THEN Day ELSE IF time >= Hour THEN Hour ELSE Minute,
       maxAge |-> IF count > 0 \/ maxAge < 0 THEN -1 ELSE maxAge * Day,
       count |-> count]

----------------------------------------------------------------------------
(* The properties of one configuration c, as the comments of log.go state  *)
(* them: nothing below the minimum is written; without lists everything    *)
(* else is, separate files hold each record once; a list that names a      *)
(* level of at least the minimum cuts the console and the single file      *)
(* below its lowest level, the separate files to those it names; one whose *)
(* levels are all below the minimum is no list at all; and files chosen by *)
(* a list that names no file's level fall back to the console.             *)
Lists(parts) == UNION {LevelsNamed(parts[i]) : i \in DOMAIN parts}
Asked(c, parts) == {l \in Lists(parts) : l >= MinLevel(c)}
FilesOnly(c) == c.type = "file" /\ c.fileMode # "single"

ReachesOutputs(c) ==
  \A l \in Levels :
    LET out == Outputs(c, l)
        above(parts) == Asked(c, parts) = {} \/ \E k \in Asked(c, parts) : l >= k
        file == IF l >= ErrorLevel THEN "error" ELSE CHOOSE f \in {"debug", "info", "warn"} : l \in LevelsNamed(f)
        fallback == c.type \notin {"console", "hybrid", "absent", "file"} \/ (FilesOnly(c) /\ buildFileCores(c) = {})
    IN  /\ l < MinLevel(c) => out = {}
        /\ l >= MinLevel(c) =>
             /\ fallback => out = {"console"}
             /\ c.type \in {"console", "hybrid", "absent"} => ("console" \in out <=> above(c.consoleLevels))
             /\ c.type \in {"file", "hybrid"} /\ c.fileMode = "single" => ("all" \in out <=> above(c.fileLevels))
             /\ c.type \in {"file", "hybrid"} /\ c.fileMode # "single" /\ MinLevel(c) <= ErrorLevel /\ Asked(c, c.fileLevels) = {}
                  => out \ {"console"} = {file}
             /\ c.type \in {"file", "hybrid"} /\ c.fileMode # "single" /\ Asked(c, c.fileLevels) # {}
                  => (file \in out <=> (IF l >= ErrorLevel THEN ErrorLevel ELSE l) \in Asked(c, c.fileLevels))

(* Log.go: the library refuses a writer with both an age and a number of   *)
(* files to keep, and getWriter would panic: it never asks for both; and   *)
(* the names of successive files differ, but for times under a minute.     *)
RotationAccepted(r) ==
  LET w == getWriter(r) IN ~(w.maxAge > 0 /\ w.count > 0) /\ (w.unit <= w.time \/ w.time < Minute)
=============================================================================
