---------------------------- MODULE CheckScript ----------------------------
(***************************************************************************)
(* scripts/check_formal_specs.sh: the checks of the formal side-           *)
(* specifications, run any number of times over one cached tla2tools.jar.  *)
(*                                                                         *)
(* place is where the script is; the checks are Lean, the checksum of the  *)
(* jar and three TLC runs, the last of which must report a violation.      *)
(* What lake, java, curl and TLC answer is free.  A run may be killed      *)
(* between two steps and in the middle of a download, which leaves a       *)
(* partial file; between runs the cached file may be changed by others.    *)
(* Any file that is not the pinned release is "other".                     *)
(*                                                                         *)
(* passed, failed and trusted are history: the checks of this run by their *)
(* verdict, and the files java was given, in all runs.                     *)
(***************************************************************************)
EXTENDS Naturals

CONSTANT MaxTrouble     \* bound: kills and outside changes explored

ASSUME TroubleAssumption == MaxTrouble \in Nat

VARIABLES
    place, status, jar,
    passed, failed, trusted,
    trouble

history == << passed, failed, trusted >>
scriptVars == << place, status, jar, history, trouble >>

TlcChecks == {"AntProtocol", "AntProtocolFaulty", "NegControl"}
Checks == {"lean", "checksum"} \cup TlcChecks
Jars == {"none", "pinned", "other"}
Places == {"idle", "lean", "java", "fetch", "checksum"} \cup TlcChecks \cup {"exit"}

ScriptTypeOK ==
    /\ place \in Places
    /\ status \in {0, 1}
    /\ jar \in Jars
    /\ passed \subseteq Checks
    /\ failed \subseteq Checks \cup {"java", "fetch"}
    /\ trusted \subseteq Jars
    /\ trouble \in 0 .. MaxTrouble

ScriptInit ==
    /\ place = "idle" /\ status = 0
    /\ jar = "none"
    /\ passed = {} /\ failed = {} /\ trusted = {}
    /\ trouble = 0

-----------------------------------------------------------------------------
(* The script is started: a new status.                                    *)
Launch ==
    /\ place = "idle"
    /\ place' = "lean" /\ status' = 0
    /\ passed' = {} /\ failed' = {}
    /\ UNCHANGED << jar, trusted, trouble >>

Passes(check) == passed' = passed \cup {check} /\ UNCHANGED << status, failed >>

Fails(check) == failed' = failed \cup {check} /\ status' = 1 /\ UNCHANGED passed

(* lake build; the rest is run in either case.                             *)
Lean ==
    /\ place = "lean" /\ place' = "java"
    /\ Passes("lean") \/ Fails("lean")
    /\ UNCHANGED << jar, trusted, trouble >>

(* A bug: a machine without java has nothing to check.                     *)
Java_Optional ==
    /\ place = "java"
    /\ place' \in {"fetch", "exit"}
    /\ UNCHANGED << status, passed, failed, jar, trusted, trouble >>

(* Without java all the rest is left out.                                  *)
Java ==
    /\ place = "java"
    /\ \/ place' = "fetch" /\ UNCHANGED << status, passed, failed >>
       \/ place' = "exit" /\ Fails("java")
    /\ UNCHANGED << jar, trusted, trouble >>

(* A bug: only what was just fetched is verified.                          *)
Fetch_TrustsCached ==
    /\ place = "fetch"
    /\ \/ jar # "none" /\ place' = "AntProtocol" /\ UNCHANGED << jar, status, passed, failed >>
       \/ /\ jar = "none" /\ place' = "checksum"
          /\ jar' \in {"pinned", "other"} /\ UNCHANGED << status, passed, failed >>
       \/ jar = "none" /\ place' = "checksum" /\ jar' = "none" /\ Fails("fetch")
    /\ UNCHANGED << trusted, trouble >>

(* The jar is fetched if there is no file at all; what a failed download   *)
(* left is removed.                                                        *)
Fetch ==
    /\ place = "fetch" /\ place' = "checksum"
    /\ \/ jar # "none" /\ UNCHANGED << jar, status, passed, failed >>
       \/ jar = "none" /\ jar' \in {"pinned", "other"} /\ UNCHANGED << status, passed, failed >>
       \/ jar = "none" /\ jar' = "none" /\ Fails("fetch")
    /\ UNCHANGED << trusted, trouble >>

(* A bug: a mismatch is reported, and the file stays.                      *)
Checksum_KeepsFile ==
    /\ place = "checksum" /\ place' = "AntProtocol"
    /\ \/ status = 0 /\ jar = "pinned" /\ Passes("checksum")
       \/ status = 0 /\ jar # "pinned" /\ Fails("checksum")
       \/ status # 0 /\ UNCHANGED << status, passed, failed >>
    /\ UNCHANGED << jar, trusted, trouble >>

(* shasum -c, unless something failed before; a mismatch removes the file. *)
Checksum ==
    /\ place = "checksum" /\ place' = "AntProtocol"
    /\ \/ status = 0 /\ jar = "pinned" /\ Passes("checksum") /\ UNCHANGED jar
       \/ status = 0 /\ jar # "pinned" /\ Fails("checksum") /\ jar' = "none"
       \/ status # 0 /\ UNCHANGED << status, passed, failed, jar >>
    /\ UNCHANGED << trusted, trouble >>

AfterCheck(check) ==
    CASE check = "AntProtocol" -> "AntProtocolFaulty"
      [] check = "AntProtocolFaulty" -> "NegControl"
      [] check = "NegControl" -> "exit"

(* A bug: the run of the faulty model is not skipped.                      *)
Tlc_FaultyAnyway(check) ==
    /\ place = check /\ place' = AfterCheck(check)
    /\ \/ /\ status = 0 \/ check = "AntProtocolFaulty"
          /\ Passes(check) \/ Fails(check)
          /\ trusted' = trusted \cup {jar}
       \/ /\ status # 0 /\ check # "AntProtocolFaulty"
          /\ UNCHANGED << status, history >>
    /\ UNCHANGED << jar, trouble >>

(* One of the TLC runs, skipped when something failed before.  The first   *)
(* two pass by java's exit code, the negative control by the violation in  *)
(* its output.                                                             *)
Tlc(check) ==
    /\ place = check /\ place' = AfterCheck(check)
    /\ \/ status = 0 /\ (Passes(check) \/ Fails(check)) /\ trusted' = trusted \cup {jar}
       \/ status # 0 /\ UNCHANGED << status, history >>
    /\ UNCHANGED << jar, trouble >>

(* exit "${status}"                                                        *)
Exit ==
    /\ place = "exit" /\ place' = "idle"
    /\ UNCHANGED << status, jar, history, trouble >>

(* The script is killed; a download it was in leaves part of the file.     *)
Kill ==
    /\ place # "idle" /\ place' = "idle"
    /\ trouble < MaxTrouble /\ trouble' = trouble + 1
    /\ jar' \in {jar} \cup (IF place = "fetch" /\ jar = "none" THEN {"other"} ELSE {})
    /\ status' = 1
    /\ UNCHANGED history

(* Something else replaces or removes the cached file.                     *)
Outside ==
    /\ place = "idle"
    /\ trouble < MaxTrouble /\ trouble' = trouble + 1
    /\ jar' \in Jars \ {jar}
    /\ UNCHANGED << place, status, history >>

ScriptNext ==
    \/ Launch \/ Lean \/ Java \/ Fetch \/ Checksum \/ Exit \/ Kill \/ Outside
    \/ \E check \in TlcChecks : Tlc(check)

ScriptSpec == ScriptInit /\ [][ScriptNext]_scriptVars

(* Somebody goes on running the script, on a machine whose Lean build and  *)
(* java work every now and then; nothing is assumed of the downloads.      *)
Running ==
    Launch \/ Lean \/ Java \/ Fetch \/ Checksum \/ Exit \/ \E check \in TlcChecks : Tlc(check)
FairScript ==
    /\ ScriptSpec
    /\ WF_scriptVars(Running)
    /\ SF_scriptVars(Lean /\ status' = 0)
    /\ SF_scriptVars(Java /\ place' = "fetch" /\ status = 0)

-----------------------------------------------------------------------------
(* java is never run on a file other than the pinned release, whatever     *)
(* earlier runs, kills and others left in the cache.                       *)
OnlyPinnedRuns == trusted \subseteq {"pinned"}

(* The order in which things are tried.                                    *)
Turn == [lean |-> 1, java |-> 2, fetch |-> 3, checksum |-> 4,
         AntProtocol |-> 5, AntProtocolFaulty |-> 6, NegControl |-> 7, exit |-> 8]

(* What a finished run tells its caller: exit status 0 means that nothing  *)
(* failed, and 1 that something did, which may be more than one thing.  In *)
(* either case the checks that passed, in this run, are exactly those that *)
(* come before whatever failed: all of them, the negative control          *)
(* included, if nothing did, and none that comes after a failure.          *)
ExitTellsTruth ==
    place = "exit" =>
        /\ status = IF failed = {} THEN 0 ELSE 1
        /\ passed = { c \in Checks : \A f \in failed : Turn[c] < Turn[f] }

(* A bad file in the cache is not there for good: the script gets rid of   *)
(* it by itself.                                                           *)
CacheHeals == jar = "other" ~> jar # "other"
=============================================================================
