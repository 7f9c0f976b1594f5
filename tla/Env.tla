-------------------------------- MODULE Env --------------------------------
(***************************************************************************)
(* env/env.go: stenographer keeps stenotype running.  Before each start it *)
(* removes what a dead stenotype left half done, while SyncFiles goes on   *)
(* in its own goroutine.  Either program may die at any time; a            *)
(* stenographer that starts finds no stenotype running (configs/           *)
(* systemd.conf kills it), and one that dies takes its goroutines along.   *)
(***************************************************************************)
EXTENDS Thread

CONSTANTS
    MaxRestarts,  \* bound on the restarts of stenographer
    DirErrors     \* whether removeOldFiles can fail to list or to remove

ASSUME MaxRestartsAssumption == MaxRestarts \in Nat
ASSUME DirErrorsAssumption == DirErrors \in BOOLEAN

VARIABLES
    env,      \* where RunStenotype is; "wait" is cmd.Wait
    seen,     \* packetFiles, as filesIn listed them
    stale,    \* mismatchedFilesToRemove
    erred,    \* removeOldFiles logged an error since it last began
    restarts  \* number of restarts so far

envVars == <<env, seen, stale, erred, restarts>>
allVars == <<vars, envVars>>

EnvInit ==
    /\ Init
    /\ env = "hidden"
    /\ seen = {} /\ stale = {}
    /\ erred = FALSE
    /\ restarts = 0

(***************************************************************************)
(* removeOldFiles: hidden files, then two listings, then what is only in   *)
(* one of them.                                                            *)
(***************************************************************************)
Shown(dir) == [n \in Names |-> IF dir[n] = "dead" THEN "removed" ELSE dir[n]]

RemoveHiddenFiles ==
    /\ env = "hidden"
    /\ pkt' = Shown(pkt) /\ idx' = Shown(idx)
    /\ env' = "packets"
    /\ UNCHANGED <<syncVars, removals, queryVars, debugVars, seen, stale, erred, restarts>>

ListPackets ==
    /\ env = "packets"
    /\ seen' = {n \in Names : pkt[n] = "visible"}
    /\ env' = "indexes"
    /\ UNCHANGED <<vars, stale, erred, restarts>>

Mismatched == ({"pkt"} \X (seen \ Listed)) \cup ({"idx"} \X (Listed \ seen))

ListIndexes ==
    /\ env = "indexes"
    /\ stale' = Mismatched
    /\ env' = "remove"
    /\ UNCHANGED <<vars, seen, erred, restarts>>

RemoveMismatched ==
    /\ env = "remove"
    /\ \E r \in stale :
          /\ stale' = stale \ {r}
          /\ IF r[1] = "pkt"
             THEN pkt' = [pkt EXCEPT ![r[2]] = "removed"] /\ UNCHANGED idx
             ELSE idx' = [idx EXCEPT ![r[2]] = "removed"] /\ UNCHANGED pkt
    /\ UNCHANGED <<syncVars, removals, queryVars, debugVars, env, seen, erred, restarts>>

AnyStale == TRUE  \* mutant: stenotype starts before the removals
NothingStale == stale = {}

StartStenotype ==
    /\ env = "remove" /\ NothingStale
    /\ env' = "wait"
    /\ UNCHANGED <<vars, seen, stale, erred, restarts>>

(* Errors are logged: hidden files stay, a directory that cannot be listed *)
(* ends the comparison, a file that cannot be removed is passed over.      *)
HiddenStay == env = "hidden" /\ env' = "packets" /\ UNCHANGED stale
ListingFails ==
    env \in {"packets", "indexes"} /\ env' = "remove" /\ UNCHANGED stale
RemoveFails == env = "remove" /\ UNCHANGED env /\ \E r \in stale : stale' = stale \ {r}

DirError ==
    /\ DirErrors
    /\ HiddenStay \/ ListingFails \/ RemoveFails
    /\ erred' = TRUE
    /\ UNCHANGED <<vars, seen, restarts>>

RemoveOldFiles ==
    RemoveHiddenFiles \/ ListPackets \/ ListIndexes \/ RemoveMismatched \/ DirError

(***************************************************************************)
(* cmd.Wait returns: stenotype exited, crashed, or was killed because no   *)
(* new file was seen for too long.  RunStenotype goes round.               *)
(***************************************************************************)
AlwaysRuns == TRUE  \* mutant: the old process may still be there
StenotypeRuns == env = "wait"

(* What it had hidden stays so, and no index is written any more.          *)
Left(dir) == [n \in Names |-> CASE dir[n] = "hidden" -> "dead"
                                [] dir[n] = "absent" /\ pkt[n] # "absent" -> "removed"
                                [] OTHER -> dir[n]]

StenotypeDies ==
    /\ env = "wait"
    /\ env' = "hidden" /\ erred' = FALSE
    /\ pkt' = Left(pkt) /\ idx' = Left(idx)
    /\ UNCHANGED <<syncVars, removals, queryVars, debugVars, seen, stale, restarts>>

(* stenographer dies (a log.Fatalf, a watchdog, a signal) and starts anew. *)
StenographerRestarts ==
    /\ restarts < MaxRestarts
    /\ restarts' = restarts + 1
    /\ env' = "hidden" /\ seen' = {} /\ stale' = {} /\ erred' = FALSE
    /\ files' = {} /\ sync' = "idle" /\ listing' = {} /\ doomed' = {}
    /\ removals' = {}
    /\ todo' = [q \in Queries |-> {}] /\ lookups' = {}
    /\ debug' = {} /\ dumps' = {}
    /\ pkt' = Left(pkt) /\ idx' = Left(idx)

ThreadStep(A) == A /\ UNCHANGED envVars

EnvNext ==
    \/ RemoveOldFiles \/ StartStenotype \/ StenotypeDies \/ StenographerRestarts
    \/ ThreadStep(StenotypeRuns /\ Stenotype)
    \/ ThreadStep(SyncFiles \/ Syncing \/ TryToDeleteFile \/ Querying \/ Debugging)

EnvSpec == EnvInit /\ [][EnvNext]_allVars

(* As in Thread, and RunStenotype runs.  Nobody has to die.                *)
EnvFairSpec ==
    /\ EnvSpec
    /\ WF_allVars(RemoveOldFiles \/ StartStenotype)
    /\ WF_allVars(ThreadStep(TryToDeleteFile))
-----------------------------------------------------------------------------
(* removeOldFiles never breaks a pair: it removes a visible file only when *)
(* the other half is not there, although its two listings are taken at     *)
(* different times and SyncFiles deletes and tracks files in between.      *)
NoPairBroken ==
    [][\A n \in Names :
          /\ <<"pkt", n>> \in stale \ stale' => idx[n] # "visible"
          /\ <<"idx", n>> \in stale \ stale' => pkt[n] # "visible"]_allVars

(* Without errors a new stenotype starts on clean directories: nothing     *)
(* hidden, and no file without its other half but those whose deletion is  *)
(* under way.                                                              *)
StartsClean ==
    [][env = "remove" /\ env' = "wait" /\ ~erred =>
          \A n \in Names :
              /\ {pkt[n], idx[n]} \cap {"hidden", "dead"} = {}
              /\ (pkt[n] = "visible") # (idx[n] = "visible") =>
                    {<<"pkt", n>>, <<"idx", n>>} \cap removals # {}]_allVars


=============================================================================
