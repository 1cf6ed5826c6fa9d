---------------------------- MODULE WriteBudget ----------------------------
(***************************************************************************)
(* The write budget of one unattended automation: its state file           *)
(* (src/src/core/automation-state.ts), the reservation of a hardware write *)
(* (reserveAutomationWriteBudget), the scheduled health check that resets  *)
(* the count (agentMonitorHealth) and the dashboard's reset.  Each run     *)
(* holds the file's cross-process lock; the file itself is made before.    *)
(***************************************************************************)
EXTENDS LockFile, Integers

CONSTANTS
  MaxFlashes,  \* maxConsecutiveFlashes of the lab-runner policy
  Ages         \* BOOLEAN: can the file stay unwritten for thirty days?

ASSUME BudgetAssumption ==
  /\ MaxFlashes \in Nat
  /\ Ages \in BOOLEAN

VARIABLES
  state,   \* the file: the writes since a healthy check, and is it stale
  locker,  \* who made the lock of the file
  job,     \* job[p]: the run that p is in
  spent,   \* how many writes were reserved since the last healthy check
  lapsed   \* the file has gone stale, or was emptied, since that check

budgetVars == <<state, locker, job, spent, lapsed>>

Missing == [writes |-> 0, age |-> "missing"]
Fresh(n) == [writes |-> n, age |-> "fresh"]
Jobs == {"reserve", "monitor", "clear"}
Moments == {"creating", "created", "locked", "writing", "written",
            "granted", "refused"}

BudgetTypeOK ==
  /\ state \in [writes : Nat, age : {"missing", "fresh", "stale"}]
  /\ locker \in Holders
  /\ job \in [Caller -> [moment : Moments, run : Jobs, seen : Nat]
                          \cup {[moment |-> "idle"]}]
  /\ spent \in Nat
  /\ lapsed \in BOOLEAN

BudgetInit ==
  /\ state = Missing
  /\ locker = Nobody
  /\ job = [p \in Caller |-> [moment |-> "idle"]]
  /\ spent = 0
  /\ lapsed = FALSE

In(p, moment) == job[p].moment = moment

Runs(p, run) == ~In(p, "idle") /\ job[p].run = run

Pass(p, moment) == job' = [job EXCEPT ![p] = [@ EXCEPT !.moment = moment]]

-----------------------------------------------------------------------------
(* withAutomationStateLock: is there a file?                               *)
Begin(p, run) ==
  /\ In(p, "idle")
  /\ job' = [job EXCEPT ![p] =
       [moment |-> IF state.age = "missing" THEN "creating" ELSE "created",
        run |-> run, seen |-> 0]]
  /\ UNCHANGED <<state, locker, spent, lapsed>>

(* There was none, and an empty one is renamed into place; another run may *)
(* have made it, and reserved a write in it, since p looked.               *)
CreateState(p) ==
  /\ In(p, "creating")
  /\ state' = Fresh(0)
  /\ lapsed' = (lapsed \/ state.age # "missing")
  /\ Pass(p, "created")
  /\ UNCHANGED <<locker, spent>>

(* Wrong: runs overlap. *)
LockStateShared(p) ==
  /\ In(p, "created")
  /\ locker' = p
  /\ Pass(p, "locked")
  /\ UNCHANGED <<state, spent, lapsed>>

LockState(p) ==
  /\ In(p, "created")
  /\ Available(locker)
  /\ locker' = p
  /\ Pass(p, "locked")
  /\ UNCHANGED <<state, spent, lapsed>>

(* OVERLAPPING_RUN.                                                        *)
Overlap(p) ==
  /\ In(p, "created")
  /\ ~Available(locker)
  /\ Pass(p, "refused")
  /\ UNCHANGED <<state, locker, spent, lapsed>>

(* A reservation rests on a record it can verify, and on the limit.        *)
WithinBudget == state.age = "fresh" /\ state.writes < MaxFlashes

(* What a run reads.  A monitoring run takes a stale record for an empty   *)
(* one; the dashboard's reset keeps its count.                             *)
ReadState(p) ==
  /\ In(p, "locked")
  /\ job[p].run = "reserve" => WithinBudget
  /\ job' = [job EXCEPT ![p] =
       [@ EXCEPT !.moment = "writing",
                 !.seen = IF job[p].run = "monitor" /\ state.age # "fresh"
                          THEN 0 ELSE state.writes]]
  /\ UNCHANGED <<state, locker, spent, lapsed>>

(* The scope, the cooldown or the budget denies a reservation, and a       *)
(* capture may fail: the lock is released and nothing written.             *)
Abandon(p) ==
  /\ In(p, "locked") \/ In(p, "writing")
  /\ locker' = Nobody
  /\ Pass(p, "refused")
  /\ UNCHANGED <<state, spent, lapsed>>

(* The count goes up before the write that it allows.  spent stops one     *)
(* above the limit, which bounds the model.                                *)
Reserve(p) ==
  /\ In(p, "writing") /\ job[p].run = "reserve"
  /\ state' = Fresh(job[p].seen + 1)
  /\ spent' = IF spent > MaxFlashes THEN spent ELSE spent + 1
  /\ Pass(p, "written")
  /\ UNCHANGED <<locker, lapsed>>

(* Only a healthy check starts the count anew.                             *)
CheckedHealthy(p) ==
  /\ In(p, "writing") /\ job[p].run = "monitor"
  /\ state' = Fresh(0)
  /\ spent' = 0
  /\ lapsed' = FALSE
  /\ Pass(p, "written")
  /\ UNCHANGED locker

(* An unhealthy check, and the dashboard's reset, write the count back.    *)
WriteBack(p) ==
  /\ In(p, "writing") /\ job[p].run # "reserve"
  /\ state' = Fresh(job[p].seen)
  /\ Pass(p, "written")
  /\ UNCHANGED <<locker, spent, lapsed>>

Unlock(p) ==
  /\ In(p, "written") /\ locker' = Nobody
  /\ Pass(p, IF job[p].run = "reserve" THEN "granted" ELSE "refused")
  /\ UNCHANGED <<state, spent, lapsed>>

Finish(p) ==
  /\ In(p, "granted") \/ In(p, "refused")
  /\ job' = [job EXCEPT ![p] = [moment |-> "idle"]]
  /\ UNCHANGED <<state, locker, spent, lapsed>>

CrashJob(p) ==
  /\ job' = [job EXCEPT ![p] = [moment |-> "idle"]]
  /\ locker' = AfterDeath(locker, p)
  /\ UNCHANGED <<state, spent, lapsed>>

(* Thirty days without a write.                                            *)
Age ==
  /\ Ages /\ state.age = "fresh"
  /\ state' = [state EXCEPT !.age = "stale"]
  /\ lapsed' = TRUE
  /\ UNCHANGED <<locker, job, spent>>

BudgetStep(p) ==
  \/ CreateState(p) \/ LockState(p) \/ Overlap(p) \/ ReadState(p)
  \/ Abandon(p) \/ Reserve(p) \/ CheckedHealthy(p) \/ WriteBack(p)
  \/ Unlock(p)

-----------------------------------------------------------------------------
(* The automation writes to its device at most MaxFlashes times between    *)
(* two healthy checks, whichever processes serve it and whichever of them  *)
(* crash, as long as its file was neither left stale nor emptied by a late *)
(* creation (reserveAutomationWriteBudget, agentMonitorHealth).            *)
BudgetHolds == ~lapsed => spent <= MaxFlashes

(* The same with nothing excepted, as the comment has it: a reservation    *)
(* atomically validates and records one write attempt, and only a healthy  *)
(* monitor result resets the counter (automation-policy.ts).               *)
BudgetAlwaysHolds == spent <= MaxFlashes
=============================================================================
