-------------------------------- MODULE Fiber -------------------------------
(***************************************************************************)
(* The lifecycle of one fiber, as the primitives that drive it see it.     *)
(*                                                                         *)
(* A state is the fiber's status (src/value/fiber/status.rs) together with *)
(* the SIG_ERROR bit of the signal it holds, because every reader in the   *)
(* scheduler asks for both:                                                *)
(*                                                                         *)
(*   "none"       not created yet                                          *)
(*   "new"        :new        created, never resumed                       *)
(*   "alive"      :alive      running on the VM                            *)
(*   "paused"     :paused     suspended on a request                       *)
(*   "stopped"    :paused + SIG_ERROR   raised an error its mask caught    *)
(*   "error"      :error      an abort's error it did not catch            *)
(*   "dead"       :dead       returned                                     *)
(*   "cancelled"  :dead + SIG_ERROR     ended by fiber/cancel              *)
(***************************************************************************)
Status == {"none", "new", "alive", "paused", "stopped", "error",
           "dead", "cancelled"}

\* fiber-failed?
Failed(s) == s \in {"stopped", "error", "cancelled"}

\* (= (fiber/status f) :dead)
IsDead(s) == s \in {"dead", "cancelled"}

\* The fiber will never run again unless somebody restarts it by mistake.
Terminated(s) == Failed(s) \/ IsDead(s)

\* A slip: the status alone decides.
VerdictByStatus(s) == IF s = "error" THEN "error" ELSE "ok"

\* What complete-fiber is called with.
Verdict(s) == IF Failed(s) THEN "error" ELSE "ok"

\* fiber/resume accepts :new, :paused and :error, and so restarts a fiber that
\* failed; it raises "cannot resume completed fiber" on :dead.
CanResume(s) == s \in {"new", "paused", "stopped", "error"}

\* fiber/abort raises at the suspension point of a :paused fiber.
CanRaise(s) == s \in {"paused", "stopped"}

\* fiber/abort refuses an :error fiber with a state-error.
RefusesAbort(s) == s = "error"

\* fiber/cancel (under protect: a :dead fiber is left alone).
AfterCancel(s) == IF IsDead(s) THEN s ELSE "cancelled"

\* The status an error leaves behind: a resume whose mask caught it leaves the
\* fiber :paused holding the signal, an abort leaves it :error.
AfterError(how) == IF how = "abort" THEN "error" ELSE "stopped"
=============================================================================
