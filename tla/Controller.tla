----------------------------- MODULE Controller -----------------------------
(***************************************************************************)
(* One reconciliation controller (reconciliation.rs, struct State): the    *)
(* revisions, the pending scope, the run under way and the revision reads  *)
(* are safe at.  Every operator is one method, a single critical section   *)
(* of the controller's mutex, as a function from the state c to the next.  *)
(* An operator that precedes another and differs from it in one condition  *)
(* (FinishForgetsGit, IdleIgnoresRun, ...) is a faulty variant of it: the  *)
(* properties are shown to notice the difference.                          *)
(* The coverage ledger the same mutex guards is in module Coverage.        *)
(*                                                                         *)
(* Revisions count from 1, so 0 stands for None in `safe` and for "no run" *)
(* in a ticket.  A new controller is a new incarnation: all tickets and    *)
(* tokens of the previous one died with its process.                       *)
(***************************************************************************)
EXTENDS Scopes

Ticket == [run : Nat, observed : Nat, scope : Scope, git : BOOLEAN]
NoTicket == [run |-> 0, observed |-> 0, scope |-> NoScope, git |-> FALSE]

ControllerType ==
    [observed : Nat, publication : Nat, nextRun : Nat, pending : Scope,
     gitPending : BOOLEAN, active : Ticket, safe : Nat, watchError : BOOLEAN]

NewControllerTrusting ==
    [observed |-> 1, publication |-> 0, nextRun |-> 0, pending |-> Full,
     gitPending |-> FALSE, active |-> NoTicket, safe |-> 1, watchError |-> FALSE]
NewController ==
    [observed |-> 1, publication |-> 0, nextRun |-> 0, pending |-> Full,
     gitPending |-> FALSE, active |-> NoTicket, safe |-> 0, watchError |-> FALSE]

Observe(c, scope, git) ==
    [c EXCEPT !.observed = @ + 1,
              !.gitPending = @ \/ git,
              !.pending = Queue(@, scope)]

SetWatchError(c, error) ==
    IF c.watchError = error THEN c
    ELSE [c EXCEPT !.watchError = error, !.publication = @ + 1]

CanBegin(c) == c.active = NoTicket /\ c.pending # NoScope

(* The ticket begin issues: all of the pending work, at this revision. *)
NextTicket(c) ==
    [run |-> c.nextRun + 1, observed |-> c.observed,
     scope |-> c.pending, git |-> c.gitPending]

Begin(c) ==
    [c EXCEPT !.nextRun = @ + 1, !.publication = @ + 1, !.active = NextTicket(c),
              !.pending = NoScope, !.gitPending = FALSE]

(* Run::widen: the run's scope grows, the revisions stay. *)
WidenTicket(t, scope) == [t EXCEPT !.scope = Merge(@, scope)]
SetActive(c, t) == [c EXCEPT !.active = t]

Matches(c, t) ==
    /\ c.active.run = t.run
    /\ c.active.observed = t.observed
    /\ c.active.scope = t.scope

InvalidatedAtCurrent(c, t) ==
    IF Matches(c, t) THEN [c EXCEPT !.safe = c.observed, !.publication = @ + 1] ELSE c
Invalidated(c, t) ==
    IF Matches(c, t) THEN [c EXCEPT !.safe = t.observed, !.publication = @ + 1] ELSE c

(* Publisher::source, its effect on the revisions. *)
Published(c, t) == IF Matches(c, t) THEN [c EXCEPT !.publication = @ + 1] ELSE c

(***************************************************************************)
(* finish, its effect on the controller: `failed` says that the result is  *)
(* an error, `completed` that it is a report that is neither cancelled nor *)
(* incomplete.  Unless the run completed at the revision reads are safe    *)
(* at, its scope goes back to the queue (everything, after an error).      *)
(***************************************************************************)
FinishForgetsGit(c, t, failed, completed) ==
    LET done == [c EXCEPT !.active = NoTicket, !.publication = @ + 1] IN
    IF completed /\ c.safe = t.observed THEN done
    ELSE [done EXCEPT !.pending = Queue(@, IF failed THEN Full ELSE t.scope), !.safe = 0]
FinishClearsQueue(c, t, failed, completed) ==
    LET done == [c EXCEPT !.active = NoTicket, !.publication = @ + 1,
                          !.pending = NoScope] IN
    IF completed /\ c.safe = t.observed THEN done
    ELSE [done EXCEPT !.pending = Queue(@, IF failed THEN Full ELSE t.scope),
                      !.gitPending = @ \/ t.git,
                      !.safe = 0]
Finish(c, t, failed, completed) ==
    LET done == [c EXCEPT !.active = NoTicket, !.publication = @ + 1] IN
    IF completed /\ c.safe = t.observed THEN done
    ELSE [done EXCEPT !.pending = Queue(@, IF failed THEN Full ELSE t.scope),
                      !.gitPending = @ \/ t.git,
                      !.safe = 0]

(* snapshot and validates: the read boundary. *)
IdleIgnoresQueue(c) == c.active = NoTicket
IdleIgnoresRun(c) == c.pending = NoScope
Idle(c) == c.active = NoTicket /\ c.pending = NoScope
Eligible(c) == c.safe = c.observed
Token(c) == [observed |-> c.observed, publication |-> c.publication]
ValidatesPublication(c, token) == c.publication = token.publication
Validates(c, token) == c.observed = token.observed /\ c.publication = token.publication
=============================================================================
