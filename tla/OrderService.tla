---------------------------- MODULE OrderService ----------------------------
(***************************************************************************)
(* internal/order/service.go: the API process.  Each order id is the work  *)
(* of one POST /orders request; cancel requests run on a set of handler    *)
(* goroutines.  Between two steps of a request any other process may run.  *)
(***************************************************************************)
EXTENDS Orders

CONSTANTS Cancelers,     \* the goroutines that may serve cancel requests
          Cancelable     \* the orders whose users may ask for a cancel

ASSUME OrderServiceAssumption == Cancelable \subseteq OrderIds

VARIABLES create,        \* where each create request is
          cancel         \* each canceler: where it is and the order row it read

orderServiceVars == <<create, cancel>>

\* "rejected": the request is over and its order was not accepted, be it with an error or
\* because the process stopped.
CreatePhases == {"new", "checked", "locked", "undo", "accepted", "rejected"}

Idle == [pc |-> "idle"]

CancelState == {Idle} \cup [pc : {"release", "update"}, order : OrderIds, row : Row]

OrderServiceTypeOK ==
  /\ create \in [OrderIds -> CreatePhases]
  /\ cancel \in [Cancelers -> CancelState]

OrderServiceInit ==
  /\ create = [o \in OrderIds |-> "new"]
  /\ cancel = [c \in Cancelers |-> Idle]

CreateGoes(o, phase) == create' = [create EXCEPT ![o] = phase]
CancelGoes(c, state) == cancel' = [cancel EXCEPT ![c] = state]

-----------------------------------------------------------------------------
(* CreateOrder                                                              *)

\* The balance check reads the wallet outside any transaction.
CreateCheck(o) ==
  /\ create[o] = "new"
  /\ CreateGoes(o, IF SufficientBalance(LockAccount(o), LockAmount(o))
                   THEN "checked" ELSE "rejected")
  /\ UNCHANGED <<orders, ledgerVars, cancel>>

\* LockFunds, a transaction of its own, checks the balance again.
CreateLock(o) ==
  /\ create[o] = "checked"
  /\ \/ /\ LockFunds(LockAccount(o), LockAmount(o), o)
        /\ CreateGoes(o, "locked")
     \/ /\ ~SufficientBalance(LockAccount(o), LockAmount(o)) \/ "db" \in Faults
        /\ CreateGoes(o, "rejected")
        /\ UNCHANGED ledgerVars
  /\ UNCHANGED <<orders, cancel>>

\* Mutant: the request is answered without the insert.
CreateSkipInsert(o) ==
  /\ create[o] = "locked"
  /\ CreateGoes(o, "accepted")
  /\ UNCHANGED <<orders, ledgerVars, cancel>>

\* orderRepo.Create, after the lock has been committed.  When it returns an error the
\* code takes the order for not inserted; only the answer may have been lost.
CreateInsert(o) ==
  /\ create[o] = "locked"
  /\ \/ /\ Insert(o)
        /\ CreateGoes(o, "accepted")
     \/ /\ "db" \in Faults
        /\ CreateGoes(o, "undo")
        /\ Insert(o) \/ UNCHANGED orders
  /\ UNCHANGED <<ledgerVars, cancel>>

\* ReleaseFunds after a failed insert; its own failure is printed and forgotten.
CreateUndo(o) ==
  /\ create[o] = "undo"
  /\ \/ ReleaseFunds(LockAccount(o), LockAmount(o), o)
     \/ /\ ~Releasable(LockAccount(o), LockAmount(o)) \/ "db" \in Faults
        /\ UNCHANGED ledgerVars
  /\ CreateGoes(o, "rejected")
  /\ UNCHANGED <<orders, cancel>>

CreateCrash(o) ==
  /\ "crash" \in Faults
  /\ create[o] \in {"checked", "locked", "undo"}
  /\ CreateGoes(o, "rejected")
  /\ UNCHANGED <<orders, ledgerVars, cancel>>

-----------------------------------------------------------------------------
(* CancelOrder                                                              *)

\* GetByID, the ownership check and the status check.
CancelRead(c, user, o) ==
  /\ cancel[c].pc = "idle"
  /\ o \in Cancelable
  /\ Req[o].user = user
  /\ orders[o].status \in {"open", "triggered"}
  /\ CancelGoes(c, [pc |-> "release", order |-> o, row |-> orders[o]])
  /\ UNCHANGED <<orders, ledgerVars, create>>

\* Mutant: the error of the release is ignored.
CancelReleaseIgnored(c) ==
  LET o == cancel[c].order IN
  /\ cancel[c].pc = "release"
  /\ \/ ReleaseFunds(LockAccount(o), LockAmount(o), o)
     \/ /\ ~Releasable(LockAccount(o), LockAmount(o)) \/ "db" \in Faults
        /\ UNCHANGED ledgerVars
  /\ CancelGoes(c, [cancel[c] EXCEPT !.pc = "update"])
  /\ UNCHANGED <<orders, create>>

\* The funds are released first, in a transaction of their own.
CancelRelease(c) ==
  LET o == cancel[c].order IN
  /\ cancel[c].pc = "release"
  /\ \/ /\ ReleaseFunds(LockAccount(o), LockAmount(o), o)
        /\ CancelGoes(c, [cancel[c] EXCEPT !.pc = "update"])
     \/ /\ ~Releasable(LockAccount(o), LockAmount(o)) \/ "db" \in Faults
        /\ CancelGoes(c, Idle)
        /\ UNCHANGED ledgerVars
  /\ UNCHANGED <<orders, create>>

\* Only then is the status contended for; a lost race undoes nothing.
CancelUpdate(c) ==
  LET o == cancel[c].order IN
  /\ cancel[c].pc = "update"
  /\ \/ UpdateStatus(o, "canceled", cancel[c].row.version)
     \/ UpdateFails(o, cancel[c].row.version) /\ UNCHANGED orders
  /\ CancelGoes(c, Idle)
  /\ UNCHANGED <<ledgerVars, create>>

CancelCrash(c) ==
  /\ "crash" \in Faults
  /\ cancel[c].pc # "idle"
  /\ CancelGoes(c, Idle)
  /\ UNCHANGED <<orders, ledgerVars, create>>

-----------------------------------------------------------------------------

CreateStep(o) == CreateCheck(o) \/ CreateLock(o) \/ CreateInsert(o) \/ CreateUndo(o)

CancelStep(c) == CancelRelease(c) \/ CancelUpdate(c)

OrderServiceNext ==
  \/ \E o \in OrderIds : CreateStep(o) \/ CreateCrash(o)
  \/ \E c \in Cancelers :
       \/ \E u \in Users, o \in OrderIds : CancelRead(c, u, o)
       \/ CancelStep(c)
       \/ CancelCrash(c)
=============================================================================
