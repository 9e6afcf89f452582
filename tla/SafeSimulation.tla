---------------------------- MODULE SafeSimulation ----------------------------
(***************************************************************************)
(* mfer_simulateSafeExec: the pool's transactions as one transaction of a  *)
(* Safe, simulated on a clone of the fork.  SimulateSafeExec and           *)
(* getSafeOwnersAndThreshold of mferbackend/mferactionapi.go over          *)
(* multisend/multisend.go and multisend/safe.go.                           *)
(*                                                                         *)
(* The request reads the Safe's nonce and the owners' nonces from          *)
(* upstream's latest block, the owners from the node itself (with the      *)
(* pool's changes), and runs on the forked height (without them).  It      *)
(* reads the impersonated account again for each of these.  Between its    *)
(* calls the chain, the fork, the pool and the impersonation may change.   *)
(*                                                                         *)
(* Addresses are numbers.  The contracts are external: Safe's checks of    *)
(* approved hashes and MultiSendCallOnly's reading of its packed argument; *)
(* whether a call of the pool reverts on the fork is a choice.             *)
(***************************************************************************)
EXTENDS Naturals, Sequences, Functions

CONSTANTS
    Safe,        \* the address of the Safe
    EOA,         \* another address that may be impersonated
    Calls,       \* transactions sent: [to, value, data]
    Enlarge,     \* the one of them that turns Base into Enlarged
    Base,        \* [owners, threshold] of the Safe upstream
    Enlarged,
    OwnerLists,  \* what callers pass as safeOwners; <<>>: nothing
    MaxTxs,      \* bound on the pool
    MaxNonce,    \* bound on nonces upstream
    Nil

Owners == Range(Base.owners) \cup Range(Enlarged.owners)

ASSUME SafeAssumption ==
    /\ Safe # EOA /\ Enlarge \in Calls
    /\ Calls \subseteq [to : Nat \cup {Nil}, value : Nat, data : Seq(Nat)]
    /\ \A conf \in {Base, Enlarged} : conf.owners \in Seq(Nat) /\ conf.threshold \in 1 .. Len(conf.owners)
    /\ OwnerLists \subseteq Seq(Owners)
    /\ MaxTxs \in Nat /\ MaxNonce \in Nat

VARIABLES
    up,            \* nonces at upstream's latest block: [safe, owner]
    root,          \* nonces at the forked height
    setup,         \* the Safe's owners and threshold in the node's state
    pool,          \* the transactions of the pool
    impersonated,  \* ImpersonatedAccount
    req,           \* the request's locals, or Nil
    result         \* what it returned last, or Nil

vars == <<up, root, setup, pool, impersonated, req, result>>
nodeVars == <<root, setup, pool, impersonated>>

-----------------------------------------------------------------------------
(* Packing. *)

\* Faulty variant: the length counts the length word.
BuildTransactionLonger(tx) == <<0, tx.to, tx.value, Len(tx.data) + 1>> \o tx.data

\* Operation, address, value and length of the data, then the data.
BuildTransaction(tx) == <<0, tx.to, tx.value, Len(tx.data)>> \o tx.data

BuildTransactions(txs) ==
    LET args[n \in 0 .. Len(txs)] ==
          IF n = 0 THEN <<>> ELSE args[n - 1] \o BuildTransaction(txs[n])
    IN  args[Len(txs)]

\* MultiSendCallOnly: reads records one after the other.  calls[n] are those
\* it makes when n words are left.
MultiSend(packed) ==
    LET Word(i) == IF i \in DOMAIN packed THEN packed[i] ELSE 0
        Read(i) == [to |-> Word(i + 1), value |-> Word(i + 2),
                    data |-> [j \in 1 .. Word(i + 3) |-> Word(i + 3 + j)]]
        calls[n \in 0 .. Len(packed)] ==
          IF n = 0 THEN <<>>
          ELSE LET i    == Len(packed) - n + 1
                   size == 4 + Word(i + 3)
               IN  <<Read(i)>> \o IF size < n THEN calls[n - size] ELSE <<>>
    IN  calls[Len(packed)]

\* EncodeTransactionData for a DelegateCall to MultiSendCallOnly, hashed.
GetTxDataHash(safe, calldata, nonce) == <<safe, calldata, nonce>>

\* 65 bytes each: the owner, nothing, and v = 1 ("approved hash").
GenApproveHashSigs(list) == [i \in DOMAIN list |-> [r |-> list[i], v |-> 1]]

\* Safe.checkSignatures.
CheckSignatures(conf, approvals, hash, sigs, sender) ==
    /\ Len(sigs) >= conf.threshold
    /\ \A i \in 1 .. conf.threshold :
         /\ sigs[i].v = 1 /\ sigs[i].r \in Range(conf.owners)
         /\ i > 1 => sigs[i - 1].r < sigs[i].r
         /\ sender = sigs[i].r \/ <<sigs[i].r, hash>> \in approvals

-----------------------------------------------------------------------------
(* The chain and the other requests. *)

SafeExecutes ==
    /\ up.safe < MaxNonce
    /\ up' = [up EXCEPT !.safe = @ + 1]
    /\ result' = Nil
    /\ UNCHANGED <<nodeVars, req>>

OwnerSends(o) ==
    /\ up.owner[o] < MaxNonce
    /\ up' = [up EXCEPT !.owner[o] = @ + 1]
    /\ result' = Nil
    /\ UNCHANGED <<nodeVars, req>>

Note(field) == IF req = Nil THEN Nil ELSE [req EXCEPT ![field] = TRUE]

\* ReExecTxPool, or ResetState, which does not execute the pool again: what
\* lies below a clone moves with it.
Refork ==
    /\ root' = up
    /\ setup' \in {setup, Base}
    /\ req' = Note("reforked")
    /\ result' = Nil
    /\ UNCHANGED <<up, pool, impersonated>>

Impersonate(account) ==
    /\ account # impersonated
    /\ impersonated' = account
    /\ req' = Note("switched")
    /\ result' = Nil
    /\ UNCHANGED <<up, root, setup, pool>>

\* SendTransaction as the impersonated account.
SendTransaction(tx) ==
    /\ Len(pool) < MaxTxs
    /\ pool' = Append(pool, tx)
    /\ setup' = IF tx = Enlarge /\ impersonated = Safe THEN Enlarged ELSE setup
    /\ result' = Nil
    /\ UNCHANGED <<up, root, impersonated, req>>

ClearTxPool ==
    /\ pool # <<>>
    /\ pool' = <<>> /\ setup' = Base
    /\ result' = Nil
    /\ UNCHANGED <<up, root, impersonated, req>>

-----------------------------------------------------------------------------
(* SimulateSafeExec. *)

At(step) == req # Nil /\ req.step = step

\* The pool is read and packed.  (A creation has no To: BuildTransaction
\* panics and nothing is returned.)  History: stale, if a nonce read is not
\* the fork's; faulty, if an approval was refused its gas or the fork's
\* storage was misread; switched and reforked, if that happened meanwhile.
SimulateSafeExec(list) ==
    /\ req = Nil
    /\ \A i \in DOMAIN pool : pool[i].to # Nil
    /\ req' = [step |-> "nonce", safe |-> impersonated, calls |-> pool,
               data |-> BuildTransactions(pool), nonce |-> 0, hash |-> Nil, threshold |-> 0,
               owners |-> list, sigs |-> <<>>, todo |-> <<>>, approvals |-> {},
               stale |-> FALSE, faulty |-> FALSE, switched |-> FALSE, reforked |-> FALSE]
    /\ result' = Nil
    /\ UNCHANGED <<up, nodeVars>>

\* Faulty variant: the signatures keep the caller's order.
GenSafeCalldataUnsorted(r, list) ==
    [r EXCEPT !.step = "approve", !.owners = list, !.todo = list,
              !.sigs = GenApproveHashSigs(list)]

\* sort.Slice: the same addresses in ascending order.
Sorted(list) ==
    CHOOSE s \in {[i \in DOMAIN list |-> list[p[i]]] : p \in Bijection(DOMAIN list, DOMAIN list)} :
        \A i, j \in DOMAIN list : i < j => s[i] <= s[j]

\* GenSafeCalldataWithApproveHash sorts the caller's slice in place; then
\* CloneFromRoot.
GenSafeCalldata(r, list) ==
    LET sorted == Sorted(list)
    IN  [r EXCEPT !.step = "approve", !.owners = sorted, !.todo = sorted,
                  !.sigs = GenApproveHashSigs(sorted)]

\* The Safe's nonce at upstream's latest block, and the hash.
GetNonce ==
    /\ At("nonce") /\ req.safe = Safe
    /\ LET r == [req EXCEPT !.nonce = up.safe, !.stale = up.safe # root.safe,
                            !.hash = GetTxDataHash(req.safe, req.data, up.safe)]
       IN  req' = IF req.owners # <<>> THEN GenSafeCalldata(r, req.owners)
                  ELSE [r EXCEPT !.step = "threshold"]
    /\ result' = Nil
    /\ UNCHANGED <<up, nodeVars>>

\* getSafeOwnersAndThreshold: two calls to the node itself.
GetThreshold ==
    /\ At("threshold") /\ impersonated = Safe
    /\ req' = [req EXCEPT !.step = "owners", !.threshold = setup.threshold]
    /\ result' = Nil
    /\ UNCHANGED <<up, nodeVars>>

\* Faulty variant: the slice is filled up with zero addresses.
FirstOwnersPadded(n) ==
    GenSafeCalldata(req, [i \in 1 .. n |-> IF i > Len(setup.owners) THEN 0 ELSE setup.owners[i]])

\* owners[:threshold]; a threshold from before the pool was cleared may be
\* too large, and the request panics.
FirstOwners(n) ==
    IF n > Len(setup.owners) THEN Nil ELSE GenSafeCalldata(req, SubSeq(setup.owners, 1, n))

GetOwners ==
    /\ At("owners")
    /\ req' = FirstOwners(req.threshold)
    /\ result' = Nil
    /\ UNCHANGED <<up, nodeVars>>

\* A call to upstream or to the node fails, or there is no Safe; or DoCall
\* rejects the execution, for calldata that alone costs the 5e6 gas, and its
\* nil result is dereferenced.
Fails ==
    /\ req # Nil
    /\ req' = Nil
    /\ result' = Nil
    /\ UNCHANGED <<up, nodeVars>>

\* Faulty variant: the owner approves the calldata's hash, not the Safe's.
ApprovalOfData(o) == {<<o, req.data>>}

\* approveHash(hash), sent to the impersonated account with the owner's
\* nonce upstream and executed on the clone; Safe takes it from owners.
Approval(o) ==
    IF up.owner[o] = root.owner[o] /\ impersonated = Safe /\ o \in Range(Base.owners)
    THEN {<<o, req.hash>>} ELSE {}

\* ExecuteTxs on the clone takes the gas from the node's pool, which may not
\* have it, and reads the fork's storage, which may be answered with zeros.
Approve ==
    /\ At("approve") /\ req.todo # <<>>
    /\ \E executes \in BOOLEAN :
         LET o == Head(req.todo)
         IN  req' = [req EXCEPT !.todo = Tail(@), !.faulty = @ \/ ~executes,
                                !.approvals = @ \cup IF executes THEN Approval(o) ELSE {},
                                !.stale = @ \/ up.owner[o] # root.owner[o]]
    /\ result' = Nil
    /\ UNCHANGED <<up, nodeVars>>

Ends == {"ran", "nothing", "refused", "reverted", "gas"}

\* How execTransaction may end: an account without code accepts everything
\* and does nothing; Safe refuses the signatures, or makes the calls, and if
\* one of them reverts MultiSendCallOnly and Safe revert with it (GS013,
\* safeTxGas and gasPrice being zero); or the 5e6 gas runs out.
MayEnd(end, passes) ==
    /\ end = "nothing" => impersonated # Safe
    /\ end = "refused" => impersonated = Safe /\ ~passes
    /\ end \in {"ran", "reverted"} => impersonated = Safe /\ passes
    /\ end = "reverted" => req.data # <<>>

\* execTransaction on the clone by the first owner, sent to the impersonated
\* account.
Exec ==
    /\ At("approve") /\ req.todo = <<>>
    /\ \E end \in Ends, misread \in BOOLEAN :
         LET hash   == GetTxDataHash(Safe, req.data, root.safe)
             passes == CheckSignatures(Base, req.approvals, hash, req.sigs, req.owners[1])
         IN  /\ MayEnd(end, passes /\ ~misread)
             /\ result' = [req |-> req, end |-> end, faulty |-> req.faulty \/ misread,
                           done |-> IF end = "ran" THEN MultiSend(req.data) ELSE <<>>]
    /\ req' = Nil
    /\ UNCHANGED <<up, nodeVars>>

-----------------------------------------------------------------------------

Nonces == [safe : 0 .. MaxNonce, owner : [Owners -> 0 .. MaxNonce]]

Init ==
    /\ up = [safe |-> 0, owner |-> [o \in Owners |-> 0]]
    /\ root = up
    /\ setup = Base
    /\ pool = <<>>
    /\ impersonated \in {Safe, EOA}
    /\ req = Nil /\ result = Nil

Environment ==
    \/ SafeExecutes
    \/ \E o \in Range(Base.owners) : OwnerSends(o)
    \/ Refork
    \/ \E account \in {Safe, EOA} : Impersonate(account)
    \/ \E tx \in Calls : SendTransaction(tx)
    \/ ClearTxPool

Request ==
    \/ \E list \in OwnerLists : SimulateSafeExec(list)
    \/ GetNonce
    \/ GetThreshold
    \/ GetOwners
    \/ Fails
    \/ Approve
    \/ Exec

Next == Environment \/ Request

Spec == Init /\ [][Next]_vars

-----------------------------------------------------------------------------
(* Properties. *)

\* Every variable keeps its type; the owners in use are addresses that some
\* state of the Safe had, whatever changed between the calls that read them.
TypeOK ==
    /\ up \in Nonces /\ root \in Nonces
    /\ setup \in {Base, Enlarged}
    /\ pool \in Seq(Calls)
    /\ impersonated \in {Safe, EOA}
    /\ req # Nil =>
         /\ req.step \in {"nonce", "threshold", "owners", "approve"}
         /\ req.owners \in Seq(Owners) /\ req.todo \in Seq(Owners)

\* A list of owners that suffices upstream.
Fit(list) ==
    /\ Range(list) \subseteq Range(Base.owners)
    /\ IsInjective(list) /\ Len(list) >= Base.threshold

\* What a successful simulation ran is the pool, call for call, although it
\* went through a packed argument: if the same Safe was meant throughout.
SuccessRanThePool ==
    result # Nil /\ result.end \in {"ran", "nothing"} /\ ~result.req.switched =>
        result.done = result.req.calls

\* The calldata and the hash that are returned are good: as long as the
\* Safe's nonce upstream is the one returned, the Safe accepts the calldata
\* from anyone once those owners have approved the hash, in whatever order
\* the caller or the Safe listed them.
ReturnedIsExecutable ==
    result # Nil /\ Fit(result.req.owners) /\ up.safe = result.req.nonce =>
        CheckSignatures(Base, {<<o, result.req.hash>> : o \in Range(result.req.owners)},
                        GetTxDataHash(Safe, result.req.data, up.safe), result.req.sigs, Nil)

\* The Safe refuses the approvals and signatures that the node made only for
\* a reason: owners that do not suffice, a nonce read upstream that is not
\* the fork's, no gas left for an approval, a storage slot misread, a re-fork
\* or another account impersonated meanwhile.  (What else may fail is a call
\* of the pool, or the 5e6 gas: for those the answer is right.)
RefusedForAReason ==
    /\ result # Nil /\ Fit(result.req.owners)
    /\ ~result.req.stale /\ ~result.faulty /\ ~result.req.switched /\ ~result.req.reforked
    => result.end # "refused"
=============================================================================
