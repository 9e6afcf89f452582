------------------------------ MODULE RootCache ------------------------------
(***************************************************************************)
(* The concurrency inside the root layer: get, loadState, loadAccount and  *)
(* timeSlot of mferstate/overlaystate.go against resetScratchPad of        *)
(* mferstate/overlaystatedb.go.                                            *)
(*                                                                         *)
(* Requests read through clones that share the root.  A read that misses   *)
(* the root's pad lets go of scratchPadMutex, queues a request, waits for  *)
(* the one goroutine (timeSlot) that batches requests to the upstream      *)
(* node, and takes the mutex again to store the answer.  Meanwhile others  *)
(* move *bn and refill the pad under the mutex.                            *)
(*                                                                         *)
(* A cached value is modelled by what it answers: <<key, height>>.  Zero   *)
(* is what a batch element keeps when upstream answers it with an error.   *)
(* The four account fields are always stored together, so an account is    *)
(* one key.  A local variable that is out of scope has the value None.     *)
(***************************************************************************)
EXTENDS Naturals, Sequences, FiniteSets

CONSTANTS
    Readers,       \* goroutines inside OverlayState.get
    Resetters,     \* requests that re-fork or clear the cache
    ResetKinds,    \* what they do: "refork", "clear"
    Slots,         \* storage keys
    Accounts,      \* account keys
    OwnerOf,       \* slot -> its account
    Heights,       \* block heights
    KeyFile,       \* the slots an earlier run left in the key cache file
    SlotCap,       \* capacity of storageReqChan
    AccountCap,    \* capacity of accReqChan
    BatchSize,     \* elements per upstream call
    MaxTries,      \* failed calls before loadAccountBatchRPC gives up
    Absent, Zero, Blank, None

Keys == Slots \cup Accounts

Kinds == {"slot", "account"}

ASSUME KeysAssumption ==
    /\ Slots \cap Accounts = {}
    /\ OwnerOf \in [Slots -> Accounts]
    /\ KeyFile \subseteq Slots
ASSUME ResetKindsAssumption == ResetKinds \subseteq {"refork", "clear"}
ASSUME SizesAssumption ==
    /\ SlotCap \in Nat \ {0} /\ AccountCap \in Nat \ {0}
    /\ BatchSize \in Nat \ {0} /\ MaxTries \in Nat
ASSUME NamesAssumption ==
    /\ None \notin Resetters \cup Keys \cup Heights \cup {Absent, Zero, Blank}
    /\ Absent # Zero /\ Absent # Blank /\ Zero # Blank
    /\ \A k \in Keys, n \in Heights : <<k, n>> \notin {Absent, Zero, Blank, None}

VARIABLES
    bn,        \* *s.bn
    gone,      \* heights whose state upstream no longer has
    cache,     \* the root's scratchPad
    accessed,  \* accessedAccounts
    keyFile,   \* the slots listed in the key cache file
    mutex,     \* holder of scratchPadMutex over several steps, or None
    rpc,       \* reader -> where it is in get
    want,      \* reader -> the key it asked for
    got,       \* reader -> the answer timeSlot sent it
    queue,     \* storageReqChan and accReqChan
    tpc,       \* where timeSlot is
    lens,      \* the queue lengths timeSlot measured before its select
    job,       \* the kind of requests it is serving
    todo,      \* how many requests it still takes from the queue
    batch,     \* the readers it took from the queue
    height,    \* the height of its current attempt
    values,    \* the results of the batch so far
    sent,      \* how many elements of the batch were asked for
    tries,     \* rpcTries
    xpc,       \* resetter -> where it is in InitState
    xheight,   \* the height of its current fetch
    xaccounts, \* the accounts it fetches
    crossed,   \* history: readers in flight at a SetBN or a Clear
    late,      \* history: keys such readers stored, not fetched again since
    lastReset  \* history: how the last resetScratchPad ended

rootVars == <<bn, gone, cache, accessed, keyFile, mutex>>
readVars == <<rpc, want, got>>
slotVars == <<tpc, lens, job, todo, batch, height, values, sent, tries>>
resetVars == <<xpc, xheight, xaccounts, lastReset>>
vars == <<rootVars, readVars, queue, slotVars, resetVars, crossed, late>>

KindOf(k) == IF k \in Slots THEN "slot" ELSE "account"

ChanCap(kind) == IF kind = "slot" THEN SlotCap ELSE AccountCap

\* What a batch element for k ends with when asked at height n: the error
\* of a single element is not looked at, so it keeps its zero value.
Answer(k, n) == IF n \in gone THEN Zero ELSE <<k, n>>

Entries == (Keys \X Heights) \cup {Zero, Blank}

-----------------------------------------------------------------------------
(* A reader: get on the root layer. *)

\* The lookup under the mutex misses; a hit returns at once.
Miss(r, k) ==
    /\ rpc[r] = "idle"
    /\ mutex = None
    /\ cache[k] = Absent
    /\ rpc' = [rpc EXCEPT ![r] = "push"]
    /\ want' = [want EXCEPT ![r] = k]
    /\ UNCHANGED <<rootVars, got, queue, slotVars, resetVars, crossed, late>>

\* loadState and loadAccount send their channel into the bounded queue.
Push(r) ==
    LET kind == KindOf(want[r]) IN
    /\ rpc[r] = "push"
    /\ Len(queue[kind]) < ChanCap(kind)
    /\ queue' = [queue EXCEPT ![kind] = Append(@, r)]
    /\ rpc' = [rpc EXCEPT ![r] = "offer"]
    /\ UNCHANGED <<rootVars, want, got, slotVars, resetVars, crossed, late>>

\* A slot is stored as it came, an account only where there is none.
Stored(k, v) == IF k \in Accounts /\ cache[k] # Absent THEN cache[k] ELSE v

Store(r) ==
    LET k == want[r] IN
    /\ rpc[r] = "store"
    /\ mutex = None
    /\ cache' = [cache EXCEPT ![k] = Stored(k, got[r])]
    /\ late' = IF r \in crossed /\ (k \in Slots \/ cache[k] = Absent)
               THEN late \cup {k} ELSE late
    /\ rpc' = [rpc EXCEPT ![r] = "idle"]
    /\ want' = [want EXCEPT ![r] = None]
    /\ got' = [got EXCEPT ![r] = None]
    /\ crossed' = crossed \ {r}
    /\ UNCHANGED <<bn, gone, accessed, keyFile, mutex, queue, slotVars, resetVars>>

-----------------------------------------------------------------------------
(* timeSlot: the goroutine that turns requests into batches. *)

Measure ==
    /\ tpc = "measure"
    /\ lens' = [kind \in Kinds |-> Len(queue[kind])]
    /\ tpc' = "select"
    /\ UNCHANGED <<rootVars, readVars, queue, job, todo, batch, height, values,
                   sent, tries, resetVars, crossed, late>>

\* One of the two tickers fires; with nothing measured the loop goes round.
Tick(kind) ==
    /\ tpc = "select"
    /\ IF lens[kind] = 0
       THEN tpc' = "measure" /\ UNCHANGED <<job, todo>>
       ELSE tpc' = "drain" /\ job' = kind /\ todo' = lens[kind]
    /\ lens' = [q \in Kinds |-> 0]
    /\ UNCHANGED <<rootVars, readVars, queue, batch, height, values, sent,
                   tries, resetVars, crossed, late>>

\* Take the next channel from the queue and the request from the channel.
Drain ==
    /\ tpc = "drain"
    /\ queue[job] # <<>>
    /\ LET r == Head(queue[job]) IN
        /\ rpc[r] = "offer"
        /\ rpc' = [rpc EXCEPT ![r] = "wait"]
        /\ batch' = Append(batch, r)
    /\ queue' = [queue EXCEPT ![job] = Tail(@)]
    /\ todo' = todo - 1
    /\ tpc' = IF todo = 1 THEN "load" ELSE "drain"
    /\ UNCHANGED <<rootVars, want, got, lens, job, height, values, sent, tries,
                   resetVars, crossed, late>>

\* loadStateBatchRPC and loadAccountBatchRPC read *s.bn once per attempt.
Load ==
    /\ tpc = "load"
    /\ height' = bn
    /\ values' = [i \in DOMAIN batch |-> Zero]
    /\ sent' = 0
    /\ tries' = 0
    /\ tpc' = IF job = "account" THEN "mark" ELSE "call"
    /\ UNCHANGED <<rootVars, readVars, queue, lens, job, todo, batch, resetVars,
                   crossed, late>>

\* Faulty variant: the accounts of a batch are not recorded.
MarkNothing ==
    /\ tpc = "mark"
    /\ tpc' = "call"
    /\ UNCHANGED <<rootVars, readVars, queue, lens, job, todo, batch, height,
                   values, sent, tries, resetVars, crossed, late>>

\* loadAccountBatchRPC records its accounts for the next prefetch.
Mark ==
    /\ tpc = "mark"
    /\ accessed' = accessed \cup {want[batch[i]] : i \in DOMAIN batch}
    /\ tpc' = "call"
    /\ UNCHANGED <<bn, gone, cache, keyFile, mutex, readVars, queue, lens, job, todo,
                   batch, height, values, sent, tries, resetVars, crossed, late>>

ChunkEnd == IF sent + BatchSize > Len(batch) THEN Len(batch) ELSE sent + BatchSize

\* Faulty variant: the chunk stops one element early.
ChunkShort == sent + 1 .. ChunkEnd - 1

Chunk == sent + 1 .. ChunkEnd

\* One BatchCallContext that comes back, with every element answered.
CallReturns ==
    /\ tpc = "call"
    /\ values' = [i \in DOMAIN values |->
                    IF i \in Chunk THEN Answer(want[batch[i]], height) ELSE values[i]]
    /\ sent' = ChunkEnd
    /\ tpc' = IF ChunkEnd = Len(batch) THEN "reply" ELSE "call"
    /\ UNCHANGED <<rootVars, readVars, queue, lens, job, todo, batch, height, tries,
                   resetVars, crossed, late>>

\* Faulty variant: one try too many.
CallFailsMore ==
    /\ tpc = "call"
    /\ IF job = "account" /\ tries <= MaxTries
       THEN tries' = tries + 1 /\ UNCHANGED tpc
       ELSE tpc' = "load" /\ tries' = 0
    /\ UNCHANGED <<rootVars, readVars, queue, lens, job, todo, batch, height,
                   values, sent, resetVars, crossed, late>>

\* One that fails: a storage batch starts over after a second; an account
\* batch repeats the call and starts over after MaxTries failures.
CallFails ==
    /\ tpc = "call"
    /\ IF job = "account" /\ tries < MaxTries
       THEN tries' = tries + 1 /\ UNCHANGED tpc
       ELSE tpc' = "load" /\ tries' = 0
    /\ UNCHANGED <<rootVars, readVars, queue, lens, job, todo, batch, height,
                   values, sent, resetVars, crossed, late>>

\* The round is over.
GoRound ==
    /\ tpc' = "measure"
    /\ job' = None
    /\ height' = None
    /\ sent' = 0
    /\ tries' = 0

\* Faulty variant: the loop ends before the last reader.
ReplyFewer ==
    /\ tpc = "reply"
    /\ LET r == Head(batch) IN
        /\ rpc' = [rpc EXCEPT ![r] = IF Len(batch) = 1 THEN "wait" ELSE "store"]
        /\ got' = [got EXCEPT ![r] = Head(values)]
    /\ batch' = Tail(batch)
    /\ values' = Tail(values)
    /\ IF Len(batch) = 1 THEN GoRound ELSE UNCHANGED <<tpc, job, height, sent, tries>>
    /\ UNCHANGED <<rootVars, want, queue, lens, todo, resetVars, crossed, late>>

\* Answer the readers in the order their requests were taken.
Reply ==
    /\ tpc = "reply"
    /\ LET r == Head(batch) IN
        /\ rpc[r] = "wait"
        /\ rpc' = [rpc EXCEPT ![r] = "store"]
        /\ got' = [got EXCEPT ![r] = Head(values)]
    /\ batch' = Tail(batch)
    /\ values' = Tail(values)
    /\ IF Len(batch) = 1 THEN GoRound ELSE UNCHANGED <<tpc, job, height, sent, tries>>
    /\ UNCHANGED <<rootVars, want, queue, lens, todo, resetVars, crossed, late>>

-----------------------------------------------------------------------------
(* Resets: SetBlockNumber, then InitState(true, false). *)

InFlight == {r \in Readers : rpc[r] # "idle"}

SetBN(x, n) ==
    /\ "refork" \in ResetKinds
    /\ xpc[x] = "idle"
    /\ n \notin gone
    /\ bn' = n
    /\ xpc' = [xpc EXCEPT ![x] = "lock"]
    /\ crossed' = InFlight
    /\ UNCHANGED <<gone, cache, accessed, keyFile, mutex, readVars, queue, slotVars,
                   xheight, xaccounts, lastReset, late>>

SlotsIn(c) == {k \in Slots : c[k] # Absent}

\* Take the mutex, give every line of the key file an empty entry, record
\* the owners of all slots and ask for these slots at the current height.
LockPad(x) ==
    /\ xpc[x] = "lock"
    /\ mutex = None
    /\ mutex' = x
    /\ cache' = [k \in Keys |-> IF k \in keyFile THEN Blank ELSE cache[k]]
    /\ accessed' = accessed \cup {OwnerOf[k] : k \in SlotsIn(cache')}
    /\ xheight' = [xheight EXCEPT ![x] = bn]
    /\ xpc' = [xpc EXCEPT ![x] = "slots"]
    /\ UNCHANGED <<bn, gone, keyFile, readVars, queue, slotVars, xaccounts, lastReset,
                   crossed, late>>

\* Faulty variant: only the slots without a value are asked for.
RefreshedBlank(x, k) == k \in SlotsIn(cache) /\ cache[k] = Blank

\* The slots the prefetch asks for.
Refreshed(x, k) == k \in SlotsIn(cache)

\* The key file is written anew and the slots are stored; the accounts are
\* asked for, at the height *s.bn has by now.
SlotsFetched(x) ==
    /\ xpc[x] = "slots"
    /\ cache' = [k \in Keys |->
                    IF Refreshed(x, k) THEN Answer(k, xheight[x]) ELSE cache[k]]
    /\ keyFile' = SlotsIn(cache)
    /\ xaccounts' = [xaccounts EXCEPT ![x] = accessed]
    /\ xheight' = [xheight EXCEPT ![x] = bn]
    /\ xpc' = [xpc EXCEPT ![x] = "accounts"]
    /\ UNCHANGED <<bn, gone, accessed, mutex, readVars, queue, slotVars,
                   lastReset, crossed, late>>

\* Faulty variant: the mutex stays locked.
UnlockNothing(x) ==
    /\ xpc' = [xpc EXCEPT ![x] = "idle"]
    /\ xheight' = [xheight EXCEPT ![x] = None]
    /\ xaccounts' = [xaccounts EXCEPT ![x] = {}]
    /\ UNCHANGED mutex

\* The deferred scratchPadMutex.Unlock, on every way out.
Unlock(x) ==
    /\ mutex' = None
    /\ xpc' = [xpc EXCEPT ![x] = "idle"]
    /\ xheight' = [xheight EXCEPT ![x] = None]
    /\ xaccounts' = [xaccounts EXCEPT ![x] = {}]

\* log.Panic: the deferred unlock runs, the request is over.
SlotsFail(x) ==
    /\ xpc[x] = "slots"
    /\ SlotsIn(cache) # {}
    /\ Unlock(x)
    /\ lastReset' = "slotsFail"
    /\ UNCHANGED <<bn, gone, cache, accessed, keyFile, readVars, queue, slotVars,
                   crossed, late>>

AccountsFetched(x) ==
    /\ xpc[x] = "accounts"
    /\ cache' = [k \in Keys |->
                    IF k \in xaccounts[x] THEN Answer(k, xheight[x]) ELSE cache[k]]
    /\ accessed' = accessed \cup xaccounts[x]
    /\ Unlock(x)
    /\ lastReset' = "ok"
    /\ late' = late \ (Slots \cup xaccounts[x])
    /\ UNCHANGED <<bn, gone, keyFile, readVars, queue, slotVars, crossed>>

\* The failure is logged and the rest of the prefetch skipped.
AccountsFail(x) ==
    /\ xpc[x] = "accounts"
    /\ xaccounts[x] # {}
    /\ accessed' = accessed \cup xaccounts[x]
    /\ Unlock(x)
    /\ lastReset' = "accountsFail"
    /\ UNCHANGED <<bn, gone, cache, keyFile, readVars, queue, slotVars, crossed, late>>

\* ClearKeyCache: InitState(true, true).
Clear(x) ==
    /\ "clear" \in ResetKinds
    /\ xpc[x] = "idle"
    /\ mutex = None
    /\ cache' = [k \in Keys |-> Absent]
    /\ accessed' = {}
    /\ keyFile' = {}
    /\ late' = {}
    /\ lastReset' = "ok"
    /\ crossed' = InFlight
    /\ UNCHANGED <<bn, gone, mutex, readVars, queue, slotVars, xpc, xheight, xaccounts>>

\* Upstream prunes a height.
Prune(n) ==
    /\ n \notin gone
    /\ Cardinality(gone) + 1 < Cardinality(Heights)
    /\ gone' = gone \cup {n}
    /\ UNCHANGED <<bn, cache, accessed, keyFile, mutex, readVars, queue, slotVars,
                   resetVars, crossed, late>>

-----------------------------------------------------------------------------

\* NewOverlayState: an empty root and timeSlot started.
Init ==
    /\ bn \in Heights
    /\ gone = {}
    /\ cache = [k \in Keys |-> Absent]
    /\ accessed = {}
    /\ keyFile = KeyFile
    /\ mutex = None
    /\ rpc = [r \in Readers |-> "idle"]
    /\ want = [r \in Readers |-> None]
    /\ got = [r \in Readers |-> None]
    /\ queue = [kind \in Kinds |-> <<>>]
    /\ tpc = "measure"
    /\ lens = [kind \in Kinds |-> 0]
    /\ job = None
    /\ todo = 0
    /\ batch = <<>>
    /\ height = None
    /\ values = <<>>
    /\ sent = 0
    /\ tries = 0
    /\ xpc = [x \in Resetters |-> "idle"]
    /\ xheight = [x \in Resetters |-> None]
    /\ xaccounts = [x \in Resetters |-> {}]
    /\ crossed = {}
    /\ late = {}
    /\ lastReset = "ok"

Read(r) == (\E k \in Keys : Miss(r, k)) \/ Push(r) \/ Store(r)

TimeSlot ==
    \/ Measure
    \/ \E kind \in Kinds : Tick(kind)
    \/ Drain
    \/ Load
    \/ Mark
    \/ CallReturns
    \/ CallFails
    \/ Reply

Reset(x) ==
    \/ \E n \in Heights : SetBN(x, n)
    \/ LockPad(x)
    \/ SlotsFetched(x)
    \/ SlotsFail(x)
    \/ AccountsFetched(x)
    \/ AccountsFail(x)
    \/ Clear(x)

Next ==
    \/ \E r \in Readers : Read(r)
    \/ TimeSlot
    \/ \E x \in Resetters : Reset(x)
    \/ \E n \in Heights : Prune(n)

Spec == Init /\ [][Next]_vars

\* Every goroutine that can go on does; a blocked channel send or mutex is
\* served in turn by the Go runtime; select picks among ready tickers at
\* random; an upstream asked again and again answers at last.
Fairness ==
    /\ \A r \in Readers : SF_vars(Push(r) \/ Store(r))
    /\ WF_vars(Measure \/ Drain \/ Load \/ Mark \/ Reply)
    /\ \A kind \in Kinds : SF_vars(Tick(kind))
    /\ SF_vars(CallReturns)
    /\ \A x \in Resetters :
        SF_vars(LockPad(x) \/ SlotsFetched(x) \/ SlotsFail(x)
                \/ AccountsFetched(x) \/ AccountsFail(x))

FairSpec == Spec /\ Fairness

-----------------------------------------------------------------------------
(* Properties. *)

\* Every variable keeps its type.
TypeOK ==
    /\ bn \in Heights /\ height \in Heights \cup {None}
    /\ gone \subseteq Heights
    /\ cache \in [Keys -> Entries \cup {Absent}]
    /\ accessed \subseteq Accounts
    /\ keyFile \subseteq Slots
    /\ mutex \in Resetters \cup {None}
    /\ rpc \in [Readers -> {"idle", "push", "offer", "wait", "store"}]
    /\ want \in [Readers -> Keys \cup {None}]
    /\ got \in [Readers -> Entries \cup {None}]
    /\ queue \in [Kinds -> Seq(Readers)]
    /\ tpc \in {"measure", "select", "drain", "load", "mark", "call", "reply"}
    /\ lens \in [Kinds -> Nat]
    /\ job \in Kinds \cup {None}
    /\ todo \in Nat
    /\ batch \in Seq(Readers)
    /\ values \in Seq(Entries)
    /\ sent \in Nat
    /\ tries \in 0 .. MaxTries
    /\ xpc \in [Resetters -> {"idle", "lock", "slots", "accounts"}]
    /\ xheight \in [Resetters -> Heights \cup {None}]
    /\ xaccounts \in [Resetters -> SUBSET Accounts]
    /\ crossed \subseteq Readers
    /\ late \subseteq Keys
    /\ lastReset \in {"ok", "slotsFail", "accountsFail"}

IsAnswer(v, k) == \/ v \in {<<k, n>> : n \in Heights}
                  \/ v = Zero /\ gone # {}

\* Whatever batch a request travels in, over however many chunks and
\* retries, its reader gets the answer to its own key, and the pad never
\* holds one key's value under another.
AnswersMatch ==
    /\ \A r \in Readers : rpc[r] = "store" => IsAnswer(got[r], want[r])
    /\ \A k \in Keys : cache[k] \in {Absent, Blank} \/ IsAnswer(cache[k], k)

\* Nobody is inside a re-fork.
Resting == \A x \in Resetters : xpc[x] = "idle"

\* Between re-forks, after one that succeeded at a height upstream still
\* has, every entry was fetched at the forked height, except the keys
\* stored by a reader whose miss is older than the re-fork or the clearing:
\* a fetch retried over a re-fork, two re-forks at once, zeros from a
\* pruned height leave nothing else behind.
OnlyLateIsStale ==
    Resting /\ lastReset = "ok" /\ bn \notin gone =>
        \A k \in Keys : cache[k] \in {Absent, <<k, bn>>} \/ k \in late

\* A re-fork is a fork: when one has fetched everything it asked for and no
\* other is under way, no value of an older height is left, not even one a
\* late reader stored.  This is so on a node on which ClearKeyCache is not
\* used (its run has no clearings): one between marking an account and
\* storing it takes the account off the list that re-forks refresh.
ReforkRefreshesAll ==
    [][\A x \in Resetters :
        /\ AccountsFetched(x)
        /\ \A y \in Resetters \ {x} : xpc[y] = "idle"
        /\ bn \notin gone
        => \A k \in Keys : cache'[k] \in {Absent, <<k, bn>>}]_vars

\* A read that missed comes back, through full queues, failing calls and
\* resets that hold the mutex.
EveryReadReturns == \A r \in Readers : rpc[r] # "idle" ~> rpc[r] = "idle"

\* A re-fork comes to an end: it waits neither for timeSlot nor for the
\* readers it locks out.
EveryResetReturns == \A x \in Resetters : xpc[x] # "idle" ~> xpc[x] = "idle"
=============================================================================
