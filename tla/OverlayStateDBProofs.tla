------------------------ MODULE OverlayStateDBProofs ------------------------
(***************************************************************************)
(* Theorems about OverlayStateDB, for every set of layers, handles, keys   *)
(* and values.                                                             *)
(*                                                                         *)
(* The argument goes in layers.  HandlesInv speaks of the paths and the    *)
(* revision ids alone, and no other variable has a say in it.  On top of   *)
(* it come the contents of the layers, who sees which of them, and then    *)
(* the refinement: what every path shows before and after each operation,  *)
(* operation by operation, is a step of StateDBSpec.                       *)
(***************************************************************************)
EXTENDS OverlayStateDBContract, InductionLemmas, SequenceTheorems

-----------------------------------------------------------------------------
(* Paths and revision ids. *)

\* What holds of one handle with path c, revision ids h and floor f: the
\* path starts at the root and never comes back to it, it is longer than
\* the floor, and the ids increase from above the floor to below its length.
HandleOK(c, h, f) ==
    /\ c # <<>> => /\ c[1] = Root
                   /\ f < Len(c)
                   /\ \A i \in 2 .. Len(c) : c[i] # Root
    /\ \A i \in 1 .. Len(h) :
        /\ f < h[i] /\ h[i] < Len(c)
        /\ \A j \in 1 .. i - 1 : h[j] < h[i]

HandlesInv ==
    /\ chain \in [DBs -> Seq(Layers)]
    /\ held \in [DBs -> Seq(Nat)]
    /\ floor \in [DBs -> Nat]
    /\ chain[Main] # <<>>
    /\ \A d \in DBs : HandleOK(chain[d], held[d], floor[d])

\* Making a snapshot keeps a handle well formed.
LEMMA SnapshotOK ==
    ASSUME NEW c \in Seq(Layers), NEW h \in Seq(Nat), NEW f \in Nat,
           NEW l \in Layers \ {Root}, HandleOK(c, h, f), c # <<>>
    PROVE  /\ HandleOK(Append(c, l), Append(h, Len(c)), f)
           /\ Append(c, l) \in Seq(Layers) /\ Append(c, l) # <<>>
           /\ Append(h, Len(c)) \in Seq(Nat)
  <1>1. HandleOK(Append(c, l), Append(h, Len(c)), f)
    BY DEF HandleOK
  <1>2. Append(c, l) \in Seq(Layers) /\ Append(h, Len(c)) \in Seq(Nat)
    OBVIOUS
  <1>3. Append(c, l) # <<>>
    OBVIOUS
  <1>. QED BY <1>1, <1>2, <1>3

\* A prefix of a sequence.
LEMMA Prefix ==
    ASSUME NEW S, NEW s \in Seq(S), NEW n \in 0 .. Len(s)
    PROVE  /\ SubSeq(s, 1, n) \in Seq(S)
           /\ Len(SubSeq(s, 1, n)) = n
           /\ \A i \in 1 .. n : SubSeq(s, 1, n)[i] = s[i]
           /\ n > 0 => SubSeq(s, 1, n) # <<>>
  <1>1. /\ SubSeq(s, 1, n) \in Seq(S)
        /\ Len(SubSeq(s, 1, n)) = n
        /\ \A i \in 1 .. n : SubSeq(s, 1, n)[i] = s[i]
    OBVIOUS
  <1>2. n > 0 => SubSeq(s, 1, n) # <<>>
    BY <1>1
  <1>. QED BY <1>1, <1>2

\* Cutting the path to n layers and keeping the first m ids, all below n,
\* keeps a handle well formed.
LEMMA CutOK ==
    ASSUME NEW c \in Seq(Layers), NEW h \in Seq(Nat), NEW f \in Nat, HandleOK(c, h, f),
           NEW n \in 1 .. Len(c), f < n,
           NEW m \in 0 .. Len(h), \A j \in 1 .. m : h[j] < n
    PROVE  /\ SubSeq(c, 1, n) \in Seq(Layers) /\ SubSeq(c, 1, n) # <<>>
           /\ SubSeq(h, 1, m) \in Seq(Nat)
           /\ HandleOK(SubSeq(c, 1, n), SubSeq(h, 1, m), f)
  <1>. n \in 0 .. Len(c)
    OBVIOUS
  <1>. DEFINE cut == SubSeq(c, 1, n)
              kept == SubSeq(h, 1, m)
  <1>a. cut \in Seq(Layers) /\ Len(cut) = n /\ \A i \in 1 .. n : cut[i] = c[i]
    BY Prefix
  <1>b. kept \in Seq(Nat) /\ Len(kept) = m /\ \A i \in 1 .. m : kept[i] = h[i]
    BY Prefix
  <1>1. PICK c1 \in Seq(Layers) :
            c1 = cut /\ Len(c1) = n /\ \A i \in 1 .. n : c1[i] = c[i]
    BY <1>a
  <1>2. PICK h1 \in Seq(Nat) :
            h1 = kept /\ Len(h1) = m /\ \A i \in 1 .. m : h1[i] = h[i]
    BY <1>b
  <1>3. c # <<>> /\ c1 # <<>>
    <2>1. Len(c1) > 0
      BY <1>1
    <2>. QED BY <2>1
  <1>4. /\ c[1] = Root
        /\ \A i \in 2 .. Len(c) : c[i] # Root
        /\ \A i \in 1 .. Len(h) : f < h[i] /\ \A j \in 1 .. i - 1 : h[j] < h[i]
    BY <1>3 DEF HandleOK
  <1>5. /\ c1[1] = Root /\ f < Len(c1) /\ \A i \in 2 .. Len(c1) : c1[i] # Root
        /\ \A i \in 1 .. Len(h1) :
            /\ f < h1[i] /\ h1[i] < Len(c1)
            /\ \A j \in 1 .. i - 1 : h1[j] < h1[i]
    BY <1>1, <1>2, <1>4
  <1>6. HandleOK(c1, h1, f)
    BY <1>5 DEF HandleOK
  <1>. QED BY <1>1, <1>2, <1>3, <1>6

\* What a held id says: it names a proper ancestor above the floor, and the
\* ids before it are smaller.
LEMMA HeldId ==
    ASSUME NEW c \in Seq(Layers), NEW h \in Seq(Nat), NEW f \in Nat,
           NEW i \in 1 .. Len(h), HandleOK(c, h, f)
    PROVE  /\ h[i] \in 1 .. Len(c) - 1 /\ f < h[i]
           /\ \A j \in 1 .. i - 1 : h[j] < h[i]
           /\ \A j \in 1 .. i : h[j] < h[i] + 1
  <1>1. /\ h[i] \in 1 .. Len(c) - 1 /\ f < h[i]
        /\ \A j \in 1 .. i - 1 : h[j] < h[i]
    BY DEF HandleOK
  <1>2. ASSUME NEW j \in 1 .. i PROVE h[j] < h[i] + 1
    <2>1. CASE j = i
      BY <2>1, <1>1
    <2>2. CASE j \in 1 .. i - 1
      BY <2>2, <1>1
    <2>. QED BY <2>1, <2>2
  <1>. QED BY <1>1, <1>2

\* Forgetting the newest id keeps a handle well formed.
LEMMA ReturnOK ==
    ASSUME NEW c \in Seq(Layers), NEW h \in Seq(Nat), NEW f \in Nat,
           h # <<>>, HandleOK(c, h, f)
    PROVE  Front(h) \in Seq(Nat) /\ HandleOK(c, Front(h), f)
  BY SMTT(30) DEF HandleOK, Front

\* A fresh handle over a path is well formed.
LEMMA FreshOK ==
    ASSUME NEW c \in Seq(Layers), NEW l \in Layers \ {Root},
           c # <<>>, c[1] = Root, \A i \in 2 .. Len(c) : c[i] # Root,
           NEW h \in Seq(Nat), Len(h) = 0
    PROVE  HandleOK(Append(c, l), h, Len(c))
  BY DEF HandleOK

\* The walk of RevertToSnapshot stops at the layer the id names.
LEMMA AncestorFound ==
    ASSUME NEW c \in Seq(Layers), NEW rev \in 1 .. Len(c) - 1
    PROVE  AncestorFor(c, rev) = rev
  BY DEF AncestorFor

\* If one handle changes and stays well formed, all handles are.
LEMMA OneHandle ==
    ASSUME HandlesInv, NEW d \in DBs,
           NEW c \in Seq(Layers), NEW h \in Seq(Nat), NEW f \in Nat,
           HandleOK(c, h, f), d = Main => c # <<>>,
           chain' = [chain EXCEPT ![d] = c],
           held' = [held EXCEPT ![d] = h],
           floor' = [floor EXCEPT ![d] = f]
    PROVE  HandlesInv'
  BY DBsAssumption DEF HandlesInv

\* A free layer is not the root.
LEMMA FreeIsNotRoot ==
    ASSUME NEW ch, NEW l \in FreeLayers(ch) PROVE l \in Layers \ {Root}
  BY DEF FreeLayers

\* OpenAs makes a well-formed handle.
LEMMA OpenAsHandles ==
    ASSUME HandlesInv, NEW e \in DBs, NEW ch \in Seq(Layers), NEW l, NEW from,
           ch # <<>>, ch[1] = Root, \A i \in 2 .. Len(ch) : ch[i] # Root,
           OpenAs(e, ch, l, from)
    PROVE  HandlesInv'
  <1>1. l \in Layers \ {Root}
    BY FreeIsNotRoot DEF OpenAs
  <1>2. e # Main /\ chain[e] = <<>>
    BY DEF OpenAs, Open, HandlesInv
  <1>3. held[e] \in Seq(Nat) /\ Len(held[e]) = 0
    <2>1. held[e] \in Seq(Nat) /\ floor[e] \in Nat /\ HandleOK(chain[e], held[e], floor[e])
      BY DEF HandlesInv
    <2>. QED BY <1>2, <2>1, SMTT(30) DEF HandleOK
  <1>4. Append(ch, l) \in Seq(Layers) /\ Len(ch) \in Nat
    BY <1>1
  <1>5. HandleOK(Append(ch, l), held[e], Len(ch))
    BY <1>1, <1>3, FreshOK
  <1>6. /\ chain' = [chain EXCEPT ![e] = Append(ch, l)]
        /\ held' = [held EXCEPT ![e] = held[e]]
        /\ floor' = [floor EXCEPT ![e] = Len(ch)]
    BY DEF OpenAs, HandlesInv
  <1>. QED BY <1>2, <1>3, <1>4, <1>5, <1>6, OneHandle

\* InitState leaves Main well formed, panic or not.
LEMMA RebaseHandles ==
    ASSUME HandlesInv, NEW l, NEW p, NEW outcome, Rebase(l, p, outcome)
    PROVE  HandlesInv'
  <1>1. l \in Layers \ {Root} /\ Root \in Layers
    BY FreeIsNotRoot, LayersAssumption DEF Rebase
  <1>2. CASE outcome \in PanicOutcomes
    <2>1. HandleOK(<<Root>>, <<>>, 0) /\ <<Root>> \in Seq(Layers) /\ <<>> \in Seq(Nat)
      BY <1>1 DEF HandleOK
    <2>2. /\ chain' = [chain EXCEPT ![Main] = <<Root>>]
          /\ held' = [held EXCEPT ![Main] = <<>>]
          /\ floor' = [floor EXCEPT ![Main] = 0]
      BY <1>2 DEF Rebase, Restarted
    <2>. QED BY <2>1, <2>2, OneHandle, DBsAssumption
  <1>3. CASE outcome \notin PanicOutcomes
    <2>1. HandleOK(<<Root, l>>, <<>>, 1) /\ <<Root, l>> \in Seq(Layers) /\ <<>> \in Seq(Nat)
      BY <1>1 DEF HandleOK
    <2>2. /\ chain' = [chain EXCEPT ![Main] = <<Root, l>>]
          /\ held' = [held EXCEPT ![Main] = <<>>]
          /\ floor' = [floor EXCEPT ![Main] = 1]
      BY <1>3 DEF Rebase, Restarted
    <2>. QED BY <2>1, <2>2, OneHandle, DBsAssumption
  <1>. QED BY <1>2, <1>3

\* The handles are well formed initially.
LEMMA HandlesInit == Init => HandlesInv
  <1>. SUFFICES ASSUME Init PROVE HandlesInv
    OBVIOUS
  <1>1. PICK l \in Layers \ {Root} :
            chain = [d \in DBs |-> IF d = Main THEN <<Root, l>> ELSE <<>>]
    BY DEF Init
  <1>2. <<Root, l>> \in Seq(Layers)
    BY LayersAssumption
  <1>3. /\ chain \in [DBs -> Seq(Layers)]
        /\ held \in [DBs -> Seq(Nat)]
        /\ floor \in [DBs -> Nat]
        /\ chain[Main] # <<>>
    BY <1>1, <1>2, DBsAssumption DEF Init
  <1>4. HandleOK(<<Root, l>>, <<>>, 1) /\ HandleOK(<<>>, <<>>, 0)
    BY LayersAssumption DEF HandleOK
  <1>5. ASSUME NEW d \in DBs PROVE HandleOK(chain[d], held[d], floor[d])
    BY <1>1, <1>4 DEF Init
  <1>. QED BY <1>3, <1>5 DEF HandlesInv

\* Each operation on revisions keeps the handles well formed.
LEMMA RevisionHandles ==
    ASSUME HandlesInv, NEW d \in DBs, Revision(d) PROVE HandlesInv'
  <1>. DEFINE c == chain[d]
              h == held[d]
  <1>1. /\ c \in Seq(Layers) /\ h \in Seq(Nat) /\ floor[d] \in Nat
        /\ HandleOK(c, h, floor[d])
        /\ floor = [floor EXCEPT ![d] = floor[d]]
        /\ chain = [chain EXCEPT ![d] = c]
        /\ DOMAIN h = 1 .. Len(h)
    BY DEF HandlesInv
  <1>2. ASSUME NEW l \in Layers, Snapshot(d, l) PROVE HandlesInv'
    <2>1. l \in Layers \ {Root} /\ c # <<>>
      BY <1>2, FreeIsNotRoot DEF Snapshot, Open
    <2>2. /\ HandleOK(Append(c, l), Append(h, Len(c)), floor[d])
          /\ Append(c, l) \in Seq(Layers) /\ Append(h, Len(c)) \in Seq(Nat)
          /\ Append(c, l) # <<>>
      BY <1>1, <2>1, SnapshotOK
    <2>3. /\ chain' = [chain EXCEPT ![d] = Append(c, l)]
          /\ held' = [held EXCEPT ![d] = Append(h, Len(c))]
          /\ floor' = [floor EXCEPT ![d] = floor[d]]
      BY <1>1, <1>2 DEF Snapshot
    <2>. HIDE DEF c, h
    <2>. QED BY <1>1, <2>2, <2>3, OneHandle
  <1>3. ASSUME NEW i \in DOMAIN h, RevertToSnapshot(d, i) PROVE HandlesInv'
    <2>1. /\ i \in 1 .. Len(h) /\ h[i] \in 1 .. Len(c) - 1 /\ floor[d] < h[i]
          /\ \A j \in 1 .. i - 1 : h[j] < h[i]
      BY <1>1, HeldId
    <2>2. AncestorFor(c, h[i]) = h[i]
      BY <1>1, <2>1, AncestorFound
    <2>3. h[i] \in 1 .. Len(c) /\ i - 1 \in 0 .. Len(h)
      BY <1>1, <2>1
    <2>4. /\ SubSeq(c, 1, h[i]) \in Seq(Layers) /\ SubSeq(c, 1, h[i]) # <<>>
          /\ SubSeq(h, 1, i - 1) \in Seq(Nat)
          /\ HandleOK(SubSeq(c, 1, h[i]), SubSeq(h, 1, i - 1), floor[d])
      BY <1>1, <2>1, <2>3, CutOK
    <2>5. /\ chain' = [chain EXCEPT ![d] = SubSeq(c, 1, h[i])]
          /\ held' = [held EXCEPT ![d] = SubSeq(h, 1, i - 1)]
          /\ floor' = [floor EXCEPT ![d] = floor[d]]
      BY <1>1, <1>3, <2>2 DEF RevertToSnapshot
    <2>. HIDE DEF c, h
    <2>. QED BY <1>1, <2>4, <2>5, OneHandle
  <1>4. ASSUME FrameReturns(d) PROVE HandlesInv'
    <2>1. h # <<>>
      BY <1>4 DEF FrameReturns
    <2>2. Front(h) \in Seq(Nat) /\ HandleOK(c, Front(h), floor[d])
      BY <1>1, <2>1, ReturnOK
    <2>3. d = Main => c # <<>>
      BY DEF HandlesInv
    <2>4. /\ chain' = [chain EXCEPT ![d] = c]
          /\ held' = [held EXCEPT ![d] = Front(h)]
          /\ floor' = [floor EXCEPT ![d] = floor[d]]
      BY <1>1, <1>4 DEF FrameReturns
    <2>. HIDE DEF c, h
    <2>. QED BY <1>1, <2>2, <2>3, <2>4, OneHandle
  <1>5. ASSUME NEW i \in DOMAIN h, MergeTo(d, i) PROVE HandlesInv'
    <2>1. /\ i \in 1 .. Len(h) /\ h[i] \in 1 .. Len(c) - 1 /\ floor[d] < h[i]
          /\ \A j \in 1 .. i : h[j] < h[i] + 1
      BY <1>1, HeldId
    <2>2. h[i] + 1 \in 1 .. Len(c) /\ i \in 0 .. Len(h) /\ floor[d] < h[i] + 1
      <3>. HIDE DEF c, h
      <3>. QED BY <1>1, <2>1
    <2>3. /\ SubSeq(c, 1, h[i] + 1) \in Seq(Layers) /\ SubSeq(c, 1, h[i] + 1) # <<>>
          /\ SubSeq(h, 1, i) \in Seq(Nat)
          /\ HandleOK(SubSeq(c, 1, h[i] + 1), SubSeq(h, 1, i), floor[d])
      BY <1>1, <2>1, <2>2, CutOK
    <2>4. /\ chain' = [chain EXCEPT ![d] = SubSeq(c, 1, h[i] + 1)]
          /\ held' = [held EXCEPT ![d] = SubSeq(h, 1, i)]
          /\ floor' = [floor EXCEPT ![d] = floor[d]]
      BY <1>1, <1>5 DEF MergeTo
    <2>. HIDE DEF c, h
    <2>. QED BY <1>1, <2>3, <2>4, OneHandle
  <1>. QED BY <1>2, <1>3, <1>4, <1>5 DEF Revision

\* Making and dropping clones keeps the handles well formed.
LEMMA HandleHandles ==
    ASSUME HandlesInv, NEW d \in DBs, Handle(d) PROVE HandlesInv'
  <1>1. ASSUME NEW e \in DBs, NEW l \in Layers, Clone(d, e, l) PROVE HandlesInv'
    <2>1. /\ chain[d] \in Seq(Layers) /\ chain[d] # <<>> /\ chain[d][1] = Root
          /\ \A i \in 2 .. Len(chain[d]) : chain[d][i] # Root
      BY <1>1 DEF Clone, Open, HandlesInv, HandleOK
    <2>2. OpenAs(e, chain[d], l, origin[d] \cup {d})
      BY <1>1 DEF Clone
    <2>. QED BY <2>1, <2>2, OpenAsHandles
  <1>2. ASSUME NEW e \in DBs, NEW l \in Layers, CloneFromRoot(d, e, l) PROVE HandlesInv'
    <2>1. /\ <<Root>> \in Seq(Layers) /\ <<Root>> # <<>> /\ <<Root>>[1] = Root
          /\ \A i \in 2 .. Len(<<Root>>) : <<Root>>[i] # Root
      BY LayersAssumption
    <2>2. OpenAs(e, <<Root>>, l, {})
      BY <1>2 DEF CloneFromRoot
    <2>. QED BY <2>1, <2>2, OpenAsHandles
  <1>3. ASSUME Drop(d) PROVE HandlesInv'
    <2>1. /\ d # Main
          /\ chain' = [chain EXCEPT ![d] = <<>>]
          /\ held' = [held EXCEPT ![d] = <<>>]
          /\ floor' = [floor EXCEPT ![d] = 0]
      BY <1>3 DEF Drop
    <2>2. HandleOK(<<>>, <<>>, 0) /\ <<>> \in Seq(Layers) /\ <<>> \in Seq(Nat)
      BY DEF HandleOK
    <2>. QED BY <2>1, <2>2, OneHandle
  <1>. QED BY <1>1, <1>2, <1>3 DEF Handle

\* A lower floor is as good.
LEMMA LowerFloor ==
    ASSUME NEW c \in Seq(Layers), NEW h \in Seq(Nat), NEW f \in Nat, NEW g \in Nat,
           g <= f, HandleOK(c, h, f)
    PROVE  HandleOK(c, h, g)
  BY DEF HandleOK

\* A revert to an id that was overtaken keeps the handles well formed.
LEMMA LapsedHandles ==
    ASSUME HandlesInv, NEW id, NEW j, RevertLapsed(id, j) PROVE HandlesInv'
  <1>. DEFINE g == IF id <= floor[Main] THEN id - 1 ELSE floor[Main]
  <1>1. PICK c \in Seq(Layers) : c = chain[Main]
    BY DBsAssumption DEF HandlesInv
  <1>2. PICK h \in Seq(Nat) : h = held[Main]
    BY DBsAssumption DEF HandlesInv
  <1>3. /\ floor[Main] \in Nat /\ HandleOK(c, h, floor[Main])
        /\ floor \in [DBs -> Nat] /\ c # <<>> /\ DOMAIN h = 1 .. Len(h)
    BY <1>1, <1>2, DBsAssumption DEF HandlesInv
  <1>4. /\ id \in 1 .. Len(c) - 1 /\ j \in 0 .. Len(h)
        /\ \A k \in DOMAIN h : k <= j <=> h[k] < id
    BY <1>1, <1>2 DEF RevertLapsed
  <1>5. PICK f \in Nat : f = g
    BY <1>3, <1>4
  <1>6. f < id /\ f <= floor[Main]
    <2>. QED BY <1>3, <1>4, <1>5
  <1>7. HandleOK(c, h, f)
    BY <1>3, <1>6, LowerFloor
  <1>8. id \in 1 .. Len(c) /\ \A k \in 1 .. j : h[k] < id
    BY <1>3, <1>4
  <1>9. /\ SubSeq(c, 1, id) \in Seq(Layers) /\ SubSeq(c, 1, id) # <<>>
        /\ SubSeq(h, 1, j) \in Seq(Nat)
        /\ HandleOK(SubSeq(c, 1, id), SubSeq(h, 1, j), f)
    BY <1>4, <1>6, <1>7, <1>8, CutOK
  <1>10. AncestorFor(c, id) = id
    BY <1>4, AncestorFound
  <1>11. /\ chain' = [chain EXCEPT ![Main] = SubSeq(c, 1, id)]
         /\ held' = [held EXCEPT ![Main] = SubSeq(h, 1, j)]
         /\ floor' = [floor EXCEPT ![Main] = f]
    BY <1>1, <1>2, <1>5, <1>10 DEF RevertLapsed
  <1>. QED BY <1>9, <1>11, OneHandle, DBsAssumption

\* Nothing else touches paths and ids, but InitState.
LEMMA HandlesStep == HandlesInv /\ [Next]_vars => HandlesInv'
  <1>. SUFFICES ASSUME HandlesInv, [Next]_vars PROVE HandlesInv'
    OBVIOUS
  <1>1. ASSUME UNCHANGED <<chain, held, floor>> PROVE HandlesInv'
    BY <1>1 DEF HandlesInv
  <1>2. CASE UNCHANGED vars
    BY <1>1, <1>2 DEF vars
  <1>3. CASE InitState
    <2>1. ASSUME NEW l \in Layers, InitStateKeep(l) PROVE HandlesInv'
      BY <2>1, RebaseHandles DEF InitStateKeep
    <2>2. ASSUME NEW l \in Layers, NEW o \in FetchOutcomes, InitStateClear(l, o)
          PROVE  HandlesInv'
      BY <2>2, RebaseHandles DEF InitStateClear
    <2>3. ASSUME NEW n \in BlockNumbers, NEW l \in Layers, NEW o \in FetchOutcomes,
                 NEW ks \in KeyLines, NEW zs \in SUBSET Keys, Refork(n, l, o, ks, zs)
          PROVE  HandlesInv'
      BY <2>3, RebaseHandles DEF Refork
    <2>4. ASSUME InitFakeAccounts PROVE HandlesInv'
      BY <2>4, <1>1 DEF InitFakeAccounts
    <2>. QED BY <1>3, <2>1, <2>2, <2>3, <2>4 DEF InitState
  <1>4. ASSUME NEW d \in DBs, Access(d) PROVE HandlesInv'
    BY <1>1, <1>4 DEF Access, Set, Read, AddBalance
  <1>5. ASSUME NEW d \in DBs, Record(d) PROVE HandlesInv'
    BY <1>1, <1>5 DEF Record, StartLogCollection, AddLog, AddReceipt
  <1>6. CASE Overlap
    BY <1>1, <1>6, LapsedHandles DEF Overlap, RevertRunsOff, LapsedReturns
  <1>. QED BY <1>2, <1>3, <1>4, <1>5, <1>6, RevisionHandles, HandleHandles DEF Next

\* An id lapses only when a caller held it.
LEMMA LapsedFrom ==
    ASSUME HandlesInv, [Next]_vars
    PROVE  \A id \in lapsed' : id \in lapsed \/ \E j \in 1 .. Len(held[Main]) : id = held[Main][j]
  <1>0. held[Main] \in Seq(Nat)
    BY DBsAssumption DEF HandlesInv
  <1>1. CASE UNCHANGED lapsed
    BY <1>1
  <1>2. ASSUME NEW d, NEW i \in Nat, lapsed' = Overtaken(d, i)
        PROVE  \A id \in lapsed' : id \in lapsed \/ \E j \in 1 .. Len(held[Main]) : id = held[Main][j]
    BY <1>0, <1>2 DEF Overtaken
  <1>3. CASE UNCHANGED vars
    BY <1>1, <1>3 DEF vars
  <1>4. CASE InitState
    <2>1. ASSUME NEW l, NEW p, NEW o, Rebase(l, p, o) PROVE lapsed' = Overtaken(Main, 0)
      BY <2>1 DEF Rebase
    <2>2. lapsed' = Overtaken(Main, 0) \/ UNCHANGED lapsed
      BY <1>4, <2>1 DEF InitState, InitStateKeep, InitStateClear, Refork, InitFakeAccounts
    <2>. QED BY <1>1, <1>2, <2>2
  <1>5. ASSUME NEW d \in DBs, Access(d) \/ Record(d) \/ Handle(d) PROVE UNCHANGED lapsed
    BY <1>5 DEF Access, Set, Read, AddBalance, Record, StartLogCollection, AddLog, AddReceipt,
                Handle, Clone, CloneFromRoot, OpenAs, Drop
  <1>6. ASSUME NEW d \in DBs, Revision(d)
        PROVE  UNCHANGED lapsed \/ \E i \in Nat : lapsed' = Overtaken(d, i)
    <2>1. \A i \in DOMAIN held[d] : i \in Nat
      BY DEF HandlesInv
    <2>. QED BY <1>6, <2>1 DEF Revision, Snapshot, RevertToSnapshot, FrameReturns, MergeTo
  <1>7. CASE Overlap
    <2>1. ASSUME NEW id \in lapsed, NEW j \in 0 .. Len(held[Main]), RevertLapsed(id, j)
          PROVE  j \in Nat /\ lapsed' = Overtaken(Main, j)
      BY <1>0, <2>1 DEF RevertLapsed
    <2>2. ASSUME NEW id \in lapsed, RevertRunsOff(id) \/ LapsedReturns(id)
          PROVE  lapsed' \subseteq lapsed
      BY <2>2 DEF RevertRunsOff, LapsedReturns
    <2>. QED BY <1>2, <1>7, <2>1, <2>2 DEF Overlap
  <1>. QED BY <1>1, <1>2, <1>3, <1>4, <1>5, <1>6, <1>7 DEF Next

-----------------------------------------------------------------------------
(* The contents of the layers. *)

PadMaps == [Layers -> Pads]

LogMaps == [Layers -> [TxHashes -> Seq(LogIds)]]

\* The initial values of a layer are well typed.
LEMMA EmptyTypes ==
    EmptyPad \in Pads /\ NoLogs \in [TxHashes -> Seq(LogIds)]
  BY DEF EmptyPad, Pads, NoLogs

\* An open handle has a top layer.
LEMMA TopType ==
    ASSUME HandlesInv, NEW d \in Open PROVE Top(d) \in Layers
  <1>1. d \in DBs /\ chain[d] \in Seq(Layers) /\ chain[d] # <<>>
    BY DEF Open, HandlesInv
  <1>2. Len(chain[d]) \in 1 .. Len(chain[d])
    BY <1>1
  <1>. QED BY <1>1, <1>2 DEF Top, Last

\* Main is open.
LEMMA MainOpen ==
    ASSUME HandlesInv PROVE Main \in Open
  BY DBsAssumption DEF HandlesInv, Open

\* Keys have an owner.
LEMMA OwnerType ==
    ASSUME NEW k \in Keys PROVE Owner(k) \in Accounts
  BY DEF Keys, AccountKeys, StateKeys, Owner

\* Freeing unreachable layers keeps types.
LEMMA CollectType ==
    ASSUME NEW T, NEW f \in [Layers -> T], NEW ch, NEW empty \in T
    PROVE  Collect(f, ch, empty) \in [Layers -> T]
  BY DEF Collect

\* The contents that Keep leaves are well typed.
LEMMA KeepType ==
    ASSUME TypeOK, NEW p \in PadMaps, NEW ch, Keep(p, ch)
    PROVE  /\ pad' \in PadMaps /\ txLogs' \in LogMaps
           /\ receipts' \in [Layers -> SUBSET TxHashes] /\ txHash' \in [Layers -> TxHashes]
  <1>1. {} \in SUBSET TxHashes
    OBVIOUS
  <1>2. pad' \in PadMaps /\ txLogs' \in LogMaps
    BY EmptyTypes, CollectType DEF Keep, TypeOK, PadMaps, LogMaps
  <1>3. receipts' \in [Layers -> SUBSET TxHashes]
    BY <1>1, CollectType DEF Keep, TypeOK
  <1>4. txHash' \in [Layers -> TxHashes]
    BY TxAssumption, CollectType DEF Keep, TypeOK
  <1>. QED BY <1>2, <1>3, <1>4

\* The contents that Derive leaves are well typed.
LEMMA DeriveType ==
    ASSUME TypeOK, NEW q \in Layers, NEW l \in Layers, Derive(q, l)
    PROVE  /\ pad' \in PadMaps /\ txLogs' \in LogMaps
           /\ receipts' \in [Layers -> SUBSET TxHashes] /\ txHash' \in [Layers -> TxHashes]
  <1>1. pad' \in PadMaps
    BY EmptyTypes DEF Derive, TypeOK, PadMaps
  <1>2. txLogs' \in LogMaps
    BY EmptyTypes DEF Derive, TypeOK, LogMaps
  <1>3. receipts' \in [Layers -> SUBSET TxHashes] /\ txHash' \in [Layers -> TxHashes]
    BY DEF Derive, TypeOK
  <1>. QED BY <1>1, <1>2, <1>3

\* Writing one key of the top layer keeps pads pads.
LEMMA PutType ==
    ASSUME NEW p \in PadMaps, NEW d, Top(d) \in Layers, NEW k \in Keys, NEW v \in Values
    PROVE  Put(p, d, k, v) \in PadMaps
  BY DEF Put, PadMaps, Pads

\* A read keeps pads pads.
LEMMA FillType ==
    ASSUME TypeOK, NEW ch, NEW k \in Keys PROVE Fill(ch, k) \in PadMaps
  <1>1. Upstream \in [Keys -> Values] /\ pad[Root] \in Pads
    BY UpstreamAssumption, LayersAssumption DEF TypeOK, Upstream, Views
  <1>. QED BY <1>1, LayersAssumption DEF Fill, TypeOK, PadMaps, Pads

\* Touched accounts are accounts.
LEMMA TouchedType ==
    ASSUME NEW ch, NEW k \in Keys PROVE Touched(ch, k) \subseteq Accounts
  BY OwnerType DEF Touched

\* Pouring keeps pads pads.
LEMMA PourType ==
    ASSUME TypeOK, NEW ch \in Seq(Layers), NEW rev \in Nat
    PROVE  Pour(ch, rev) \in PadMaps
  <1>. DEFINE poured(n) == [k \in Keys |->
            IF \E i \in n .. Len(ch) : StopsAt(ch, k, i)
            THEN pad[ch[CHOOSE i \in n .. Len(ch) : StopsAt(ch, k, i)]][k]
            ELSE Absent]
  <1>1. ASSUME NEW n \in 1 .. Len(ch) PROVE poured(n) \in Pads
    <2>1. ASSUME NEW k \in Keys, NEW i \in n .. Len(ch)
          PROVE  pad[ch[i]][k] \in Values \cup {Absent}
      <3>1. ch[i] \in Layers
        OBVIOUS
      <3>. QED BY <3>1 DEF TypeOK, Pads
    <2>2. ASSUME NEW k \in Keys, \E i \in n .. Len(ch) : StopsAt(ch, k, i)
          PROVE  (CHOOSE i \in n .. Len(ch) : StopsAt(ch, k, i)) \in n .. Len(ch)
      BY <2>2
    <2>. QED BY <2>1, <2>2 DEF Pads
  <1>2. ASSUME NEW l \in Layers
        PROVE  (IF \E n \in rev + 1 .. Len(ch) : ch[n] = l
                THEN poured(CHOOSE n \in 1 .. Len(ch) : ch[n] = l)
                ELSE pad[l]) \in Pads
    <2>1. CASE \E n \in rev + 1 .. Len(ch) : ch[n] = l
      <3>1. \E n \in 1 .. Len(ch) : ch[n] = l
        BY <2>1
      <3>2. (CHOOSE n \in 1 .. Len(ch) : ch[n] = l) \in 1 .. Len(ch)
        BY <3>1
      <3>. HIDE DEF poured
      <3>. QED BY <2>1, <3>2, <1>1
    <2>2. CASE ~\E n \in rev + 1 .. Len(ch) : ch[n] = l
      BY <2>2 DEF TypeOK
    <2>. QED BY <2>1, <2>2
  <1>. QED BY <1>2 DEF Pour, PadMaps

\* The part of TypeOK that is not about paths and ids.
ContentsOK ==
    /\ bn \in BlockNumbers
    /\ pad \in PadMaps
    /\ txLogs \in LogMaps
    /\ receipts \in [Layers -> SUBSET TxHashes]
    /\ txHash \in [Layers -> TxHashes]
    /\ accessed \in SUBSET Accounts
    /\ keyFile \in SUBSET StateKeys
    /\ origin \in [DBs -> SUBSET DBs]
    /\ lastFetch \in FetchOutcomes \cup {"ok"}

\* TypeOK is the types of the contents, of the handles and of lapsed.
LEMMA TypeOKParts == HandlesInv => (TypeOK <=> ContentsOK /\ lapsed \in SUBSET Nat)
  BY DEF HandlesInv, TypeOK, ContentsOK, PadMaps, LogMaps

\* Rebase leaves well-typed contents if the pads it is given are.
LEMMA RebaseType ==
    ASSUME TypeOK, NEW l \in Layers, NEW p \in PadMaps, NEW outcome, Rebase(l, p, outcome)
    PROVE  /\ pad' \in PadMaps /\ txLogs' \in LogMaps
           /\ receipts' \in [Layers -> SUBSET TxHashes] /\ txHash' \in [Layers -> TxHashes]
           /\ origin' \in [DBs -> SUBSET DBs]
  <1>1. [p EXCEPT ![l] = EmptyPad] \in PadMaps
    BY EmptyTypes DEF PadMaps
  <1>2. [txLogs EXCEPT ![l] = NoLogs] \in LogMaps
    BY EmptyTypes DEF TypeOK, LogMaps
  <1>3. [receipts EXCEPT ![l] = {}] \in [Layers -> SUBSET TxHashes]
    BY DEF TypeOK
  <1>4. [txHash EXCEPT ![l] = txHash[Root]] \in [Layers -> TxHashes]
    BY LayersAssumption DEF TypeOK
  <1>5. pad' \in PadMaps
    BY <1>1, EmptyTypes, CollectType DEF Rebase, PadMaps
  <1>6. txLogs' \in LogMaps
    BY <1>2, EmptyTypes, CollectType DEF Rebase, LogMaps
  <1>7. receipts' \in [Layers -> SUBSET TxHashes]
    <2>1. {} \in SUBSET TxHashes
      OBVIOUS
    <2>. QED BY <1>3, <2>1, CollectType DEF Rebase
  <1>8. txHash' \in [Layers -> TxHashes]
    BY <1>4, TxAssumption, CollectType DEF Rebase
  <1>9. origin' \in [DBs -> SUBSET DBs]
    BY DEF Rebase, TypeOK
  <1>. QED BY <1>5, <1>6, <1>7, <1>8, <1>9

\* The prefetched root pad is a pad.
LEMMA PrefetchedType ==
    ASSUME TypeOK, NEW n \in BlockNumbers, NEW ks, NEW acc, NEW outcome, NEW zs
    PROVE  [pad EXCEPT ![Root] = Prefetched(n, ks, acc, outcome, zs)] \in PadMaps
  <1>1. UpstreamAt[n] \in [Keys -> Values] /\ pad[Root] \in Pads /\ 0 \in Values
    BY UpstreamAssumption, LayersAssumption, ValuesAssumption DEF TypeOK, Views, Values
  <1>2. Prefetched(n, ks, acc, outcome, zs) \in Pads
    BY <1>1 DEF Prefetched, Pads
  <1>. QED BY <1>2, LayersAssumption DEF TypeOK, PadMaps

\* InitState keeps the contents well typed.
LEMMA InitStateType ==
    ASSUME HandlesInv, TypeOK, InitState PROVE ContentsOK'
  <1>. USE DEF ContentsOK
  <1>0. ContentsOK
    BY TypeOKParts
  <1>1. ASSUME NEW l \in Layers, InitStateKeep(l) PROVE ContentsOK'
    BY <1>0, <1>1, RebaseType DEF InitStateKeep
  <1>2. ASSUME NEW l \in Layers, NEW o \in FetchOutcomes, InitStateClear(l, o)
        PROVE  ContentsOK'
    <2>1. [pad EXCEPT ![Root] = EmptyPad] \in PadMaps
      BY <1>0, EmptyTypes, LayersAssumption DEF PadMaps
    <2>2. /\ pad' \in PadMaps /\ txLogs' \in LogMaps
          /\ receipts' \in [Layers -> SUBSET TxHashes] /\ txHash' \in [Layers -> TxHashes]
          /\ origin' \in [DBs -> SUBSET DBs]
      BY <1>0, <1>2, <2>1, RebaseType DEF InitStateClear
    <2>. QED BY <1>0, <1>2, <2>2 DEF InitStateClear
  <1>3. ASSUME NEW n \in BlockNumbers, NEW l \in Layers, NEW o \in FetchOutcomes,
               NEW ks \in KeyLines, NEW zs \in SUBSET Keys, Refork(n, l, o, ks, zs)
        PROVE  ContentsOK'
    <2>. DEFINE slots == {k \in StateKeys : k \in ks \/ pad[Root][k] # Absent}
                acc == accessed \cup {Owner(k) : k \in slots}
    <2>1. /\ pad' \in PadMaps /\ txLogs' \in LogMaps
          /\ receipts' \in [Layers -> SUBSET TxHashes] /\ txHash' \in [Layers -> TxHashes]
          /\ origin' \in [DBs -> SUBSET DBs]
      BY <1>3, PrefetchedType, RebaseType DEF Refork
    <2>2. acc \subseteq Accounts
      BY <1>0, OwnerType DEF Keys
    <2>3. slots \subseteq StateKeys
      OBVIOUS
    <2>4. /\ accessed' \in {accessed, acc} /\ keyFile' \in {keyFile, slots}
          /\ bn' = n /\ lastFetch' = o
      BY <1>3 DEF Refork
    <2>. HIDE DEF acc, slots
    <2>. QED BY <1>0, <2>1, <2>2, <2>3, <2>4
  <1>4. ASSUME InitFakeAccounts PROVE ContentsOK'
    <2>. DEFINE ks == {<<"balance", a>> : a \in FakeAccounts}
                missed == {k \in ks : ~Hit(chain[Main], k)}
                filled == [pad EXCEPT ![Root] =
                    [q \in Keys |-> IF /\ q \in AccountKeys
                                       /\ Owner(q) \in {Owner(k) : k \in missed}
                                       /\ pad[Root][q] = Absent
                                    THEN Upstream[q] ELSE pad[Root][q]]]
                post(k) == Get(chain[Main], k) + FakeBalance
    <2>1. ks \subseteq Keys
      BY AccountsAssumption DEF Keys, AccountKeys
    <2>2. filled \in PadMaps
      <3>1. Upstream \in [Keys -> Values] /\ pad[Root] \in Pads
        BY UpstreamAssumption, LayersAssumption DEF TypeOK, Upstream, Views
      <3>. QED BY <1>0, <3>1, LayersAssumption DEF PadMaps, Pads
    <2>3. \A k \in ks : post(k) \in Values
      BY <1>4 DEF InitFakeAccounts
    <2>4. pad' = [filled EXCEPT ![Top(Main)] =
                    [q \in Keys |-> IF q \in ks THEN post(q) ELSE filled[Top(Main)][q]]]
      BY <1>4 DEF InitFakeAccounts
    <2>5. Top(Main) \in Layers
      BY MainOpen, TopType
    <2>6. pad' \in PadMaps
      <3>. HIDE DEF filled, ks, post
      <3>. QED BY <2>2, <2>3, <2>4, <2>5 DEF PadMaps, Pads
    <2>7. accessed' \in SUBSET Accounts
      <3>1. {Owner(k) : k \in missed} \subseteq Accounts
        BY <2>1, OwnerType
      <3>2. accessed' = accessed \cup {Owner(k) : k \in missed}
        BY <1>4 DEF InitFakeAccounts
      <3>. HIDE DEF missed
      <3>. QED BY <1>0, <3>1, <3>2
    <2>. QED BY <1>0, <1>4, <2>6, <2>7 DEF InitFakeAccounts, notes
  <1>. QED BY <1>1, <1>2, <1>3, <1>4 DEF InitState

\* Reads and writes keep the contents well typed.
LEMMA AccessType ==
    ASSUME HandlesInv, TypeOK, NEW d \in DBs, Access(d) PROVE ContentsOK'
  <1>. USE DEF ContentsOK, notes
  <1>0. ContentsOK
    BY TypeOKParts
  <1>1. ASSUME NEW k \in Keys, NEW v \in Values, Set(d, k, v) PROVE ContentsOK'
    <2>1. Top(d) \in Layers
      BY <1>1, TopType DEF Set
    <2>2. pad' \in PadMaps
      BY <1>0, <1>1, <2>1, PutType DEF Set
    <2>. QED BY <1>0, <1>1, <2>2 DEF Set
  <1>2. ASSUME NEW k \in Keys, Read(d, k) PROVE ContentsOK'
    <2>1. pad' \in PadMaps /\ Touched(chain[d], k) \subseteq Accounts
      BY <1>2, FillType, TouchedType DEF Read
    <2>. QED BY <1>0, <1>2, <2>1 DEF Read
  <1>3. ASSUME NEW a \in Accounts, NEW delta \in -MaxValue .. MaxValue, AddBalance(d, a, delta)
        PROVE  ContentsOK'
    <2>. DEFINE k == <<"balance", a>>
                post == Abs(Get(chain[d], k) + delta)
    <2>1. k \in Keys /\ post \in Values /\ d \in Open
      BY <1>3 DEF AddBalance
    <2>2. Top(d) \in Layers
      BY <2>1, TopType
    <2>3. pad' = Put(Fill(chain[d], k), d, k, post) /\ accessed' = accessed \cup Touched(chain[d], k)
      BY <1>3 DEF AddBalance
    <2>. HIDE DEF k, post
    <2>4. pad' \in PadMaps /\ Touched(chain[d], k) \subseteq Accounts
      BY <2>1, <2>2, <2>3, FillType, PutType, TouchedType
    <2>. QED BY <1>0, <1>3, <2>3, <2>4 DEF AddBalance
  <1>. QED BY <1>1, <1>2, <1>3 DEF Access

\* Logs and receipts stay well typed.
LEMMA RecordType ==
    ASSUME HandlesInv, TypeOK, NEW d \in DBs, Record(d) PROVE ContentsOK'
  <1>. USE DEF ContentsOK
  <1>0. ContentsOK
    BY TypeOKParts
  <1>1. d \in Open /\ Top(d) \in Layers
    BY TopType DEF Record, StartLogCollection, AddLog, AddReceipt
  <1>2. ASSUME NEW tx \in TxHashes, StartLogCollection(d, tx) PROVE ContentsOK'
    BY <1>0, <1>1, <1>2 DEF StartLogCollection
  <1>3. ASSUME NEW log \in LogIds, AddLog(d, log) PROVE ContentsOK'
    <2>1. txLogs[Top(d)] \in [TxHashes -> Seq(LogIds)] /\ txHash[Top(d)] \in TxHashes
      BY <1>0, <1>1 DEF LogMaps
    <2>2. Append(txLogs[Top(d)][txHash[Top(d)]], log) \in Seq(LogIds)
      BY <2>1
    <2>3. txLogs' \in LogMaps
      BY <1>0, <1>1, <1>3, <2>1, <2>2 DEF AddLog, LogMaps
    <2>. QED BY <1>0, <1>3, <2>3 DEF AddLog
  <1>4. ASSUME NEW tx \in TxHashes, AddReceipt(d, tx) PROVE ContentsOK'
    BY <1>0, <1>1, <1>4 DEF AddReceipt
  <1>. QED BY <1>2, <1>3, <1>4 DEF Record

\* Snapshots, reverts and merges keep the contents well typed.
LEMMA RevisionType ==
    ASSUME HandlesInv, TypeOK, NEW d \in DBs, Revision(d) PROVE ContentsOK'
  <1>. USE DEF ContentsOK, notes
  <1>0. ContentsOK
    BY TypeOKParts
  <1>1. ASSUME NEW l \in Layers, Snapshot(d, l) PROVE ContentsOK'
    <2>1. Top(d) \in Layers
      BY <1>1, TopType DEF Snapshot
    <2>. QED BY <1>0, <1>1, <2>1, DeriveType DEF Snapshot
  <1>2. ASSUME NEW i \in DOMAIN held[d], RevertToSnapshot(d, i) PROVE ContentsOK'
    BY <1>0, <1>2, KeepType DEF RevertToSnapshot
  <1>3. ASSUME FrameReturns(d) PROVE ContentsOK'
    BY <1>0, <1>3 DEF FrameReturns
  <1>4. ASSUME NEW i \in DOMAIN held[d], MergeTo(d, i) PROVE ContentsOK'
    <2>1. chain[d] \in Seq(Layers) /\ held[d][i] \in Nat
      BY DEF HandlesInv
    <2>2. Pour(chain[d], held[d][i]) \in PadMaps
      BY <2>1, PourType
    <2>. QED BY <1>0, <1>4, <2>2, KeepType DEF MergeTo
  <1>. QED BY <1>1, <1>2, <1>3, <1>4 DEF Revision

\* Clones keep the contents well typed.
LEMMA HandleType ==
    ASSUME HandlesInv, TypeOK, NEW d \in DBs, Handle(d) PROVE ContentsOK'
  <1>. USE DEF ContentsOK
  <1>0. ContentsOK
    BY TypeOKParts
  <1>1. ASSUME NEW e \in DBs, NEW ch, NEW l \in Layers, NEW from \in SUBSET DBs,
               Last(ch) \in Layers, OpenAs(e, ch, l, from)
        PROVE  ContentsOK'
    BY <1>0, <1>1, DeriveType DEF OpenAs
  <1>2. ASSUME NEW e \in DBs, NEW l \in Layers, Clone(d, e, l) PROVE ContentsOK'
    <2>1. Last(chain[d]) \in Layers
      BY <1>2, TopType DEF Clone, Top
    <2>2. origin[d] \cup {d} \in SUBSET DBs
      BY <1>0
    <2>. QED BY <1>1, <1>2, <2>1, <2>2 DEF Clone
  <1>3. ASSUME NEW e \in DBs, NEW l \in Layers, CloneFromRoot(d, e, l) PROVE ContentsOK'
    <2>1. Last(<<Root>>) \in Layers
      BY LayersAssumption DEF Last
    <2>2. {} \in SUBSET DBs
      OBVIOUS
    <2>. QED BY <1>1, <1>3, <2>1, <2>2 DEF CloneFromRoot
  <1>4. ASSUME Drop(d) PROVE ContentsOK'
    BY <1>0, <1>4, KeepType DEF Drop
  <1>. QED BY <1>2, <1>3, <1>4 DEF Handle

\* Types hold initially.
LEMMA TypeInit == Init => TypeOK
  <1>. SUFFICES ASSUME Init PROVE TypeOK
    OBVIOUS
  <1>1. HandlesInv
    BY HandlesInit
  <1>2. ContentsOK
    BY EmptyTypes, TxAssumption DEF Init, ContentsOK, PadMaps, LogMaps
  <1>3. lapsed \in SUBSET Nat
    BY DEF Init
  <1>. QED BY <1>1, <1>2, <1>3, TypeOKParts

\* A stray revert keeps the contents well typed.
LEMMA OverlapType ==
    ASSUME HandlesInv, TypeOK, Overlap PROVE ContentsOK'
  <1>. USE DEF ContentsOK
  <1>0. ContentsOK
    BY TypeOKParts
  <1>1. ASSUME NEW id, NEW j, RevertLapsed(id, j) PROVE ContentsOK'
    BY <1>0, <1>1, KeepType DEF RevertLapsed
  <1>2. ASSUME NEW id, RevertRunsOff(id) \/ LapsedReturns(id) PROVE ContentsOK'
    BY <1>0, <1>2 DEF RevertRunsOff, LapsedReturns, notes
  <1>. QED BY <1>1, <1>2 DEF Overlap

\* Every step keeps the types.
LEMMA TypeStep == (HandlesInv /\ TypeOK) /\ [Next]_vars => TypeOK'
  <1>. SUFFICES ASSUME HandlesInv, TypeOK, [Next]_vars PROVE TypeOK'
    OBVIOUS
  <1>1. HandlesInv'
    BY HandlesStep
  <1>2. CASE UNCHANGED vars
    BY <1>2 DEF vars, notes, TypeOK
  <1>3. CASE Next
    <2>1. ContentsOK'
      BY <1>3, InitStateType, AccessType, RevisionType, HandleType, RecordType, OverlapType DEF Next
    <2>2. lapsed' \in SUBSET Nat
      <3>1. \A j \in 1 .. Len(held[Main]) : held[Main][j] \in Nat
        BY DBsAssumption DEF HandlesInv
      <3>2. lapsed \in SUBSET Nat
        BY DEF TypeOK
      <3>. QED BY <3>1, <3>2, LapsedFrom
    <2>. QED BY <2>1, <2>2, <1>1 DEF HandlesInv, TypeOK, ContentsOK, PadMaps, LogMaps
  <1>. QED BY <1>2, <1>3

\* Type correctness, for every value of the constants.  It rests on the ids:
\* a revert or a merge with a bad id would leave a path that is no path.
THEOREM TypeCorrect == Spec => []TypeOK
  BY HandlesInit, HandlesStep, TypeInit, TypeStep, PTL DEF Spec

-----------------------------------------------------------------------------
(* What the root pad holds, when no prefetch panics. *)

NoPanic == FetchOutcomes \cap PanicOutcomes = {}

\* Every handle has a layer of its own over the root.
RootCovered == \A d \in Open : floor[d] >= 1

\* An account with a field in the root pad is refreshed by the next
\* prefetch.
AccessedCovers ==
    \A k \in AccountKeys : pad[Root][k] # Absent => Owner(k) \in accessed

CacheInv == RootCovered /\ AccessedCovers /\ RootCoherent

\* The ids that were overtaken lie above the one layer Main starts with.
LapsedHigh == floor[Main] = 1 /\ \A id \in lapsed : 1 < id

RootInv == CacheInv /\ LapsedHigh

\* The top layer of a handle is not the root.
LEMMA TopIsNotRoot ==
    ASSUME HandlesInv, RootCovered, NEW d \in Open PROVE Top(d) # Root
  <1>1. /\ chain[d] \in Seq(Layers) /\ floor[d] \in Nat /\ floor[d] >= 1
        /\ floor[d] < Len(chain[d])
        /\ \A i \in 2 .. Len(chain[d]) : chain[d][i] # Root
    BY DEF HandlesInv, HandleOK, Open, RootCovered
  <1>2. Len(chain[d]) \in 2 .. Len(chain[d])
    BY <1>1
  <1>. QED BY <1>1, <1>2 DEF Top, Last

\* If the root pad, the height and the accessed accounts stay, so does what
\* is known of the root pad.
LEMMA RootKept ==
    ASSUME CacheInv, pad'[Root] = pad[Root],
           UNCHANGED <<bn, accessed, lastFetch>>
    PROVE  AccessedCovers' /\ RootCoherent'
  BY DEF CacheInv, AccessedCovers, RootCoherent, Upstream

\* A write through a handle leaves the root pad alone.
LEMMA PutRoot ==
    ASSUME HandlesInv, RootCovered, NEW d \in Open, NEW p \in PadMaps, NEW k, NEW v
    PROVE  Put(p, d, k, v)[Root] = p[Root]
  BY TopIsNotRoot, TopType, LayersAssumption DEF Put, PadMaps

\* What a read leaves in the root pad: the old entry or what upstream holds,
\* and new account entries only for accounts it records.
LEMMA FillRoot ==
    ASSUME TypeOK, NEW ch, NEW k \in Keys
    PROVE  /\ \A q \in Keys : Fill(ch, k)[Root][q] \in {pad[Root][q], Upstream[q]}
           /\ \A q \in AccountKeys :
                Fill(ch, k)[Root][q] # pad[Root][q] => Owner(q) \in Touched(ch, k)
  <1>1. CASE Hit(ch, k)
    BY <1>1 DEF Fill
  <1>2. CASE ~Hit(ch, k)
    <2>. DEFINE fresh(q) == \/ q = k
                            \/ /\ {q, k} \subseteq AccountKeys
                               /\ Owner(q) = Owner(k)
                               /\ pad[Root][q] = Absent
    <2>1. Fill(ch, k)[Root] = [q \in Keys |-> IF fresh(q) THEN Upstream[q] ELSE pad[Root][q]]
      BY <1>2, LayersAssumption DEF Fill, TypeOK
    <2>2. \A q \in AccountKeys : q \in Keys /\ (fresh(q) => k \in AccountKeys /\ Owner(q) = Owner(k))
      BY DEF Keys
    <2>3. k \in AccountKeys => Touched(ch, k) = {Owner(k)}
      BY <1>2 DEF Touched
    <2>. HIDE DEF fresh
    <2>. QED BY <2>1, <2>2, <2>3
  <1>. QED BY <1>1, <1>2

\* A step that changes the root pad only as a read does keeps it coherent.
LEMMA ReadKeepsRoot ==
    ASSUME TypeOK, CacheInv, NEW ch, NEW k \in Keys,
           pad'[Root] = Fill(ch, k)[Root],
           accessed' = accessed \cup Touched(ch, k),
           UNCHANGED <<bn, lastFetch>>
    PROVE  AccessedCovers' /\ RootCoherent'
  <1>1. AccessedCovers'
    BY FillRoot DEF CacheInv, AccessedCovers
  <1>2. RootCoherent'
    BY FillRoot DEF CacheInv, RootCoherent, Upstream
  <1>. QED BY <1>1, <1>2

\* InitState restarts Main; the root pad becomes that of p.
LEMMA RebaseRoot ==
    ASSUME HandlesInv, RootCovered, NEW l, NEW p \in PadMaps, NEW outcome,
           outcome \notin PanicOutcomes, Rebase(l, p, outcome)
    PROVE  RootCovered' /\ pad'[Root] = p[Root]
  <1>1. l # Root
    BY FreeIsNotRoot DEF Rebase
  <1>2. pad'[Root] = p[Root]
    BY <1>1, LayersAssumption DEF Rebase, Collect, PadMaps
  <1>3. RootCovered'
    BY DBsAssumption DEF Rebase, Restarted, RootCovered, Open, HandlesInv
  <1>. QED BY <1>2, <1>3

\* Pouring never reaches the root: ids lie above the floor.
LEMMA PourRoot ==
    ASSUME HandlesInv, NEW d \in Open, NEW i \in DOMAIN held[d]
    PROVE  Pour(chain[d], held[d][i])[Root] = pad[Root]
  <1>. DEFINE c == chain[d]
              h == held[d]
  <1>1. /\ d \in DBs /\ c \in Seq(Layers) /\ h \in Seq(Nat) /\ floor[d] \in Nat
        /\ HandleOK(c, h, floor[d]) /\ i \in 1 .. Len(h)
    BY DEF HandlesInv, Open
  <1>2. h[i] \in 1 .. Len(c) - 1
    BY <1>1, HeldId
  <1>3. \A n \in 2 .. Len(c) : c[n] # Root
    BY <1>1 DEF HandleOK
  <1>4. ~\E n \in h[i] + 1 .. Len(c) : c[n] = Root
    BY <1>2, <1>3
  <1>. QED BY <1>4, LayersAssumption DEF Pour

\* A re-fork that does not panic refreshes whatever it has to.
LEMMA ReforkRoot ==
    ASSUME HandlesInv, TypeOK, CacheInv, NEW n \in BlockNumbers, NEW l \in Layers,
           NEW o \in FetchOutcomes, o \notin PanicOutcomes,
           NEW ks \in KeyLines, NEW zs \in SUBSET Keys, Refork(n, l, o, ks, zs)
    PROVE  CacheInv'
  <1>. DEFINE slots == {k \in StateKeys : k \in ks \/ pad[Root][k] # Absent}
              acc == accessed \cup {Owner(k) : k \in slots}
              new == Prefetched(n, ks, acc, o, zs)
  <1>1. /\ RootCovered
        /\ \A k \in AccountKeys : pad[Root][k] # Absent => Owner(k) \in accessed
    BY DEF CacheInv, AccessedCovers
  <1>2. /\ bn' = n /\ lastFetch' = o /\ accessed' = acc
        /\ Rebase(l, [pad EXCEPT ![Root] = new], o)
        /\ o = "ok" => zs = {}
    BY DEF Refork, PanicOutcomes
  <1>3. RootCovered' /\ pad'[Root] = new
    <2>1. [pad EXCEPT ![Root] = new] \in PadMaps
      BY PrefetchedType
    <2>2. [pad EXCEPT ![Root] = new][Root] = new
      BY LayersAssumption DEF TypeOK
    <2>. HIDE DEF new
    <2>. QED BY <1>1, <1>2, <2>1, <2>2, RebaseRoot
  <1>4. ASSUME NEW k \in AccountKeys, new[k] # Absent PROVE Owner(k) \in acc
    <2>1. k \in Keys /\ (k \in slots => Owner(k) \in acc) /\ accessed \subseteq acc
      BY DEF Keys
    <2>2. \/ pad[Root][k] # Absent
          \/ k \in slots
          \/ Owner(k) \in acc
      <3>. HIDE DEF acc
      <3>. QED BY <1>4, <2>1 DEF Prefetched, PanicOutcomes
    <2>. QED BY <1>1, <2>1, <2>2
  <1>5. ASSUME o = "ok", NEW k \in Keys PROVE new[k] \in {Absent, UpstreamAt[n][k]}
    <2>1. CASE k \in AccountKeys
      <3>1. Owner(k) \in acc \/ pad[Root][k] = Absent
        BY <1>1, <2>1
      <3>. HIDE DEF acc
      <3>. QED BY <1>2, <1>5, <2>1, <3>1 DEF Prefetched
    <2>2. CASE k \in StateKeys
      BY <1>2, <1>5, <2>2 DEF Prefetched
    <2>. QED BY <2>1, <2>2 DEF Keys
  <1>. HIDE DEF new, acc
  <1>6. AccessedCovers'
    BY <1>2, <1>3, <1>4 DEF AccessedCovers
  <1>7. RootCoherent'
    BY <1>2, <1>3, <1>5 DEF RootCoherent, Upstream
  <1>. QED BY <1>3, <1>6, <1>7 DEF CacheInv

\* InitState keeps the root coherent.
LEMMA InitStateRoot ==
    ASSUME NoPanic, HandlesInv, TypeOK, CacheInv, InitState PROVE CacheInv'
  <1>. USE DEF CacheInv
  <1>1. ASSUME NEW l \in Layers, InitStateKeep(l) PROVE CacheInv'
    <2>1. "ok" \notin PanicOutcomes /\ pad \in PadMaps
      BY DEF PanicOutcomes, TypeOK, PadMaps
    <2>2. RootCovered' /\ pad'[Root] = pad[Root]
      BY <1>1, <2>1, RebaseRoot DEF InitStateKeep
    <2>. QED BY <1>1, <2>2, RootKept DEF InitStateKeep
  <1>2. ASSUME NEW l \in Layers, NEW o \in FetchOutcomes, InitStateClear(l, o)
        PROVE  CacheInv'
    <2>1. o = "ok" /\ o \notin PanicOutcomes
      BY <1>2 DEF InitStateClear, NoPanic, PanicOutcomes
    <2>2. [pad EXCEPT ![Root] = EmptyPad] \in PadMaps
      BY EmptyTypes DEF TypeOK, PadMaps
    <2>3. [pad EXCEPT ![Root] = EmptyPad][Root] = EmptyPad
      BY LayersAssumption DEF TypeOK
    <2>4. Rebase(l, [pad EXCEPT ![Root] = EmptyPad], o)
      BY <1>2, <2>1 DEF InitStateClear
    <2>5. RootCovered' /\ pad'[Root] = EmptyPad
      BY <2>1, <2>2, <2>3, <2>4, RebaseRoot
    <2>. QED BY <2>5 DEF AccessedCovers, RootCoherent, EmptyPad, Keys
  <1>3. ASSUME NEW n \in BlockNumbers, NEW l \in Layers, NEW o \in FetchOutcomes,
               NEW ks \in KeyLines, NEW zs \in SUBSET Keys, Refork(n, l, o, ks, zs)
        PROVE  CacheInv'
    BY <1>3, ReforkRoot DEF NoPanic
  <1>4. ASSUME InitFakeAccounts PROVE CacheInv'
    <2>. DEFINE ks == {<<"balance", a>> : a \in FakeAccounts}
                owners == {Owner(k) : k \in {k \in ks : ~Hit(chain[Main], k)}}
                filled == [pad EXCEPT ![Root] =
                    [q \in Keys |-> IF /\ q \in AccountKeys
                                       /\ Owner(q) \in owners
                                       /\ pad[Root][q] = Absent
                                    THEN Upstream[q] ELSE pad[Root][q]]]
                post(k) == Get(chain[Main], k) + FakeBalance
    <2>1. /\ pad' = [filled EXCEPT ![Top(Main)] =
                    [q \in Keys |-> IF q \in ks THEN post(q) ELSE filled[Top(Main)][q]]]
          /\ accessed' = accessed \cup owners
          /\ UNCHANGED <<bn, chain, floor, lastFetch>>
      BY <1>4 DEF InitFakeAccounts
    <2>2. Top(Main) # Root /\ Top(Main) \in Layers
      BY MainOpen, TopIsNotRoot, TopType
    <2>3. /\ DOMAIN filled = Layers
          /\ filled[Root] = [q \in Keys |-> IF /\ q \in AccountKeys
                                               /\ Owner(q) \in owners
                                               /\ pad[Root][q] = Absent
                                            THEN Upstream[q] ELSE pad[Root][q]]
      BY LayersAssumption DEF TypeOK
    <2>4. pad'[Root] = filled[Root]
      <3>. HIDE DEF filled, ks, owners, post
      <3>. QED BY <2>1, <2>2, <2>3, LayersAssumption
    <2>. HIDE DEF filled, ks, owners, post
    <2>5. AccessedCovers'
      BY <2>1, <2>3, <2>4 DEF AccessedCovers, Keys
    <2>6. RootCoherent'
      BY <2>1, <2>3, <2>4 DEF RootCoherent, Upstream
    <2>7. RootCovered'
      BY <2>1 DEF RootCovered, Open
    <2>. QED BY <2>5, <2>6, <2>7
  <1>. QED BY <1>1, <1>2, <1>3, <1>4 DEF InitState

\* Only open handles hold ids.
LEMMA HeldIsOpen ==
    ASSUME HandlesInv, NEW d \in DBs, held[d] # <<>> PROVE d \in Open
  <1>1. /\ held[d] \in Seq(Nat) /\ chain[d] \in Seq(Layers) /\ floor[d] \in Nat
        /\ HandleOK(chain[d], held[d], floor[d])
    BY DEF HandlesInv
  <1>2. 1 \in 1 .. Len(held[d])
    BY <1>1
  <1>3. Len(chain[d]) > 0
    BY <1>1, <1>2, HeldId
  <1>. QED BY <1>1, <1>3 DEF Open

\* Operations on revisions keep the root coherent.
LEMMA RevisionRoot ==
    ASSUME HandlesInv, TypeOK, CacheInv, NEW d \in DBs, Revision(d) PROVE CacheInv'
  <1>. USE DEF CacheInv
  <1>1. d \in Open
    <2>1. ASSUME NEW i \in DOMAIN held[d] PROVE d \in Open
      <3>1. held[d] # <<>>
        BY DEF HandlesInv
      <3>. QED BY <3>1, HeldIsOpen
    <2>. QED BY <2>1, HeldIsOpen DEF Revision, Snapshot, FrameReturns
  <1>2. UNCHANGED <<bn, accessed, floor, lastFetch>>
    BY DEF Revision, Snapshot, RevertToSnapshot, FrameReturns, MergeTo
  <1>3. RootCovered'
    <2>1. ASSUME NEW x \in DBs, x # d PROVE chain'[x] = chain[x]
      BY <2>1 DEF Revision, Snapshot, RevertToSnapshot, FrameReturns, MergeTo, HandlesInv
    <2>. QED BY <1>1, <1>2, <2>1 DEF RootCovered, Open
  <1>4. pad'[Root] = pad[Root]
    <2>1. ASSUME NEW l \in Layers, Snapshot(d, l) PROVE pad'[Root] = pad[Root]
      <3>1. l # Root
        BY <2>1, FreeIsNotRoot DEF Snapshot
      <3>. QED BY <2>1, <3>1, LayersAssumption DEF Snapshot, Derive, TypeOK
    <2>2. ASSUME NEW i \in DOMAIN held[d], RevertToSnapshot(d, i) PROVE pad'[Root] = pad[Root]
      BY <2>2, LayersAssumption DEF RevertToSnapshot, Keep, Collect
    <2>3. ASSUME FrameReturns(d) PROVE pad'[Root] = pad[Root]
      BY <2>3 DEF FrameReturns
    <2>4. ASSUME NEW i \in DOMAIN held[d], MergeTo(d, i) PROVE pad'[Root] = pad[Root]
      <3>1. pad'[Root] = Pour(chain[d], held[d][i])[Root]
        BY <2>4, LayersAssumption DEF MergeTo, Keep, Collect
      <3>. QED BY <1>1, <3>1, PourRoot
    <2>. QED BY <2>1, <2>2, <2>3, <2>4 DEF Revision
  <1>. QED BY <1>2, <1>3, <1>4, RootKept

\* Clones keep the root coherent.
LEMMA HandleRoot ==
    ASSUME HandlesInv, TypeOK, CacheInv, NEW d \in DBs, Handle(d) PROVE CacheInv'
  <1>. USE DEF CacheInv
  <1>1. ASSUME NEW e \in DBs, NEW ch \in Seq(Layers), ch # <<>>, NEW l \in Layers, NEW from,
               OpenAs(e, ch, l, from)
        PROVE  CacheInv'
    <2>1. l # Root
      BY <1>1, FreeIsNotRoot DEF OpenAs
    <2>2. pad'[Root] = pad[Root]
      BY <1>1, <2>1, LayersAssumption DEF OpenAs, Derive, TypeOK
    <2>3. UNCHANGED <<bn, accessed, lastFetch>>
      BY <1>1 DEF OpenAs
    <2>4. Len(ch) >= 1
      BY <1>1
    <2>5. /\ floor' = [floor EXCEPT ![e] = Len(ch)]
          /\ \A x \in DBs : x # e => chain'[x] = chain[x]
      BY <1>1 DEF OpenAs, HandlesInv
    <2>6. RootCovered'
      BY <2>4, <2>5 DEF RootCovered, Open, HandlesInv
    <2>. QED BY <2>2, <2>3, <2>6, RootKept
  <1>2. ASSUME NEW e \in DBs, NEW l \in Layers, Clone(d, e, l) PROVE CacheInv'
    <2>1. chain[d] \in Seq(Layers) /\ chain[d] # <<>>
      BY <1>2 DEF Clone, Open, HandlesInv
    <2>. QED BY <1>1, <1>2, <2>1 DEF Clone
  <1>3. ASSUME NEW e \in DBs, NEW l \in Layers, CloneFromRoot(d, e, l) PROVE CacheInv'
    <2>1. <<Root>> \in Seq(Layers) /\ <<Root>> # <<>>
      BY LayersAssumption
    <2>. QED BY <1>1, <1>3, <2>1 DEF CloneFromRoot
  <1>4. ASSUME Drop(d) PROVE CacheInv'
    <2>1. pad'[Root] = pad[Root] /\ UNCHANGED <<bn, accessed, lastFetch>>
      BY <1>4, LayersAssumption DEF Drop, Keep, Collect
    <2>2. /\ chain'[d] = <<>>
          /\ \A x \in DBs : x # d => chain'[x] = chain[x] /\ floor'[x] = floor[x]
      BY <1>4 DEF Drop, HandlesInv
    <2>3. RootCovered'
      BY <2>2 DEF RootCovered, Open
    <2>. QED BY <2>1, <2>3, RootKept
  <1>. QED BY <1>2, <1>3, <1>4 DEF Handle

\* Reads, writes and logs keep the root coherent.
LEMMA AccessRoot ==
    ASSUME HandlesInv, TypeOK, CacheInv, NEW d \in DBs, Access(d) \/ Record(d) PROVE CacheInv'
  <1>. USE DEF CacheInv
  <1>1. RootCovered'
    BY DEF Access, Set, Read, AddBalance, Record, StartLogCollection, AddLog, AddReceipt,
           RootCovered, Open
  <1>2. ASSUME NEW k \in Keys, NEW v \in Values, Set(d, k, v) PROVE CacheInv'
    <2>1. pad \in PadMaps
      BY DEF TypeOK, PadMaps
    <2>2. pad'[Root] = pad[Root] /\ UNCHANGED <<bn, accessed, lastFetch>>
      BY <1>2, <2>1, PutRoot DEF Set
    <2>. QED BY <1>1, <2>2, RootKept
  <1>3. ASSUME NEW k \in Keys, Read(d, k) PROVE CacheInv'
    BY <1>1, <1>3, ReadKeepsRoot DEF Read
  <1>4. ASSUME NEW a \in Accounts, NEW delta \in -MaxValue .. MaxValue, AddBalance(d, a, delta)
        PROVE  CacheInv'
    <2>. DEFINE k == <<"balance", a>>
                post == Abs(Get(chain[d], k) + delta)
    <2>1. /\ d \in Open /\ k \in Keys
          /\ pad' = Put(Fill(chain[d], k), d, k, post)
          /\ accessed' = accessed \cup Touched(chain[d], k)
          /\ UNCHANGED <<bn, lastFetch>>
      BY <1>4 DEF AddBalance
    <2>. HIDE DEF k, post
    <2>2. pad'[Root] = Fill(chain[d], k)[Root]
      BY <2>1, FillType, PutRoot
    <2>. QED BY <1>1, <2>1, <2>2, ReadKeepsRoot
  <1>5. ASSUME Record(d) PROVE CacheInv'
    <2>1. UNCHANGED <<pad, bn, accessed, lastFetch>>
      BY <1>5 DEF Record, StartLogCollection, AddLog, AddReceipt
    <2>. QED BY <1>1, <2>1, RootKept
  <1>. QED BY <1>2, <1>3, <1>4, <1>5 DEF Access

\* A stray revert cuts Main's path, and above its floor.
LEMMA StrayCut ==
    ASSUME HandlesInv, LapsedHigh, NEW id, NEW j, RevertLapsed(id, j)
    PROVE  /\ id \in 1 .. Len(chain[Main]) - 1 /\ floor[Main] < id
           /\ j \in 0 .. Len(held[Main]) /\ held' = [held EXCEPT ![Main] = SubSeq(@, 1, j)]
           /\ \A k \in DOMAIN held[Main] : k <= j <=> held[Main][k] < id
           /\ chain' = [chain EXCEPT ![Main] = SubSeq(chain[Main], 1, id)]
           /\ Keep(pad, chain') /\ UNCHANGED <<bn, accessed, keyFile, floor, origin, lastFetch>>
  <1>1. id \in lapsed /\ id \in 1 .. Len(chain[Main]) - 1 /\ chain[Main] \in Seq(Layers)
    BY DBsAssumption DEF RevertLapsed, HandlesInv
  <1>2. AncestorFor(chain[Main], id) = id
    BY <1>1, AncestorFound
  <1>3. floor \in [DBs -> Nat] /\ floor[Main] = 1 /\ 1 < id
    BY <1>1 DEF HandlesInv, LapsedHigh
  <1>4. floor' = [floor EXCEPT ![Main] = floor[Main]]
    <2>1. floor' = [floor EXCEPT ![Main] = IF id <= floor[Main] THEN id - 1 ELSE floor[Main]]
      BY DEF RevertLapsed
    <2>2. ~(id <= floor[Main])
      BY <1>1, <1>3
    <2>. QED BY <2>1, <2>2, Zenon
  <1>5. UNCHANGED floor
    BY <1>3, <1>4
  <1>. QED BY <1>1, <1>2, <1>3, <1>5 DEF RevertLapsed

\* Overlapping callers keep the root coherent.
LEMMA OverlapRoot ==
    ASSUME HandlesInv, TypeOK, CacheInv, LapsedHigh, Overlap PROVE CacheInv'
  <1>. USE DEF CacheInv
  <1>1. ASSUME NEW id, NEW j, RevertLapsed(id, j) PROVE CacheInv'
    <2>1. /\ chain' = [chain EXCEPT ![Main] = SubSeq(chain[Main], 1, id)]
          /\ Keep(pad, chain') /\ UNCHANGED <<bn, accessed, floor, lastFetch>>
      BY <1>1, StrayCut
    <2>2. pad'[Root] = pad[Root]
      BY <2>1, LayersAssumption DEF Keep, Collect
    <2>3. RootCovered'
      <3>1. \A x \in DBs : x # Main => chain'[x] = chain[x]
        BY <2>1 DEF HandlesInv
      <3>2. Main \in Open
        BY MainOpen
      <3>. QED BY <2>1, <3>1, <3>2 DEF RootCovered, Open
    <2>. QED BY <2>1, <2>2, <2>3, RootKept
  <1>2. ASSUME NEW id, RevertRunsOff(id) \/ LapsedReturns(id) PROVE CacheInv'
    <2>1. UNCHANGED <<pad, bn, chain, accessed, floor, lastFetch>>
      BY <1>2 DEF RevertRunsOff, LapsedReturns
    <2>. QED BY <2>1 DEF RootCovered, AccessedCovers, RootCoherent, Upstream, Open
  <1>. QED BY <1>1, <1>2 DEF Overlap

\* The floor of Main does not move when no prefetch panics.
LEMMA FloorStep ==
    ASSUME NoPanic, HandlesInv, LapsedHigh, [Next]_vars PROVE floor'[Main] = 1
  <1>0. floor \in [DBs -> Nat] /\ floor[Main] = 1 /\ Main \in DBs /\ chain[Main] # <<>>
    BY DBsAssumption DEF HandlesInv, LapsedHigh
  <1>1. CASE UNCHANGED vars
    BY <1>0, <1>1 DEF vars
  <1>2. CASE InitState
    <2>1. ASSUME NEW l, NEW p, NEW o, o \notin PanicOutcomes, Rebase(l, p, o) PROVE floor'[Main] = 1
      BY <1>0, <2>1 DEF Rebase
    <2>2. "ok" \notin PanicOutcomes /\ \A o \in FetchOutcomes : o \notin PanicOutcomes
      BY DEF PanicOutcomes, NoPanic
    <2>3. ASSUME NEW l \in Layers, InitStateKeep(l) PROVE floor'[Main] = 1
      BY <2>1, <2>2, <2>3 DEF InitStateKeep
    <2>4. ASSUME NEW l \in Layers, NEW o \in FetchOutcomes, InitStateClear(l, o) PROVE floor'[Main] = 1
      BY <2>1, <2>2, <2>4 DEF InitStateClear
    <2>5. ASSUME NEW n \in BlockNumbers, NEW l \in Layers, NEW o \in FetchOutcomes,
                 NEW ks \in KeyLines, NEW zs \in SUBSET Keys, Refork(n, l, o, ks, zs)
          PROVE  floor'[Main] = 1
      BY <2>1, <2>2, <2>5 DEF Refork
    <2>6. ASSUME InitFakeAccounts PROVE floor'[Main] = 1
      BY <1>0, <2>6 DEF InitFakeAccounts
    <2>. QED BY <1>2, <2>3, <2>4, <2>5, <2>6 DEF InitState
  <1>3. ASSUME NEW d \in DBs, Access(d) \/ Record(d) \/ Revision(d) PROVE floor'[Main] = 1
    <2>1. CASE Access(d)
      BY <1>0, <2>1 DEF Access, Set, Read, AddBalance
    <2>2. CASE Record(d)
      BY <1>0, <2>2 DEF Record, StartLogCollection, AddLog, AddReceipt
    <2>3. CASE Revision(d)
      BY <1>0, <2>3 DEF Revision, Snapshot, RevertToSnapshot, FrameReturns, MergeTo
    <2>. QED BY <1>3, <2>1, <2>2, <2>3
  <1>4. ASSUME NEW d \in DBs, Handle(d) PROVE floor'[Main] = 1
    <2>1. ASSUME NEW e, NEW ch, NEW l, NEW from, OpenAs(e, ch, l, from) PROVE floor'[Main] = 1
      <3>1. e # Main
        BY <1>0, <2>1 DEF OpenAs, Open
      <3>. QED BY <1>0, <2>1, <3>1 DEF OpenAs
    <2>2. ASSUME Drop(d) PROVE floor'[Main] = 1
      BY <1>0, <2>2 DEF Drop
    <2>. QED BY <1>4, <2>1, <2>2 DEF Handle, Clone, CloneFromRoot
  <1>5. CASE Overlap
    <2>1. ASSUME NEW id, NEW j, RevertLapsed(id, j) PROVE floor'[Main] = 1
      BY <1>0, <2>1, StrayCut
    <2>2. ASSUME NEW id, RevertRunsOff(id) \/ LapsedReturns(id) PROVE floor'[Main] = 1
      BY <1>0, <2>2 DEF RevertRunsOff, LapsedReturns
    <2>. QED BY <1>5, <2>1, <2>2 DEF Overlap
  <1>. QED BY <1>1, <1>2, <1>3, <1>4, <1>5 DEF Next

\* The root invariant is inductive.
LEMMA RootStep ==
    ASSUME NoPanic
    PROVE  (HandlesInv /\ TypeOK /\ RootInv) /\ [Next]_vars => RootInv'
  <1>. SUFFICES ASSUME HandlesInv, TypeOK, CacheInv, LapsedHigh, [Next]_vars PROVE RootInv'
    BY DEF RootInv
  <1>1. CASE UNCHANGED vars
    BY <1>1 DEF vars, notes, RootInv, CacheInv, LapsedHigh, RootCovered, AccessedCovers,
                RootCoherent, Upstream, Open
  <1>2. CASE Next
    <2>1. CacheInv'
      BY <1>2, InitStateRoot, AccessRoot, RevisionRoot, HandleRoot, OverlapRoot DEF Next
    <2>2. \A j \in 1 .. Len(held[Main]) : 1 < held[Main][j]
      <3>1. /\ held[Main] \in Seq(Nat) /\ floor[Main] = 1
            /\ HandleOK(chain[Main], held[Main], floor[Main])
        BY DBsAssumption DEF HandlesInv, LapsedHigh
      <3>. QED BY <3>1 DEF HandleOK
    <2>3. \A id \in lapsed' : 1 < id
      BY <2>2, LapsedFrom DEF LapsedHigh
    <2>4. floor'[Main] = 1
      BY FloorStep
    <2>. QED BY <2>1, <2>3, <2>4 DEF RootInv, LapsedHigh
  <1>. QED BY <1>1, <1>2

\* The root invariant holds initially.
LEMMA RootInit == Init => RootInv
  <1>. SUFFICES ASSUME Init PROVE RootInv
    OBVIOUS
  <1>1. pad[Root] = EmptyPad
    BY LayersAssumption DEF Init
  <1>2. AccessedCovers /\ RootCoherent
    BY <1>1 DEF EmptyPad, AccessedCovers, RootCoherent, Keys
  <1>3. RootCovered
    BY DEF Init, RootCovered, Open
  <1>4. LapsedHigh
    BY DBsAssumption DEF Init, LapsedHigh
  <1>. QED BY <1>2, <1>3, <1>4 DEF RootInv, CacheInv

\* If no prefetch panics the root pad never mixes heights, whatever the
\* interleaving of requests, re-forks and failed account fetches: after a
\* re-fork that ended well every entry is what upstream holds at the new
\* height.
THEOREM RootCoherence == ASSUME NoPanic PROVE Spec => []RootCoherent
  <1>1. RootInv => RootCoherent
    BY DEF RootInv, CacheInv
  <1>2. (HandlesInv /\ TypeOK /\ RootInv) /\ [Next]_vars => RootInv'
    BY RootStep
  <1>. QED BY <1>1, <1>2, HandlesInit, HandlesStep, TypeInit, TypeStep, RootInit, PTL DEF Spec

\* If no prefetch panics, every id of a caller that no reset and no other
\* caller overtook names a proper ancestor above the handle's floor: its
\* revert finds its layer, for any number of layers, handles and calls.  An
\* overtaken caller of Main may find no layer and panic, but wherever its
\* walk does end Main keeps the layer that protects the root.
THEOREM RevisionsSafe == ASSUME NoPanic PROVE Spec => []RevisionsValid
  <1>1. HandlesInv /\ RootInv => RevisionsValid
    <2>. SUFFICES ASSUME HandlesInv, RootInv PROVE RevisionsValid
      OBVIOUS
    <2>1. ASSUME NEW d \in DBs, NEW i \in DOMAIN held[d]
          PROVE  /\ floor[d] < held[d][i] /\ held[d][i] < Len(chain[d])
                 /\ \A j \in 1 .. i - 1 : held[d][j] < held[d][i]
      <3>1. held[d] \in Seq(Nat) /\ HandleOK(chain[d], held[d], floor[d])
        BY DEF HandlesInv
      <3>2. i \in 1 .. Len(held[d])
        BY <3>1
      <3>. QED BY <3>1, <3>2 DEF HandleOK
    <2>2. \A id \in lapsed : floor[Main] < id
      BY DEF RootInv, LapsedHigh
    <2>. QED BY <2>1, <2>2 DEF RevisionsValid
  <1>2. (HandlesInv /\ TypeOK /\ RootInv) /\ [Next]_vars => RootInv'
    BY RootStep
  <1>. QED BY <1>1, <1>2, HandlesInit, HandlesStep, TypeInit, TypeStep, RootInit, PTL DEF Spec

-----------------------------------------------------------------------------
(* Who sees whose writes. *)

\* From its floor upwards a handle's path is its own: another handle has
\* such a layer on its path only if it was cloned from it.
OwnershipOK ==
    \A d, e \in Open : \A i \in floor[d] + 1 .. Len(chain[d]), j \in 1 .. Len(chain[e]) :
        d # e /\ chain[d][i] = chain[e][j] => d \in origin[e]

OwnInv == HandlesInv /\ TypeOK /\ RootInv /\ OwnershipOK

\* Layers on a path are live.
LEMMA OnPath ==
    ASSUME NEW ch \in [DBs -> Seq(Layers)], NEW d \in DBs, NEW i \in 1 .. Len(ch[d])
    PROVE  ch[d][i] \in LiveLayers(ch)
  BY DEF LiveLayers, ToSet

\* A free layer is on no path.
LEMMA FreeIsNotOnPath ==
    ASSUME NEW ch \in [DBs -> Seq(Layers)], NEW l \in FreeLayers(ch)
    PROVE  \A x \in DBs : \A i \in 1 .. Len(ch[x]) : ch[x][i] # l
  BY OnPath DEF FreeLayers

\* Own layers are not the root.
LEMMA OwnIsNotRoot ==
    ASSUME HandlesInv, RootCovered, NEW d \in Open,
           NEW i \in floor[d] + 1 .. Len(chain[d])
    PROVE  chain[d][i] # Root
  <1>1. /\ d \in DBs /\ chain[d] \in Seq(Layers) /\ chain[d] # <<>>
        /\ floor[d] \in Nat /\ floor[d] >= 1
        /\ HandleOK(chain[d], held[d], floor[d])
    BY DEF HandlesInv, Open, RootCovered
  <1>2. i \in 2 .. Len(chain[d])
    BY <1>1
  <1>. QED BY <1>1, <1>2 DEF HandleOK

\* Cutting paths keeps ownership.
LEMMA CutOwn ==
    ASSUME OwnInv, NEW d \in Open, NEW n \in 1 .. Len(chain[d]),
           chain' = [chain EXCEPT ![d] = SubSeq(chain[d], 1, n)],
           UNCHANGED <<floor, origin>>
    PROVE  OwnershipOK'
  <1>1. d \in DBs /\ chain[d] \in Seq(Layers) /\ n \in 0 .. Len(chain[d])
    BY DEF OwnInv, HandlesInv, Open
  <1>2. /\ Len(SubSeq(chain[d], 1, n)) = n
        /\ \A i \in 1 .. n : SubSeq(chain[d], 1, n)[i] = chain[d][i]
    BY <1>1, Prefix
  <1>3. ASSUME NEW x \in DBs
        PROVE  /\ Len(chain'[x]) <= Len(chain[x])
               /\ \A i \in 1 .. Len(chain'[x]) : chain'[x][i] = chain[x][i]
               /\ Len(chain'[x]) \in Nat /\ Len(chain[x]) \in Nat
               /\ floor[x] \in Nat
    BY <1>1, <1>2 DEF OwnInv, HandlesInv
  <1>4. Open' \subseteq Open
    BY DEF Open, OwnInv, HandlesInv
  <1>. SUFFICES ASSUME NEW x \in Open', NEW y \in Open',
                       NEW i \in floor[x] + 1 .. Len(chain'[x]), NEW j \in 1 .. Len(chain'[y]),
                       x # y, chain'[x][i] = chain'[y][j]
                PROVE  x \in origin[y]
    BY DEF OwnershipOK
  <1>5. x \in Open /\ y \in Open /\ x \in DBs /\ y \in DBs
    BY <1>4 DEF Open
  <1>6. /\ i \in floor[x] + 1 .. Len(chain[x]) /\ i \in 1 .. Len(chain'[x])
        /\ j \in 1 .. Len(chain[y])
    BY <1>3, <1>5
  <1>7. chain[x][i] = chain[y][j]
    BY <1>3, <1>5, <1>6
  <1>. QED BY <1>5, <1>6, <1>7 DEF OwnInv, OwnershipOK

\* Putting a free layer on top of a handle's path keeps ownership.
LEMMA SnapshotOwn ==
    ASSUME OwnInv, NEW d \in DBs, NEW l \in Layers, Snapshot(d, l)
    PROVE  OwnershipOK'
  <1>. DEFINE c == chain[d]
  <1>1. /\ d \in Open /\ l \in FreeLayers(chain)
        /\ chain' = [chain EXCEPT ![d] = Append(c, l)] /\ UNCHANGED <<floor, origin>>
    BY DEF Snapshot
  <1>2. \A x \in DBs : chain[x] \in Seq(Layers) /\ floor[x] \in Nat
    BY DEF OwnInv, HandlesInv
  <1>3. \A x \in DBs : \A i \in 1 .. Len(chain[x]) : chain[x][i] # l
    BY <1>1, FreeIsNotOnPath DEF OwnInv, HandlesInv
  <1>4. /\ Len(chain'[d]) = Len(c) + 1 /\ chain'[d][Len(c) + 1] = l
        /\ \A i \in 1 .. Len(c) : chain'[d][i] = c[i]
        /\ \A x \in DBs : x # d => chain'[x] = chain[x]
    BY <1>1, <1>2 DEF OwnInv, HandlesInv
  <1>. SUFFICES ASSUME NEW x \in Open', NEW y \in Open',
                       NEW i \in floor[x] + 1 .. Len(chain'[x]), NEW j \in 1 .. Len(chain'[y]),
                       x # y, chain'[x][i] = chain'[y][j]
                PROVE  x \in origin[y]
    BY <1>1 DEF OwnershipOK
  <1>5. x \in DBs /\ y \in DBs /\ x \in Open /\ y \in Open
    BY <1>1, <1>4 DEF Open
  <1>6. CASE x # d /\ y # d
    BY <1>4, <1>5, <1>6 DEF OwnInv, OwnershipOK
  <1>7. CASE x = d
    <2>1. y # d /\ chain'[y] = chain[y] /\ i \in 1 .. Len(c) + 1
      BY <1>2, <1>4, <1>5, <1>7
    <2>2. i # Len(c) + 1
      BY <1>3, <1>4, <1>5, <1>7, <2>1
    <2>3. i \in floor[x] + 1 .. Len(chain[x]) /\ chain[x][i] = chain[y][j]
      BY <1>2, <1>4, <1>7, <2>1, <2>2
    <2>. QED BY <1>5, <2>1, <2>3 DEF OwnInv, OwnershipOK
  <1>8. CASE y = d
    <2>1. x # d /\ chain'[x] = chain[x] /\ j \in 1 .. Len(c) + 1 /\ i \in 1 .. Len(chain[x])
      BY <1>2, <1>4, <1>5, <1>8
    <2>2. j # Len(c) + 1
      BY <1>3, <1>4, <1>5, <1>8, <2>1
    <2>3. j \in 1 .. Len(chain[y]) /\ chain[x][i] = chain[y][j]
      BY <1>2, <1>4, <1>8, <2>1, <2>2
    <2>. QED BY <1>5, <2>1, <2>3 DEF OwnInv, OwnershipOK
  <1>. QED BY <1>6, <1>7, <1>8

\* Opening a handle e over the path ch keeps ownership, if from names
\* everyone whose own layers are on that path.
LEMMA OpenAsOwn ==
    ASSUME OwnInv, NEW e \in DBs, NEW ch \in Seq(Layers), NEW l \in Layers,
           NEW from \in SUBSET DBs, OpenAs(e, ch, l, from),
           \A j \in 1 .. Len(ch) : ch[j] \in LiveLayers(chain) \cup {Root},
           \A x \in Open : \A i \in floor[x] + 1 .. Len(chain[x]), j \in 1 .. Len(ch) :
                chain[x][i] = ch[j] => x \in from
    PROVE  OwnershipOK'
  <1>1. /\ e \notin Open /\ l \in FreeLayers(chain)
        /\ chain' = [chain EXCEPT ![e] = Append(ch, l)]
        /\ floor' = [floor EXCEPT ![e] = Len(ch)]
        /\ origin' = [origin EXCEPT ![e] = from]
    BY DEF OpenAs
  <1>2. /\ \A x \in DBs : chain[x] \in Seq(Layers) /\ floor[x] \in Nat
        /\ origin \in [DBs -> SUBSET DBs]
    BY DEF OwnInv, HandlesInv, TypeOK
  <1>3. \A x \in DBs : \A i \in 1 .. Len(chain[x]) : chain[x][i] # l
    BY <1>1, FreeIsNotOnPath DEF OwnInv, HandlesInv
  <1>4. /\ Len(chain'[e]) = Len(ch) + 1 /\ chain'[e][Len(ch) + 1] = l
        /\ \A j \in 1 .. Len(ch) : chain'[e][j] = ch[j]
        /\ floor'[e] = Len(ch) /\ origin'[e] = from
        /\ \A x \in DBs : x # e =>
            chain'[x] = chain[x] /\ floor'[x] = floor[x] /\ origin'[x] = origin[x]
    BY <1>1, <1>2 DEF OwnInv, HandlesInv
  <1>. SUFFICES ASSUME NEW x \in Open', NEW y \in Open',
                       NEW i \in floor'[x] + 1 .. Len(chain'[x]), NEW j \in 1 .. Len(chain'[y]),
                       x # y, chain'[x][i] = chain'[y][j]
                PROVE  x \in origin'[y]
    BY DEF OwnershipOK
  <1>5. x \in DBs /\ y \in DBs /\ (x # e => x \in Open) /\ (y # e => y \in Open)
    BY <1>4 DEF Open
  <1>6. CASE x # e /\ y # e
    <2>1. /\ x \in Open /\ y \in Open /\ chain'[x] = chain[x] /\ floor'[x] = floor[x]
          /\ chain'[y] = chain[y] /\ origin'[y] = origin[y]
      BY <1>4, <1>5, <1>6
    <2>. QED BY <2>1 DEF OwnInv, OwnershipOK
  <1>7. CASE x = e
    <2>1. i = Len(ch) + 1
      BY <1>4, <1>7
    <2>2. y # e /\ chain'[y] = chain[y] /\ j \in 1 .. Len(chain[y])
      BY <1>4, <1>5, <1>7
    <2>. QED BY <1>3, <1>4, <1>5, <1>7, <2>1, <2>2
  <1>8. CASE y = e
    <2>1. /\ x # e /\ x \in Open /\ chain'[x] = chain[x] /\ floor'[x] = floor[x]
          /\ j \in 1 .. Len(ch) + 1 /\ i \in 1 .. Len(chain[x])
      BY <1>2, <1>4, <1>5, <1>8
    <2>2. j # Len(ch) + 1
      BY <1>3, <1>4, <1>5, <1>8, <2>1
    <2>3. j \in 1 .. Len(ch) /\ chain[x][i] = ch[j]
      BY <1>4, <1>8, <2>1, <2>2
    <2>. QED BY <1>4, <1>8, <2>1, <2>3
  <1>. QED BY <1>6, <1>7, <1>8

\* Restarting Main keeps ownership: its new layer is nobody else's.
LEMMA RebaseOwn ==
    ASSUME OwnInv, NEW l \in Layers, NEW p, NEW outcome,
           outcome \notin PanicOutcomes, Rebase(l, p, outcome)
    PROVE  OwnershipOK'
  <1>. DEFINE rest == [chain EXCEPT ![Main] = <<Root>>]
  <1>1. /\ l \in FreeLayers(rest)
        /\ chain' = [chain EXCEPT ![Main] = <<Root, l>>]
        /\ floor' = [floor EXCEPT ![Main] = 1]
        /\ origin' = [x \in DBs |-> origin[x] \ {Main}]
    BY DEF Rebase, Restarted
  <1>2. /\ \A x \in DBs : chain[x] \in Seq(Layers) /\ floor[x] \in Nat
        /\ origin \in [DBs -> SUBSET DBs] /\ rest \in [DBs -> Seq(Layers)]
        /\ \A x \in DBs : x # Main => rest[x] = chain[x]
    <2>1. <<Root>> \in Seq(Layers)
      BY LayersAssumption
    <2>2. chain \in [DBs -> Seq(Layers)] /\ floor \in [DBs -> Nat]
      BY DEF OwnInv, HandlesInv
    <2>3. origin \in [DBs -> SUBSET DBs]
      BY DEF OwnInv, TypeOK
    <2>. QED BY <2>1, <2>2, <2>3
  <1>3. l # Root /\ \A x \in DBs : x # Main => \A i \in 1 .. Len(chain[x]) : chain[x][i] # l
    <2>1. l # Root
      BY <1>1 DEF FreeLayers
    <2>. HIDE DEF rest
    <2>2. \A x \in DBs : \A i \in 1 .. Len(rest[x]) : rest[x][i] # l
      BY <1>1, <1>2, FreeIsNotOnPath
    <2>. QED BY <1>2, <2>1, <2>2
  <1>4. /\ chain'[Main] = <<Root, l>> /\ floor'[Main] = 1
        /\ \A x \in DBs : x # Main =>
            chain'[x] = chain[x] /\ floor'[x] = floor[x] /\ origin'[x] = origin[x] \ {Main}
    BY <1>1, DBsAssumption DEF OwnInv, HandlesInv
  <1>. SUFFICES ASSUME NEW x \in Open', NEW y \in Open',
                       NEW i \in floor'[x] + 1 .. Len(chain'[x]), NEW j \in 1 .. Len(chain'[y]),
                       x # y, chain'[x][i] = chain'[y][j]
                PROVE  x \in origin'[y]
    BY DEF OwnershipOK
  <1>5. x \in DBs /\ y \in DBs /\ (x # Main => x \in Open) /\ (y # Main => y \in Open)
    BY <1>4 DEF Open
  <1>6. CASE x # Main /\ y # Main
    BY <1>4, <1>5, <1>6 DEF OwnInv, OwnershipOK
  <1>7. CASE x = Main
    <2>1. i = 2 /\ chain'[x][i] = l
      BY <1>4, <1>7
    <2>2. y # Main /\ chain'[y] = chain[y]
      BY <1>4, <1>5, <1>7
    <2>. QED BY <1>3, <1>5, <2>1, <2>2
  <1>8. CASE y = Main
    <2>1. /\ x # Main /\ x \in Open /\ chain'[x] = chain[x]
          /\ i \in floor[x] + 1 .. Len(chain[x]) /\ i \in 1 .. Len(chain[x])
      BY <1>2, <1>4, <1>5, <1>8
    <2>2. chain'[y][j] \in {Root, l}
      BY <1>4, <1>8
    <2>3. chain[x][i] # Root
      BY <2>1, OwnIsNotRoot DEF OwnInv, RootInv, CacheInv
    <2>. QED BY <1>3, <1>5, <2>1, <2>2, <2>3
  <1>. QED BY <1>6, <1>7, <1>8

\* Ownership survives operations on revisions.
LEMMA RevisionOwn ==
    ASSUME OwnInv, NEW d \in DBs, Revision(d) PROVE OwnershipOK'
  <1>. USE DEF OwnInv
  <1>0. ASSUME NEW i \in DOMAIN held[d]
        PROVE  /\ d \in Open /\ chain[d] \in Seq(Layers)
               /\ held[d][i] \in 1 .. Len(chain[d]) - 1
    <2>1. /\ held[d] \in Seq(Nat) /\ chain[d] \in Seq(Layers) /\ floor[d] \in Nat
          /\ HandleOK(chain[d], held[d], floor[d])
      BY DEF HandlesInv
    <2>2. i \in 1 .. Len(held[d]) /\ held[d] # <<>>
      BY <2>1
    <2>. QED BY <2>1, <2>2, HeldId, HeldIsOpen
  <1>1. ASSUME NEW l \in Layers, Snapshot(d, l) PROVE OwnershipOK'
    BY <1>1, SnapshotOwn
  <1>2. ASSUME NEW i \in DOMAIN held[d], RevertToSnapshot(d, i) PROVE OwnershipOK'
    <2>1. AncestorFor(chain[d], held[d][i]) = held[d][i]
      BY <1>0, AncestorFound
    <2>2. chain' = [chain EXCEPT ![d] = SubSeq(chain[d], 1, held[d][i])]
      BY <1>2, <2>1 DEF RevertToSnapshot
    <2>3. held[d][i] \in 1 .. Len(chain[d]) /\ UNCHANGED <<floor, origin>>
      BY <1>0, <1>2 DEF RevertToSnapshot
    <2>. QED BY <1>0, <2>2, <2>3, CutOwn
  <1>3. ASSUME FrameReturns(d) PROVE OwnershipOK'
    BY <1>3 DEF FrameReturns, OwnershipOK, Open
  <1>4. ASSUME NEW i \in DOMAIN held[d], MergeTo(d, i) PROVE OwnershipOK'
    <2>1. /\ chain' = [chain EXCEPT ![d] = SubSeq(chain[d], 1, held[d][i] + 1)]
          /\ UNCHANGED <<floor, origin>>
      BY <1>4 DEF MergeTo
    <2>2. held[d][i] + 1 \in 1 .. Len(chain[d])
      BY <1>0
    <2>. QED BY <1>0, <2>1, <2>2, CutOwn
  <1>. QED BY <1>1, <1>2, <1>3, <1>4 DEF Revision

\* Ownership survives making and dropping clones.
LEMMA HandleOwn ==
    ASSUME OwnInv, NEW d \in DBs, Handle(d) PROVE OwnershipOK'
  <1>. USE DEF OwnInv
  <1>0. /\ origin \in [DBs -> SUBSET DBs] /\ chain \in [DBs -> Seq(Layers)]
        /\ floor \in [DBs -> Nat]
    BY DEF TypeOK
  <1>1. ASSUME NEW e \in DBs, NEW l \in Layers, Clone(d, e, l) PROVE OwnershipOK'
    <2>1. d \in Open /\ OpenAs(e, chain[d], l, origin[d] \cup {d})
      BY <1>1 DEF Clone
    <2>2. \A j \in 1 .. Len(chain[d]) : chain[d][j] \in LiveLayers(chain) \cup {Root}
      BY <1>0, OnPath
    <2>3. ASSUME NEW x \in Open, NEW i \in floor[x] + 1 .. Len(chain[x]),
                 NEW j \in 1 .. Len(chain[d]), chain[x][i] = chain[d][j]
          PROVE  x \in origin[d] \cup {d}
      BY <2>1, <2>3 DEF OwnershipOK
    <2>4. chain[d] \in Seq(Layers) /\ origin[d] \cup {d} \in SUBSET DBs
      BY <1>0
    <2>. QED BY <2>1, <2>2, <2>3, <2>4, OpenAsOwn
  <1>2. ASSUME NEW e \in DBs, NEW l \in Layers, CloneFromRoot(d, e, l) PROVE OwnershipOK'
    <2>1. OpenAs(e, <<Root>>, l, {}) /\ <<Root>> \in Seq(Layers) /\ {} \in SUBSET DBs
      BY <1>2, LayersAssumption DEF CloneFromRoot
    <2>2. \A j \in 1 .. Len(<<Root>>) : <<Root>>[j] = Root
      OBVIOUS
    <2>3. \A j \in 1 .. Len(<<Root>>) : <<Root>>[j] \in LiveLayers(chain) \cup {Root}
      BY <2>2
    <2>4. \A x \in Open : \A i \in floor[x] + 1 .. Len(chain[x]) : chain[x][i] # Root
      BY OwnIsNotRoot DEF RootInv, CacheInv
    <2>5. \A x \in Open : \A i \in floor[x] + 1 .. Len(chain[x]), j \in 1 .. Len(<<Root>>) :
            chain[x][i] = <<Root>>[j] => x \in {}
      BY <2>2, <2>4
    <2>. QED BY <2>1, <2>3, <2>5, OpenAsOwn, ZenonT(40)
  <1>3. ASSUME Drop(d) PROVE OwnershipOK'
    <2>1. /\ chain'[d] = <<>>
          /\ \A x \in DBs : x # d =>
                chain'[x] = chain[x] /\ floor'[x] = floor[x] /\ origin'[x] = origin[x] \ {d}
      BY <1>0, <1>3 DEF Drop
    <2>. SUFFICES ASSUME NEW x \in Open', NEW y \in Open',
                         NEW i \in floor'[x] + 1 .. Len(chain'[x]), NEW j \in 1 .. Len(chain'[y]),
                         x # y, chain'[x][i] = chain'[y][j]
                  PROVE  x \in origin'[y]
      BY DEF OwnershipOK
    <2>2. x \in DBs /\ y \in DBs /\ x # d /\ y # d /\ x \in Open /\ y \in Open
      BY <2>1 DEF Open
    <2>. QED BY <2>1, <2>2 DEF OwnershipOK
  <1>. QED BY <1>1, <1>2, <1>3 DEF Handle

\* Ownership survives every step when no prefetch panics.
LEMMA OwnStep ==
    ASSUME NoPanic PROVE OwnInv /\ [Next]_vars => OwnershipOK'
  <1>. SUFFICES ASSUME OwnInv, [Next]_vars PROVE OwnershipOK'
    OBVIOUS
  <1>1. ASSUME UNCHANGED <<chain, floor, origin>> PROVE OwnershipOK'
    BY <1>1 DEF OwnInv, OwnershipOK, Open
  <1>2. CASE UNCHANGED vars
    BY <1>1, <1>2 DEF vars
  <1>3. CASE InitState
    <2>1. ASSUME NEW l \in Layers, InitStateKeep(l) PROVE OwnershipOK'
      <3>1. "ok" \notin PanicOutcomes
        BY DEF PanicOutcomes
      <3>. QED BY <2>1, <3>1, RebaseOwn DEF InitStateKeep
    <2>2. ASSUME NEW l \in Layers, NEW o \in FetchOutcomes, InitStateClear(l, o)
          PROVE  OwnershipOK'
      <3>1. o \notin PanicOutcomes
        BY DEF NoPanic
      <3>. QED BY <2>2, <3>1, RebaseOwn DEF InitStateClear
    <2>3. ASSUME NEW n \in BlockNumbers, NEW l \in Layers, NEW o \in FetchOutcomes,
                 NEW ks \in KeyLines, NEW zs \in SUBSET Keys, Refork(n, l, o, ks, zs)
          PROVE  OwnershipOK'
      <3>1. o \notin PanicOutcomes
        BY DEF NoPanic
      <3>. QED BY <2>3, <3>1, RebaseOwn DEF Refork
    <2>4. ASSUME InitFakeAccounts PROVE OwnershipOK'
      BY <2>4, <1>1 DEF InitFakeAccounts
    <2>. QED BY <1>3, <2>1, <2>2, <2>3, <2>4 DEF InitState
  <1>4. ASSUME NEW d \in DBs, Access(d) PROVE OwnershipOK'
    BY <1>1, <1>4 DEF Access, Set, Read, AddBalance
  <1>5. ASSUME NEW d \in DBs, Record(d) PROVE OwnershipOK'
    BY <1>1, <1>5 DEF Record, StartLogCollection, AddLog, AddReceipt
  <1>6. CASE Overlap
    <2>1. ASSUME NEW id, NEW j, RevertLapsed(id, j) PROVE OwnershipOK'
      <3>1. /\ id \in 1 .. Len(chain[Main]) - 1 /\ UNCHANGED <<floor, origin>>
            /\ chain' = [chain EXCEPT ![Main] = SubSeq(chain[Main], 1, id)]
        BY <2>1, StrayCut DEF OwnInv, RootInv
      <3>2. Main \in Open /\ Len(chain[Main]) \in Nat
        BY MainOpen, DBsAssumption DEF OwnInv, HandlesInv
      <3>3. id \in 1 .. Len(chain[Main])
        BY <3>1, <3>2
      <3>. QED BY <3>1, <3>2, <3>3, CutOwn
    <2>2. ASSUME NEW id, RevertRunsOff(id) \/ LapsedReturns(id) PROVE OwnershipOK'
      BY <1>1, <2>2 DEF RevertRunsOff, LapsedReturns
    <2>. QED BY <1>6, <2>1, <2>2 DEF Overlap
  <1>. QED BY <1>2, <1>3, <1>4, <1>5, <1>6, RevisionOwn, HandleOwn DEF Next

\* The layer a handle writes to is on no other handle's path, except those
\* cloned from it: whatever a request does with its clone, and however it
\* reverts, the node's own state and other requests' clones do not change.
THEOREM Isolation == ASSUME NoPanic PROVE Spec => []WritesIsolated
  <1>1. Init => OwnershipOK
    BY DEF Init, OwnershipOK, Open
  <1>2. OwnInv /\ [Next]_vars => OwnershipOK'
    BY OwnStep
  <1>3. (HandlesInv /\ TypeOK /\ RootInv) /\ [Next]_vars => RootInv'
    BY RootStep
  <1>4. OwnInv => WritesIsolated
    <2>. SUFFICES ASSUME OwnInv, NEW d \in Open, NEW e \in Open,
                         d # e, Top(d) \in ToSet(chain[e])
                  PROVE  d \in origin[e]
      BY DEF WritesIsolated
    <2>1. /\ d \in DBs /\ e \in DBs /\ chain[d] \in Seq(Layers) /\ chain[e] \in Seq(Layers)
          /\ floor[d] \in Nat /\ floor[d] < Len(chain[d])
      BY DEF OwnInv, HandlesInv, HandleOK, Open
    <2>2. Len(chain[d]) \in floor[d] + 1 .. Len(chain[d])
      BY <2>1
    <2>3. PICK j \in 1 .. Len(chain[e]) : chain[d][Len(chain[d])] = chain[e][j]
      BY <2>1 DEF Top, Last, ToSet
    <2>. QED BY <2>2, <2>3 DEF OwnInv, OwnershipOK
  <1>. QED BY <1>1, <1>2, <1>3, <1>4, HandlesInit, HandlesStep, TypeInit, TypeStep, RootInit, PTL
          DEF Spec, OwnInv

-----------------------------------------------------------------------------
(* The state diff. *)

\* The n-th pass of getMergedScratchPad over a path, on the map p.
Over(p, ch, n) ==
    [k \in Keys |-> IF p[k] # Absent THEN p[k] ELSE pad[ch[Len(ch) + 1 - n]][k]]

Merges(g, m, ch) ==
    g = [n \in 0 .. m |-> IF n = 0 THEN EmptyPad ELSE Over(g[n - 1], ch, n)]

\* The loop of getMergedScratchPad.
LEMMA MergeLoop ==
    ASSUME NEW ch \in Seq(Layers)
    PROVE  \E g : Merges(g, Len(ch), ch) /\ MergedScratchPad(ch) = g[Len(ch) - 1]
<1>. DEFINE S == {m \in Nat : \E g : Merges(g, m, ch)}
<1>1. 0 \in S
  <2>1. Merges([n \in 0 .. 0 |-> EmptyPad], 0, ch)
    BY DEF Merges
  <2>. QED
    BY <2>1
<1>2. ASSUME NEW m \in Nat, m \in S PROVE m + 1 \in S
  <2>1. PICK g : Merges(g, m, ch)
    BY <1>2
  <2>. DEFINE h == [n \in 0 .. m + 1 |-> IF n <= m THEN g[n] ELSE Over(g[m], ch, m + 1)]
  <2>0. g = [n \in 0 .. m |-> IF n = 0 THEN EmptyPad ELSE Over(g[n - 1], ch, n)]
    BY <2>1 DEF Merges
  <2>2. ASSUME NEW n \in 0 .. m + 1
        PROVE  h[n] = IF n = 0 THEN EmptyPad ELSE Over(h[n - 1], ch, n)
    <3>1. CASE n = 0
      BY <2>0, <3>1
    <3>2. CASE n \in 1 .. m
      <4>1. n \in 0 .. m /\ n - 1 \in 0 .. m + 1 /\ n - 1 <= m /\ n <= m /\ n # 0
        BY <3>2
      <4>2. h[n] = g[n] /\ h[n - 1] = g[n - 1]
        BY <4>1
      <4>3. g[n] = Over(g[n - 1], ch, n)
        BY <2>0, <4>1
      <4>. QED
        BY <4>1, <4>2, <4>3
    <3>3. CASE n = m + 1
      <4>1. n - 1 = m /\ m \in 0 .. m + 1 /\ ~(n <= m) /\ n # 0 /\ m <= m
        BY <3>3
      <4>2. h[n] = Over(g[m], ch, n) /\ h[n - 1] = g[m]
        BY <3>3, <4>1
      <4>. QED
        BY <4>1, <4>2
    <3>. QED
      BY <3>1, <3>2, <3>3
  <2>3. Merges(h, m + 1, ch)
    BY <2>2 DEF Merges
  <2>4. \E k : Merges(k, m + 1, ch)
    <3>. HIDE DEF h
    <3>. QED
      BY <2>3
  <2>5. m + 1 \in Nat
    OBVIOUS
  <2>. QED
    BY <2>4, <2>5, Zenon
<1>3. Len(ch) \in S
  <2>. HIDE DEF S
  <2>1. Len(ch) \in Nat
    OBVIOUS
  <2>. QED
    BY <1>1, <1>2, <2>1, SetInduction
<1>4. \E g : Merges(g, Len(ch), ch)
  BY <1>3
<1>. DEFINE f == CHOOSE g : Merges(g, Len(ch), ch)
<1>5. Merges(f, Len(ch), ch)
  BY <1>4
<1>6. MergedScratchPad(ch) = f[Len(ch) - 1]
  BY DEF MergedScratchPad, Merges, Over
<1>. QED
  BY <1>5, <1>6

\* After n layers the map has, of each key, the value of the topmost of them
\* that has one.
MergedTop(p, ch, n) ==
    \A k \in Keys :
        \/ p[k] = Absent /\ \A j \in Len(ch) + 1 - n .. Len(ch) : pad[ch[j]][k] = Absent
        \/ \E i \in Len(ch) + 1 - n .. Len(ch) : StopsAt(ch, k, i) /\ p[k] = pad[ch[i]][k]

\* What getMergedScratchPad returns.
LEMMA MergedIs ==
    ASSUME NEW ch \in Seq(Layers), ch # <<>>
    PROVE  MergedTop(MergedScratchPad(ch), ch, Len(ch) - 1)
<1>. DEFINE N == Len(ch)
<1>0. N \in Nat /\ N - 1 \in Nat /\ N - 1 <= N
  OBVIOUS
<1>1. PICK g : Merges(g, N, ch) /\ MergedScratchPad(ch) = g[N - 1]
  BY MergeLoop
<1>. DEFINE S == {m \in Nat : m <= N => MergedTop(g[m], ch, m)}
<1>2. 0 \in S
  <2>1. g[0] = EmptyPad
    BY <1>0, <1>1 DEF Merges
  <2>2. MergedTop(g[0], ch, 0)
    BY <1>0, <2>1 DEF MergedTop, EmptyPad
  <2>. QED
    BY <2>2
<1>3. ASSUME NEW m \in Nat, m \in S PROVE m + 1 \in S
  <2>. SUFFICES ASSUME m + 1 <= N, NEW k \in Keys
                PROVE  \/ g[m + 1][k] = Absent /\ \A j \in N + 1 - (m + 1) .. N : pad[ch[j]][k] = Absent
                       \/ \E i \in N + 1 - (m + 1) .. N : StopsAt(ch, k, i) /\ g[m + 1][k] = pad[ch[i]][k]
    BY DEF MergedTop
  <2>. DEFINE t == N - m
  <2>1. /\ t \in 1 .. N /\ N + 1 - (m + 1) = t /\ N + 1 - m = t + 1
        /\ m + 1 \in 0 .. N /\ m + 1 # 0 /\ (m + 1) - 1 = m /\ m <= N
        /\ t .. N = {t} \cup (t + 1 .. N)
    BY <1>0
  <2>2. g[m + 1] = Over(g[m], ch, m + 1)
    BY <1>1, <2>1 DEF Merges
  <2>3. g[m + 1][k] = IF g[m][k] # Absent THEN g[m][k] ELSE pad[ch[t]][k]
    BY <2>1, <2>2 DEF Over
  <2>4. \/ g[m][k] = Absent /\ \A j \in t + 1 .. N : pad[ch[j]][k] = Absent
        \/ \E i \in t + 1 .. N : StopsAt(ch, k, i) /\ g[m][k] = pad[ch[i]][k]
    BY <1>3, <2>1 DEF MergedTop
  <2>. HIDE DEF t
  <2>5. CASE g[m][k] = Absent /\ \A j \in t + 1 .. N : pad[ch[j]][k] = Absent
    <3>1. g[m + 1][k] = pad[ch[t]][k]
      BY <2>3, <2>5
    <3>2. pad[ch[t]][k] # Absent => StopsAt(ch, k, t)
      BY <2>5 DEF StopsAt
    <3>. QED
      BY <2>1, <2>5, <3>1, <3>2
  <2>6. CASE \E i \in t + 1 .. N : StopsAt(ch, k, i) /\ g[m][k] = pad[ch[i]][k]
    <3>1. PICK i \in t + 1 .. N : StopsAt(ch, k, i) /\ g[m][k] = pad[ch[i]][k]
      BY <2>6
    <3>2. g[m + 1][k] = pad[ch[i]][k]
      BY <2>3, <3>1 DEF StopsAt
    <3>. QED
      BY <2>1, <3>1, <3>2
  <2>. QED
    BY <2>4, <2>5, <2>6
<1>4. N - 1 \in S
  <2>. HIDE DEF S
  <2>. QED
    BY <1>0, <1>2, <1>3, SetInduction
<1>. QED
  BY <1>0, <1>1, <1>4

\* The walk of get has one place to stop.
LEMMA StopsOnce ==
    ASSUME NEW ch \in Seq(Layers), NEW k, NEW i \in 1 .. Len(ch), StopsAt(ch, k, i)
    PROVE  Get(ch, k) = pad[ch[i]][k]
<1>1. \A j \in 1 .. Len(ch) : StopsAt(ch, k, j) => j = i
  BY DEF StopsAt
<1>2. (CHOOSE j \in 1 .. Len(ch) : StopsAt(ch, k, j)) = i
  BY <1>1
<1>. QED
  BY <1>2 DEF Get, Hit

\* A walk that finds nothing above the root ends as if it had begun there.
LEMMA StopsBelow ==
    ASSUME NEW ch \in Seq(Layers), NEW k, ch # <<>>, ch[1] = Root,
           \A j \in 2 .. Len(ch) : pad[ch[j]][k] = Absent
    PROVE  Get(ch, k) = Get(<<Root>>, k)
<1>. DEFINE r == <<Root>>
<1>0. Len(ch) \in Nat /\ Len(ch) >= 1 /\ r \in Seq(Layers) /\ Len(r) = 1 /\ r[1] = Root
  BY LayersAssumption
<1>1. CASE pad[Root][k] # Absent
  <2>1. StopsAt(ch, k, 1)
    BY <1>0, <1>1 DEF StopsAt
  <2>2. StopsAt(r, k, 1)
    BY <1>0, <1>1 DEF StopsAt
  <2>. HIDE DEF r
  <2>. QED
    BY <1>0, <2>1, <2>2, StopsOnce
<1>2. CASE pad[Root][k] = Absent
  <2>1. ~Hit(ch, k)
    BY <1>0, <1>2 DEF Hit, StopsAt
  <2>2. ~Hit(r, k)
    BY <1>0, <1>2 DEF Hit, StopsAt
  <2>. QED
    BY <2>1, <2>2 DEF Get
<1>. QED
  BY <1>1, <1>2

\* The state diff is the view: the overrides that eth_call sends upstream
\* give back, put over the fork state, the state the handle sees, for paths
\* of any length.
THEOREM DiffFaithful == Spec => []DiffIsView
<1>1. HandlesInv => DiffIsView
  <2>. SUFFICES ASSUME HandlesInv, NEW d \in Open, NEW k \in Keys
                PROVE  Get(chain[d], k) = IF MergedScratchPad(chain[d])[k] # Absent
                                          THEN MergedScratchPad(chain[d])[k] ELSE Get(<<Root>>, k)
    BY DEF DiffIsView
  <2>. DEFINE ch == chain[d]
              m == MergedScratchPad(ch)
  <2>1. ch \in Seq(Layers) /\ ch # <<>> /\ ch[1] = Root
    BY DEF HandlesInv, HandleOK, Open
  <2>2. Len(ch) \in Nat /\ Len(ch) + 1 - (Len(ch) - 1) = 2 /\ 2 .. Len(ch) \subseteq 1 .. Len(ch)
    BY <2>1
  <2>3. \/ m[k] = Absent /\ \A j \in 2 .. Len(ch) : pad[ch[j]][k] = Absent
        \/ \E i \in 2 .. Len(ch) : StopsAt(ch, k, i) /\ m[k] = pad[ch[i]][k]
    <3>. HIDE DEF ch
    <3>1. MergedTop(m, ch, Len(ch) - 1)
      BY <2>1, MergedIs
    <3>. HIDE DEF m
    <3>. QED
      BY <2>2, <3>1 DEF MergedTop
  <2>. HIDE DEF ch, m
  <2>4. CASE m[k] = Absent /\ \A j \in 2 .. Len(ch) : pad[ch[j]][k] = Absent
    <3>1. Get(ch, k) = Get(<<Root>>, k)
      BY <2>1, <2>4, StopsBelow
    <3>. QED
      BY <2>4, <3>1 DEF ch, m
  <2>5. CASE \E i \in 2 .. Len(ch) : StopsAt(ch, k, i) /\ m[k] = pad[ch[i]][k]
    <3>1. PICK i \in 2 .. Len(ch) : StopsAt(ch, k, i) /\ m[k] = pad[ch[i]][k]
      BY <2>5
    <3>2. i \in 1 .. Len(ch) /\ pad[ch[i]][k] # Absent
      BY <2>2, <3>1 DEF StopsAt
    <3>3. Get(ch, k) = pad[ch[i]][k]
      BY <2>1, <3>1, <3>2, StopsOnce
    <3>. QED
      BY <3>1, <3>2, <3>3 DEF ch, m
  <2>. QED
    BY <2>3, <2>4, <2>5
<1>. QED
  BY <1>1, HandlesInit, HandlesStep, PTL DEF Spec

-----------------------------------------------------------------------------
(* Layers apart: what the layers show besides ownership. *)

\* No layer is twice on a path, and two handles have no own layer in common.
Apart(ch, fl) ==
    /\ \A x \in DBs : \A i, j \in 1 .. Len(ch[x]) : ch[x][i] = ch[x][j] => i = j
    /\ \A x, y \in DBs : x # y =>
         \A i \in fl[x] + 1 .. Len(ch[x]), j \in fl[y] + 1 .. Len(ch[y]) : ch[x][i] # ch[y][j]

\* Nothing is logged in the root.
RootBlank == txLogs[Root] = NoLogs /\ txHash[Root] = ZeroHash

LayersInv == OwnInv /\ Apart(chain, floor) /\ RootBlank

\* Cutting a path keeps layers apart.
LEMMA CutApart ==
    ASSUME HandlesInv, HandlesInv', Apart(chain, floor), NEW z \in DBs,
           Len(chain'[z]) <= Len(chain[z]),
           \A i \in 1 .. Len(chain'[z]) : chain'[z][i] = chain[z][i],
           Len(chain'[z]) > 0 => floor'[z] = floor[z],
           \A x \in DBs : x # z => chain'[x] = chain[x] /\ floor'[x] = floor[x]
    PROVE  Apart(chain', floor')
<1>1. ASSUME NEW x \in DBs
      PROVE  /\ Len(chain'[x]) \in Nat /\ Len(chain[x]) \in Nat /\ floor[x] \in Nat /\ floor'[x] \in Nat
             /\ Len(chain'[x]) <= Len(chain[x])
             /\ \A i \in 1 .. Len(chain'[x]) : chain'[x][i] = chain[x][i]
             /\ Len(chain'[x]) > 0 => floor'[x] = floor[x]
  <2>1. /\ Len(chain'[x]) \in Nat /\ Len(chain[x]) \in Nat /\ floor[x] \in Nat /\ floor'[x] \in Nat
    BY DEF HandlesInv
  <2>2. CASE x = z
    BY <2>1, <2>2
  <2>3. CASE x # z
    BY <2>1, <2>3
  <2>. QED
    BY <2>2, <2>3
<1>2. ASSUME NEW x \in DBs, NEW i \in 1 .. Len(chain'[x]), NEW j \in 1 .. Len(chain'[x]),
             chain'[x][i] = chain'[x][j]
      PROVE  i = j
  <2>1. i \in 1 .. Len(chain[x]) /\ j \in 1 .. Len(chain[x]) /\ chain[x][i] = chain[x][j]
    BY <1>1, <1>2
  <2>. QED
    BY <2>1 DEF Apart
<1>3. ASSUME NEW x \in DBs, NEW y \in DBs, x # y,
             NEW i \in floor'[x] + 1 .. Len(chain'[x]), NEW j \in floor'[y] + 1 .. Len(chain'[y]) 
      PROVE  chain'[x][i] # chain'[y][j]
  <2>1. i \in 1 .. Len(chain'[x]) /\ j \in 1 .. Len(chain'[y])
    BY <1>1
  <2>2. i \in floor[x] + 1 .. Len(chain[x]) /\ j \in floor[y] + 1 .. Len(chain[y])
    <3>1. Len(chain'[x]) > 0 /\ Len(chain'[y]) > 0
      BY <1>1, <2>1
    <3>2. floor'[x] = floor[x] /\ floor'[y] = floor[y]
      BY <1>1, <3>1
    <3>3. Len(chain'[x]) <= Len(chain[x]) /\ Len(chain'[y]) <= Len(chain[y])
      BY <1>1
    <3>4. \A m, n, f \in Nat : m <= n => f + 1 .. m \subseteq f + 1 .. n
      OBVIOUS
    <3>. QED
      BY <1>1, <3>2, <3>3, <3>4
  <2>3. chain[x][i] # chain[y][j]
    BY <1>3, <2>2 DEF Apart
  <2>. QED
    BY <1>1, <2>1, <2>3
<1>. QED
  BY <1>2, <1>3 DEF Apart

\* Putting a fresh layer on top of a path keeps layers apart.
LEMMA GrowApart ==
    ASSUME HandlesInv, HandlesInv', Apart(chain, floor), NEW z \in DBs,
           NEW c \in Seq(Layers), NEW l \in Layers, chain'[z] = Append(c, l),
           \A i, j \in 1 .. Len(c) : c[i] = c[j] => i = j,
           \A i \in 1 .. Len(c) : c[i] # l,
           \A x \in DBs : x # z => /\ chain'[x] = chain[x] /\ floor'[x] = floor[x]
                                   /\ \A i \in 1 .. Len(chain[x]) : chain[x][i] # l,
           \A i \in floor'[z] + 1 .. Len(c) : i \in floor[z] + 1 .. Len(chain[z]) /\ c[i] = chain[z][i]
    PROVE  Apart(chain', floor')
<1>. DEFINE n == Len(c) + 1
<1>0. \A x \in DBs : Len(chain'[x]) \in Nat /\ Len(chain[x]) \in Nat /\ floor[x] \in Nat /\ floor'[x] \in Nat
  BY DEF HandlesInv
<1>1. /\ Len(c) \in Nat /\ n \in Nat /\ Len(chain'[z]) = n /\ chain'[z][n] = l
      /\ \A i \in 1 .. Len(c) : chain'[z][i] = c[i]
      /\ 1 .. n = 1 .. Len(c) \cup {n}
  OBVIOUS
<1>. HIDE DEF n
<1>2. ASSUME NEW x \in DBs, NEW i \in 1 .. Len(chain'[x]), NEW j \in 1 .. Len(chain'[x]),
             chain'[x][i] = chain'[x][j]
      PROVE  i = j
  <2>1. CASE x = z
    <3>1. (i = n \/ i \in 1 .. Len(c)) /\ (j = n \/ j \in 1 .. Len(c))
      BY <1>1, <2>1
    <3>2. (i \in 1 .. Len(c) => chain'[z][i] = c[i]) /\ (j \in 1 .. Len(c) => chain'[z][j] = c[j])
      BY <1>1
    <3>. QED
      BY <1>1, <1>2, <2>1, <3>1, <3>2
  <2>2. CASE x # z
    BY <1>2, <2>2 DEF Apart
  <2>. QED
    BY <2>1, <2>2
<1>3. ASSUME NEW y \in DBs, y # z,
             NEW i \in floor'[z] + 1 .. Len(chain'[z]), NEW j \in floor'[y] + 1 .. Len(chain'[y]) 
      PROVE  chain'[z][i] # chain'[y][j]
  <2>0. chain'[y] = chain[y] /\ floor'[y] = floor[y]
    BY <1>3
  <2>1. CASE i = n
    <3>1. j \in 1 .. Len(chain[y])
      BY <1>0, <2>0
    <3>. QED
      BY <1>1, <1>3, <2>0, <2>1, <3>1
  <2>2. CASE i # n
    <3>1. i \in floor'[z] + 1 .. Len(c) /\ i \in 1 .. Len(c)
      BY <1>0, <1>1, <2>2 DEF n
    <3>2. i \in floor[z] + 1 .. Len(chain[z]) /\ chain'[z][i] = chain[z][i]
      BY <1>1, <3>1
    <3>. QED
      BY <1>3, <2>0, <3>2 DEF Apart
  <2>. QED
    BY <2>1, <2>2
<1>4. ASSUME NEW x \in DBs, NEW y \in DBs, x # y,
             NEW i \in floor'[x] + 1 .. Len(chain'[x]), NEW j \in floor'[y] + 1 .. Len(chain'[y]) 
      PROVE  chain'[x][i] # chain'[y][j]
  <2>1. CASE x # z /\ y # z
    BY <1>4, <2>1 DEF Apart
  <2>2. CASE x = z
    BY <1>3, <1>4, <2>2
  <2>3. CASE y = z
    BY <1>3, <1>4, <2>3
  <2>. QED
    BY <2>1, <2>2, <2>3
<1>. QED
  BY <1>2, <1>4 DEF Apart

\* Steps that leave the paths alone.
LEMMA StillApart ==
    ASSUME Apart(chain, floor), UNCHANGED <<chain, floor>> PROVE Apart(chain', floor')
OBVIOUS

\* A cut path.
LEMMA SubApart ==
    ASSUME LayersInv, HandlesInv', NEW d \in DBs, NEW n \in 0 .. Len(chain[d]),
           chain' = [chain EXCEPT ![d] = SubSeq(chain[d], 1, n)], UNCHANGED floor
    PROVE  Apart(chain', floor')
<1>1. chain \in [DBs -> Seq(Layers)] /\ Len(chain[d]) \in Nat
  BY DEF LayersInv, OwnInv, HandlesInv
<1>2. /\ Len(SubSeq(chain[d], 1, n)) = n
      /\ \A i \in 1 .. n : SubSeq(chain[d], 1, n)[i] = chain[d][i]
  BY <1>1, Prefix
<1>3. chain'[d] = SubSeq(chain[d], 1, n) /\ \A x \in DBs : x # d => chain'[x] = chain[x]
  BY <1>1
<1>4. /\ HandlesInv /\ Apart(chain, floor) /\ Len(chain'[d]) <= Len(chain[d])
      /\ \A i \in 1 .. Len(chain'[d]) : chain'[d][i] = chain[d][i]
      /\ Len(chain'[d]) > 0 => floor'[d] = floor[d]
      /\ \A x \in DBs : x # d => chain'[x] = chain[x] /\ floor'[x] = floor[x]
  BY <1>1, <1>2, <1>3 DEF LayersInv, OwnInv
<1>. QED
  BY <1>4, CutApart, Zenon

\* A handle over a path of layers in use.
LEMMA OpenApart ==
    ASSUME LayersInv, HandlesInv', NEW e \in DBs, NEW c \in Seq(Layers), NEW l \in Layers, NEW from,
           OpenAs(e, c, l, from),
           \A i, j \in 1 .. Len(c) : c[i] = c[j] => i = j,
           \A i \in 1 .. Len(c) : c[i] \in LiveLayers(chain) \cup {Root}
    PROVE  Apart(chain', floor')
<1>1. /\ l \in FreeLayers(chain) /\ chain' = [chain EXCEPT ![e] = Append(c, l)]
      /\ floor' = [floor EXCEPT ![e] = Len(c)]
  BY DEF OpenAs
<1>2. chain \in [DBs -> Seq(Layers)] /\ floor \in [DBs -> Nat] /\ Len(c) \in Nat
  BY DEF LayersInv, OwnInv, HandlesInv
<1>3. /\ chain'[e] = Append(c, l) /\ floor'[e] = Len(c)
      /\ \A x \in DBs : x # e => chain'[x] = chain[x] /\ floor'[x] = floor[x]
  BY <1>1, <1>2
<1>4. \A i \in 1 .. Len(c) : c[i] # l
  BY <1>1 DEF FreeLayers
<1>5. \A x \in DBs : \A i \in 1 .. Len(chain[x]) : chain[x][i] # l
  BY <1>1, <1>2, FreeIsNotOnPath
<1>6. floor'[e] + 1 .. Len(c) = {}
  BY <1>2, <1>3
<1>. QED
  BY <1>3, <1>4, <1>5, <1>6, GrowApart DEF LayersInv, OwnInv

\* Main over a new layer.
LEMMA RebaseApart ==
    ASSUME LayersInv, HandlesInv', NEW l \in Layers, NEW p, NEW outcome,
           outcome \notin PanicOutcomes, Rebase(l, p, outcome)
    PROVE  Apart(chain', floor')
<1>. DEFINE rest == [chain EXCEPT ![Main] = <<Root>>]
<1>0. PICK c : c = <<Root>>
  OBVIOUS
<1>1. /\ l \in FreeLayers(rest)
      /\ chain' = [chain EXCEPT ![Main] = <<Root, l>>]
      /\ floor' = [floor EXCEPT ![Main] = 1]
  BY DEF Rebase, Restarted
<1>2. chain \in [DBs -> Seq(Layers)] /\ floor \in [DBs -> Nat] /\ c \in Seq(Layers)
  BY <1>0, LayersAssumption DEF LayersInv, OwnInv, HandlesInv
<1>3. /\ chain'[Main] = Append(c, l) /\ floor'[Main] = 1
      /\ \A x \in DBs : x # Main => chain'[x] = chain[x] /\ floor'[x] = floor[x] /\ rest[x] = chain[x]
      /\ rest \in [DBs -> Seq(Layers)]
  BY <1>0, <1>1, <1>2, DBsAssumption
<1>4. Len(c) = 1 /\ c[1] = Root /\ l # Root
  BY <1>0, <1>1 DEF FreeLayers
<1>. HIDE DEF rest
<1>5. \A x \in DBs : \A i \in 1 .. Len(rest[x]) : rest[x][i] # l
  BY <1>1, <1>3, FreeIsNotOnPath
<1>6. floor'[Main] + 1 .. Len(c) = {}
  BY <1>3, <1>4
<1>7. \A i, j \in 1 .. Len(c) : c[i] = c[j] => i = j
  BY <1>4
<1>8. \A i \in 1 .. Len(c) : c[i] # l
  BY <1>4
<1>9. /\ HandlesInv /\ Apart(chain, floor)
      /\ \A x \in DBs : x # Main => /\ chain'[x] = chain[x] /\ floor'[x] = floor[x]
                                    /\ \A i \in 1 .. Len(chain[x]) : chain[x][i] # l
      /\ \A i \in floor'[Main] + 1 .. Len(c) : i \in floor[Main] + 1 .. Len(chain[Main]) /\ c[i] = chain[Main][i]
  BY <1>3, <1>5, <1>6 DEF LayersInv, OwnInv
<1>. QED
  <2>1. /\ HandlesInv /\ HandlesInv' /\ Apart(chain, floor) /\ Main \in DBs
        /\ c \in Seq(Layers) /\ l \in Layers /\ chain'[Main] = Append(c, l)
    BY <1>2, <1>3, <1>9, DBsAssumption
  <2>2. /\ \A i, j \in 1 .. Len(c) : c[i] = c[j] => i = j
        /\ \A i \in 1 .. Len(c) : c[i] # l
        /\ \A x \in DBs : x # Main => /\ chain'[x] = chain[x] /\ floor'[x] = floor[x]
                                      /\ \A i \in 1 .. Len(chain[x]) : chain[x][i] # l
        /\ \A i \in floor'[Main] + 1 .. Len(c) : i \in floor[Main] + 1 .. Len(chain[Main]) /\ c[i] = chain[Main][i]
    BY <1>7, <1>8, <1>9
  <2>. QED
    BY ONLY <2>1, <2>2, GrowApart, ZenonT(60)

\* Operations on revisions.
LEMMA RevisionApart ==
    ASSUME LayersInv, HandlesInv', NEW d \in DBs, Revision(d) PROVE Apart(chain', floor')
<1>0. /\ HandlesInv /\ Apart(chain, floor) /\ chain \in [DBs -> Seq(Layers)] /\ Len(chain[d]) \in Nat
      /\ floor \in [DBs -> Nat]
  BY DEF LayersInv, OwnInv, HandlesInv
<1>1. ASSUME NEW i \in DOMAIN held[d] PROVE held[d][i] \in 1 .. Len(chain[d]) - 1
  <2>1. /\ held[d] \in Seq(Nat) /\ floor[d] \in Nat /\ HandleOK(chain[d], held[d], floor[d])
    BY <1>0 DEF HandlesInv
  <2>. QED
    BY <1>0, <2>1, HeldId
<1>2. ASSUME NEW l \in Layers, Snapshot(d, l) PROVE Apart(chain', floor')
  <2>1. /\ l \in FreeLayers(chain) /\ chain' = [chain EXCEPT ![d] = Append(chain[d], l)] /\ UNCHANGED floor
    BY <1>2 DEF Snapshot
  <2>2. chain'[d] = Append(chain[d], l) /\ \A x \in DBs : x # d => chain'[x] = chain[x]
    BY <1>0, <2>1
  <2>3. \A x \in DBs : \A i \in 1 .. Len(chain[x]) : chain[x][i] # l
    BY <1>0, <2>1, FreeIsNotOnPath
  <2>4. \A i, j \in 1 .. Len(chain[d]) : chain[d][i] = chain[d][j] => i = j
    BY <1>0 DEF Apart
  <2>5. PICK c \in Seq(Layers) : c = chain[d]
    BY <1>0
  <2>6. /\ chain'[d] = Append(c, l) /\ \A i \in 1 .. Len(c) : c[i] # l
        /\ \A i, j \in 1 .. Len(c) : c[i] = c[j] => i = j
        /\ \A x \in DBs : x # d => /\ chain'[x] = chain[x] /\ floor'[x] = floor[x]
                                   /\ \A i \in 1 .. Len(chain[x]) : chain[x][i] # l
        /\ \A i \in floor'[d] + 1 .. Len(c) : i \in floor[d] + 1 .. Len(chain[d]) /\ c[i] = chain[d][i]
    BY <2>1, <2>2, <2>3, <2>4, <2>5
  <2>. QED
    BY <1>0, <2>6, GrowApart, ZenonT(60)
<1>3. ASSUME NEW i \in DOMAIN held[d], RevertToSnapshot(d, i) PROVE Apart(chain', floor')
  <2>1. AncestorFor(chain[d], held[d][i]) = held[d][i]
    BY <1>0, <1>1, AncestorFound
  <2>2. held[d][i] \in 0 .. Len(chain[d])
    BY <1>0, <1>1
  <2>3. chain' = [chain EXCEPT ![d] = SubSeq(chain[d], 1, held[d][i])] /\ UNCHANGED floor
    BY <1>3, <2>1 DEF RevertToSnapshot
  <2>. QED
    BY <2>2, <2>3, SubApart
<1>4. ASSUME FrameReturns(d) PROVE Apart(chain', floor')
  BY <1>0, <1>4, StillApart DEF FrameReturns
<1>5. ASSUME NEW i \in DOMAIN held[d], MergeTo(d, i) PROVE Apart(chain', floor')
  <2>2. held[d][i] + 1 \in 0 .. Len(chain[d])
    BY <1>0, <1>1
  <2>3. chain' = [chain EXCEPT ![d] = SubSeq(chain[d], 1, held[d][i] + 1)] /\ UNCHANGED floor
    BY <1>5 DEF MergeTo
  <2>. QED
    BY <2>2, <2>3, SubApart
<1>. QED
  BY <1>2, <1>3, <1>4, <1>5 DEF Revision

\* Clones.
LEMMA HandleApart ==
    ASSUME LayersInv, HandlesInv', NEW d \in DBs, Handle(d) PROVE Apart(chain', floor')
<1>0. /\ HandlesInv /\ Apart(chain, floor) /\ chain \in [DBs -> Seq(Layers)] /\ floor \in [DBs -> Nat]
  BY DEF LayersInv, OwnInv, HandlesInv
<1>1. ASSUME NEW e \in DBs, NEW l \in Layers, Clone(d, e, l) PROVE Apart(chain', floor')
  <2>1. OpenAs(e, chain[d], l, origin[d] \cup {d})
    BY <1>1 DEF Clone
  <2>2. \A j \in 1 .. Len(chain[d]) : chain[d][j] \in LiveLayers(chain) \cup {Root}
    BY <1>0, OnPath
  <2>3. \A i, j \in 1 .. Len(chain[d]) : chain[d][i] = chain[d][j] => i = j
    BY <1>0 DEF Apart
  <2>. QED
    BY <1>0, <2>1, <2>2, <2>3, OpenApart
<1>2. ASSUME NEW e \in DBs, NEW l \in Layers, CloneFromRoot(d, e, l) PROVE Apart(chain', floor')
  <2>0. PICK c : c = <<Root>>
    OBVIOUS
  <2>1. OpenAs(e, c, l, {})
    BY <1>2, <2>0 DEF CloneFromRoot
  <2>2. c \in Seq(Layers) /\ Len(c) = 1 /\ c[1] = Root
    BY <2>0, LayersAssumption
  <2>3. /\ \A i, j \in 1 .. Len(c) : c[i] = c[j] => i = j
        /\ \A j \in 1 .. Len(c) : c[j] \in LiveLayers(chain) \cup {Root}
    BY <2>2
  <2>. QED
    BY <2>1, <2>2, <2>3, OpenApart
<1>3. ASSUME Drop(d) PROVE Apart(chain', floor')
  <2>1. /\ chain'[d] = <<>>
        /\ \A x \in DBs : x # d => chain'[x] = chain[x] /\ floor'[x] = floor[x]
    BY <1>0, <1>3 DEF Drop
  <2>2. Len(chain'[d]) = 0 /\ Len(chain[d]) \in Nat
    BY <1>0, <2>1
  <2>. QED
    BY <1>0, <2>1, <2>2, CutApart
<1>. QED
  BY <1>1, <1>2, <1>3 DEF Handle

\* Every step keeps layers apart.
LEMMA ApartStep ==
    ASSUME NoPanic, LayersInv, HandlesInv', [Next]_vars PROVE Apart(chain', floor')
<1>0. Apart(chain, floor)
  BY DEF LayersInv
<1>2. CASE UNCHANGED vars
  BY <1>0, <1>2, StillApart DEF vars
<1>3. CASE InitState
  <2>0. "ok" \notin PanicOutcomes /\ \A o \in FetchOutcomes : o \notin PanicOutcomes
    BY DEF PanicOutcomes, NoPanic
  <2>1. ASSUME NEW l \in Layers, InitStateKeep(l) PROVE Apart(chain', floor')
    BY <2>0, <2>1, RebaseApart DEF InitStateKeep
  <2>2. ASSUME NEW l \in Layers, NEW o \in FetchOutcomes, InitStateClear(l, o) PROVE Apart(chain', floor')
    BY <2>0, <2>2, RebaseApart DEF InitStateClear
  <2>3. ASSUME NEW n \in BlockNumbers, NEW l \in Layers, NEW o \in FetchOutcomes,
               NEW ks \in KeyLines, NEW zs \in SUBSET Keys, Refork(n, l, o, ks, zs)
        PROVE  Apart(chain', floor')
    BY <2>0, <2>3, RebaseApart DEF Refork
  <2>4. ASSUME InitFakeAccounts PROVE Apart(chain', floor')
    BY <1>0, <2>4, StillApart DEF InitFakeAccounts
  <2>. QED
    BY <1>3, <2>1, <2>2, <2>3, <2>4 DEF InitState
<1>4. ASSUME NEW d \in DBs, Access(d) PROVE Apart(chain', floor')
  BY <1>0, <1>4, StillApart DEF Access, Set, Read, AddBalance
<1>5. ASSUME NEW d \in DBs, Record(d) PROVE Apart(chain', floor')
  BY <1>0, <1>5, StillApart DEF Record, StartLogCollection, AddLog, AddReceipt
<1>6. CASE Overlap
  <2>1. ASSUME NEW id, NEW j, RevertLapsed(id, j) PROVE Apart(chain', floor')
    <3>1. /\ id \in 1 .. Len(chain[Main]) - 1 /\ UNCHANGED floor
          /\ chain' = [chain EXCEPT ![Main] = SubSeq(chain[Main], 1, id)]
      BY <2>1, StrayCut DEF LayersInv, OwnInv, RootInv
    <3>2. id \in 0 .. Len(chain[Main])
      BY <3>1, DBsAssumption DEF LayersInv, OwnInv, HandlesInv
    <3>. QED
      BY <3>1, <3>2, SubApart, DBsAssumption
  <2>2. ASSUME NEW id, RevertRunsOff(id) \/ LapsedReturns(id) PROVE Apart(chain', floor')
    BY <1>0, <2>2, StillApart DEF RevertRunsOff, LapsedReturns
  <2>. QED
    BY <1>6, <2>1, <2>2 DEF Overlap
<1>. QED
  BY <1>2, <1>3, <1>4, <1>5, <1>6, RevisionApart, HandleApart DEF Next

\* Nothing is ever logged in the root.
LEMMA BlankStep ==
    ASSUME NoPanic, LayersInv, [Next]_vars PROVE RootBlank'
<1>0. /\ txLogs[Root] = NoLogs /\ txHash[Root] = ZeroHash /\ Root \in Layers
      /\ txLogs \in [Layers -> [TxHashes -> Seq(LogIds)]] /\ txHash \in [Layers -> TxHashes]
  BY LayersAssumption DEF LayersInv, OwnInv, TypeOK, RootBlank
<1>1. ASSUME UNCHANGED <<txLogs, txHash>> PROVE RootBlank'
  BY <1>0, <1>1 DEF RootBlank
<1>2. ASSUME NEW p, NEW ch, Keep(p, ch) PROVE RootBlank'
  BY <1>0, <1>2 DEF Keep, Collect, RootBlank
<1>3. ASSUME NEW l, NEW q, l # Root, Derive(q, l) PROVE RootBlank'
  BY <1>0, <1>3 DEF Derive, RootBlank
<1>4. ASSUME NEW l \in Layers, NEW p, NEW o, Rebase(l, p, o) PROVE RootBlank'
  BY <1>0, <1>4 DEF Rebase, Collect, RootBlank, FreeLayers
<1>5. CASE UNCHANGED vars
  BY <1>1, <1>5 DEF vars, notes
<1>6. CASE InitState
  <2>1. ASSUME InitFakeAccounts PROVE RootBlank'
    BY <1>1, <2>1 DEF InitFakeAccounts, notes
  <2>. QED
    BY <1>4, <1>6, <2>1 DEF InitState, InitStateKeep, InitStateClear, Refork
<1>7. ASSUME NEW d \in DBs, Access(d) PROVE RootBlank'
  BY <1>1, <1>7 DEF Access, Set, Read, AddBalance, notes
<1>8. ASSUME NEW d \in DBs, Record(d) PROVE RootBlank'
  <2>1. d \in Open
    BY <1>8 DEF Record, StartLogCollection, AddLog, AddReceipt
  <2>2. Top(d) # Root
    BY <2>1, TopIsNotRoot DEF LayersInv, OwnInv, RootInv, CacheInv
  <2>3. ASSUME NEW tx, StartLogCollection(d, tx) PROVE RootBlank'
    BY <1>0, <2>2, <2>3 DEF StartLogCollection, RootBlank
  <2>4. ASSUME NEW log, AddLog(d, log) PROVE RootBlank'
    BY <1>0, <2>2, <2>4 DEF AddLog, RootBlank
  <2>5. ASSUME NEW tx, AddReceipt(d, tx) PROVE RootBlank'
    BY <1>1, <2>5 DEF AddReceipt
  <2>. QED
    BY <1>8, <2>3, <2>4, <2>5 DEF Record
<1>9. ASSUME NEW d \in DBs, Revision(d) PROVE RootBlank'
  <2>1. ASSUME NEW l \in Layers, Snapshot(d, l) PROVE RootBlank'
    BY <1>3, <2>1, FreeIsNotRoot DEF Snapshot
  <2>2. ASSUME FrameReturns(d) PROVE RootBlank'
    BY <1>1, <2>2 DEF FrameReturns, notes
  <2>3. ASSUME NEW i \in DOMAIN held[d], RevertToSnapshot(d, i) PROVE RootBlank'
    BY <1>2, <2>3 DEF RevertToSnapshot
  <2>4. ASSUME NEW i \in DOMAIN held[d], MergeTo(d, i) PROVE RootBlank'
    BY <1>2, <2>4 DEF MergeTo
  <2>. QED
    BY <1>9, <2>1, <2>2, <2>3, <2>4 DEF Revision
<1>10. ASSUME NEW d \in DBs, Handle(d) PROVE RootBlank'
  <2>1. ASSUME NEW e, NEW c, NEW l, NEW from, OpenAs(e, c, l, from) PROVE RootBlank'
    BY <1>3, <2>1, FreeIsNotRoot DEF OpenAs
  <2>. QED
    BY <1>2, <1>10, <2>1 DEF Handle, Clone, CloneFromRoot, Drop
<1>11. CASE Overlap
  <2>1. ASSUME NEW id, NEW j, RevertLapsed(id, j) PROVE RootBlank'
    BY <1>2, <2>1 DEF RevertLapsed
  <2>2. ASSUME NEW id, RevertRunsOff(id) \/ LapsedReturns(id) PROVE RootBlank'
    BY <1>1, <2>2 DEF RevertRunsOff, LapsedReturns, notes
  <2>. QED
    BY <1>11, <2>1, <2>2 DEF Overlap
<1>. QED
  BY <1>5, <1>6, <1>7, <1>8, <1>9, <1>10, <1>11 DEF Next

\* The whole invariant.
LEMMA LayersAlways == ASSUME NoPanic PROVE Spec => []LayersInv
<1>1. Init => LayersInv
  <2>. SUFFICES ASSUME Init PROVE LayersInv
    OBVIOUS
  <2>1. OwnInv
    <3>1. OwnershipOK
      BY DEF Init, OwnershipOK, Open
    <3>. QED
      BY <3>1, HandlesInit, TypeInit, RootInit DEF OwnInv
  <2>2. PICK l \in Layers \ {Root} : chain = [d \in DBs |-> IF d = Main THEN <<Root, l>> ELSE <<>>]
    BY DEF Init
  <2>3. /\ \A x \in DBs : x # Main => Len(chain[x]) = 0
        /\ Len(chain[Main]) = 2 /\ chain[Main][1] = Root /\ chain[Main][2] = l
    BY <2>2, DBsAssumption
  <2>4. Apart(chain, floor)
    <3>1. \A x \in DBs : \A i, j \in 1 .. Len(chain[x]) : chain[x][i] = chain[x][j] => i = j
      BY <2>3
    <3>2. \A x \in DBs : floor[x] \in Nat
      BY DEF Init
    <3>3. \A x, y \in DBs : x # y => 
             \A i \in floor[x] + 1 .. Len(chain[x]), j \in floor[y] + 1 .. Len(chain[y]) : chain[x][i] # chain[y][j]
      BY <2>3, <3>2
    <3>. QED
      BY <3>1, <3>3 DEF Apart
  <2>5. RootBlank
    BY LayersAssumption DEF Init, RootBlank
  <2>. QED
    BY <2>1, <2>4, <2>5 DEF LayersInv
<1>2. LayersInv /\ [Next]_vars => LayersInv'
  <2>. SUFFICES ASSUME LayersInv, [Next]_vars PROVE LayersInv'
    OBVIOUS
  <2>1. HandlesInv /\ TypeOK /\ RootInv /\ OwnInv
    BY DEF LayersInv, OwnInv
  <2>2. HandlesInv' /\ TypeOK' /\ RootInv' /\ OwnershipOK'
    BY <2>1, HandlesStep, TypeStep, RootStep, OwnStep
  <2>3. Apart(chain', floor') /\ RootBlank'
    BY <2>2, ApartStep, BlankStep
  <2>. QED
    BY <2>2, <2>3 DEF LayersInv, OwnInv
<1>. QED
  BY <1>1, <1>2, PTL DEF Spec

-----------------------------------------------------------------------------
(* What a path shows, as a function of the contents of the layers. *)

\* get, GetLogs and GetReceipt as functions of the contents they read.
Stops(p, c, k, i) ==
    /\ p[c[i]][k] # Absent
    /\ \A j \in i + 1 .. Len(c) : p[c[j]][k] = Absent

GetIn(p, up, c, k) ==
    IF \E i \in 1 .. Len(c) : Stops(p, c, k, i)
    THEN p[c[CHOOSE i \in 1 .. Len(c) : Stops(p, c, k, i)]][k]
    ELSE up[k]

ViewIn(p, up, c) == [k \in Keys |-> GetIn(p, up, c, k)]

ForkIn(p, up) == ViewIn(p, up, <<Root>>)

LogsIn(lg, c, tx) == FlattenSeq([i \in 1 .. Len(c) |-> lg[c[i]][tx]])

ReceiptsIn(rc, c) == UNION {rc[c[i]] : i \in 2 .. Len(c)}

StateIn(p, up, lg, rc, th, c) ==
    [view |-> ViewIn(p, up, c), logs |-> [tx \in TxHashes |-> LogsIn(lg, c, tx)],
     receipts |-> ReceiptsIn(rc, c), tx |-> th[Last(c)]]

\* A path of a handle, or what a revision cuts it to.
Rooted(c) ==
    /\ c \in Seq(Layers) /\ c # <<>> /\ c[1] = Root
    /\ \A i \in 2 .. Len(c) : c[i] # Root

\* A path has at least the root.
LEMMA RootedLen == ASSUME NEW c, Rooted(c) PROVE Len(c) \in Nat /\ Len(c) >= 1 /\ c \in Seq(Layers)
BY DEF Rooted

\* If a layer at or above m has the key, one of them is the topmost.
LEMMA TopStop ==
    ASSUME NEW p, NEW c \in Seq(Layers), NEW k, NEW m \in Nat,
           NEW a \in m .. Len(c), p[c[a]][k] # Absent
    PROVE  \E i \in m .. Len(c) : Stops(p, c, k, i)
<1>. DEFINE U == {i \in m .. Len(c) : p[c[i]][k] # Absent}
<1>1. U \subseteq 0 .. Len(c) /\ U # {} /\ Len(c) \in Nat
  OBVIOUS
<1>2. PICK i \in U : \A j \in U : j <= i
  <2>. HIDE DEF U
  <2>. QED
    BY <1>1, GreatestBounded
<1>3. ASSUME NEW j \in i + 1 .. Len(c) PROVE p[c[j]][k] = Absent
  <2>1. j \in m .. Len(c) /\ ~(j <= i)
    BY <1>1, <1>2
  <2>. QED
    BY <1>2, <2>1
<1>. QED
  BY <1>2, <1>3 DEF Stops

\* The walk has one place to stop.
LEMMA StopIs ==
    ASSUME NEW p, NEW up, NEW c \in Seq(Layers), NEW k, NEW i \in 1 .. Len(c), Stops(p, c, k, i)
    PROVE  GetIn(p, up, c, k) = p[c[i]][k]
<1>1. \A j \in 1 .. Len(c) : Stops(p, c, k, j) => j = i
  BY DEF Stops
<1>2. (CHOOSE j \in 1 .. Len(c) : Stops(p, c, k, j)) = i
  BY <1>1
<1>. QED
  BY <1>2 DEF GetIn

\* The fork state.
LEMMA ForkIs ==
    ASSUME NEW p, NEW up, NEW k \in Keys
    PROVE  ForkIn(p, up)[k] = IF p[Root][k] # Absent THEN p[Root][k] ELSE up[k]
<1>. DEFINE r == <<Root>>
<1>1. r \in Seq(Layers) /\ Len(r) = 1 /\ r[1] = Root
  BY LayersAssumption
<1>. HIDE DEF r
<1>2. ForkIn(p, up)[k] = GetIn(p, up, r, k)
  BY DEF ForkIn, ViewIn, r
<1>3. CASE p[Root][k] # Absent
  <2>1. Stops(p, r, k, 1) /\ 1 \in 1 .. Len(r)
    BY <1>1, <1>3 DEF Stops
  <2>2. GetIn(p, up, r, k) = p[r[1]][k]
    BY <1>1, <2>1, StopIs
  <2>. QED
    BY <1>1, <1>2, <1>3, <2>2
<1>4. CASE p[Root][k] = Absent
  <2>1. ~\E i \in 1 .. Len(r) : Stops(p, r, k, i)
    BY <1>1, <1>4 DEF Stops
  <2>. QED
    BY <1>2, <1>4, <2>1 DEF GetIn
<1>. QED
  BY <1>3, <1>4

\* A walk stops above the root or ends at the fork state.
Shows(p, f, c, k, v) ==
    \/ \E i \in 2 .. Len(c) : Stops(p, c, k, i) /\ v = p[c[i]][k]
    \/ (\A i \in 2 .. Len(c) : p[c[i]][k] = Absent) /\ v = f

\* get returns what the layer it stops at holds.
LEMMA GetShows ==
    ASSUME NEW p, NEW up, NEW c, Rooted(c), NEW k \in Keys
    PROVE  Shows(p, ForkIn(p, up)[k], c, k, GetIn(p, up, c, k))
<1>0. c \in Seq(Layers) /\ Len(c) \in Nat /\ Len(c) >= 1 /\ c[1] = Root
  BY DEF Rooted
<1>1. CASE \A i \in 2 .. Len(c) : p[c[i]][k] = Absent
  <2>1. CASE p[Root][k] # Absent
    <3>1. Stops(p, c, k, 1) /\ 1 \in 1 .. Len(c)
      BY <1>0, <1>1, <2>1 DEF Stops
    <3>2. GetIn(p, up, c, k) = p[Root][k]
      BY <1>0, <3>1, StopIs
    <3>. QED
      BY <1>1, <2>1, <3>2, ForkIs DEF Shows
  <2>2. CASE p[Root][k] = Absent
    <3>1. ~\E i \in 1 .. Len(c) : Stops(p, c, k, i)
      BY <1>0, <1>1, <2>2 DEF Stops
    <3>2. GetIn(p, up, c, k) = up[k]
      BY <3>1 DEF GetIn
    <3>. QED
      BY <1>1, <2>2, <3>2, ForkIs DEF Shows
  <2>. QED
    BY <2>1, <2>2
<1>2. CASE \E i \in 2 .. Len(c) : p[c[i]][k] # Absent
  <2>1. PICK i \in 2 .. Len(c) : Stops(p, c, k, i)
    BY <1>0, <1>2, TopStop
  <2>2. i \in 1 .. Len(c)
    BY <1>0
  <2>. QED
    BY <1>0, <2>1, <2>2, StopIs DEF Shows
<1>. QED
  BY <1>1, <1>2

\* If each layer keeps its value or gets w, and so does the fork state, a
\* walk shows what it showed or w.
LEMMA MixGet ==
    ASSUME NEW p, NEW up, NEW q, NEW up2, NEW c, Rooted(c), NEW k \in Keys, NEW w,
           \A i \in 2 .. Len(c) : q[c[i]][k] = p[c[i]][k] \/ (q[c[i]][k] = w /\ w # Absent),
           ForkIn(q, up2)[k] \in {ForkIn(p, up)[k], w}
    PROVE  GetIn(q, up2, c, k) \in {GetIn(p, up, c, k), w}
<1>. DEFINE f == ForkIn(p, up)[k]
            g == ForkIn(q, up2)[k]
            v == GetIn(p, up, c, k)
            x == GetIn(q, up2, c, k)
<1>0. c \in Seq(Layers) /\ Len(c) \in Nat
  BY DEF Rooted
<1>1. Shows(p, f, c, k, v) /\ Shows(q, g, c, k, x) /\ g \in {f, w}
  BY GetShows
<1>. HIDE DEF f, g, v, x
<1>2. CASE (\A i \in 2 .. Len(c) : q[c[i]][k] = Absent) /\ x = g
  <2>1. \A i \in 2 .. Len(c) : p[c[i]][k] = Absent
    BY <1>2
  <2>2. v = f
    BY <1>1, <2>1 DEF Shows, Stops
  <2>. QED
    BY <1>1, <1>2, <2>2 DEF x, v
<1>3. CASE \E i \in 2 .. Len(c) : Stops(q, c, k, i) /\ x = q[c[i]][k]
  <2>1. PICK i \in 2 .. Len(c) : Stops(q, c, k, i) /\ x = q[c[i]][k]
    BY <1>3
  <2>2. CASE q[c[i]][k] = w
    BY <2>1, <2>2 DEF x
  <2>3. CASE q[c[i]][k] = p[c[i]][k]
    <3>1. \A j \in i + 1 .. Len(c) : j \in 2 .. Len(c) /\ p[c[j]][k] = Absent
      BY <1>0, <2>1 DEF Stops
    <3>2. Stops(p, c, k, i) /\ i \in 1 .. Len(c)
      BY <1>0, <2>1, <2>3, <3>1 DEF Stops
    <3>3. v = p[c[i]][k]
      BY <1>0, <3>2, StopIs DEF v
    <3>. QED
      BY <2>1, <2>3, <3>3 DEF x, v
  <2>. QED
    BY <2>1, <2>2, <2>3
<1>. QED
  BY <1>1, <1>2, <1>3 DEF Shows

\* If no layer and not the fork state changes, nothing does.
LEMMA SameGet ==
    ASSUME NEW p, NEW up, NEW q, NEW up2, NEW c, Rooted(c), NEW k \in Keys,
           \A i \in 2 .. Len(c) : q[c[i]][k] = p[c[i]][k],
           ForkIn(q, up2)[k] = ForkIn(p, up)[k]
    PROVE  GetIn(q, up2, c, k) = GetIn(p, up, c, k)
<1>. DEFINE w == GetIn(p, up, c, k)
<1>1. GetIn(q, up2, c, k) \in {GetIn(p, up, c, k), w}
  <2>. HIDE DEF w
  <2>. QED
    BY MixGet
<1>. QED
  BY <1>1

\* An empty layer on top shows what is below.
LEMMA GrowGet ==
    ASSUME NEW p, NEW up, NEW c, Rooted(c), NEW l \in Layers \ {Root}, NEW k \in Keys, p[l][k] = Absent
    PROVE  Rooted(Append(c, l)) /\ GetIn(p, up, Append(c, l), k) = GetIn(p, up, c, k)
<1>. DEFINE e == Append(c, l)
            n == Len(c) + 1
<1>0. /\ c \in Seq(Layers) /\ Len(c) \in Nat /\ Len(c) >= 1 /\ c[1] = Root /\ \A i \in 2 .. Len(c) : c[i] # Root
      /\ e \in Seq(Layers) /\ Len(e) = n /\ e[n] = l /\ \A i \in 1 .. Len(c) : e[i] = c[i]
  BY DEF Rooted
<1>. HIDE DEF e
<1>1. Rooted(e)
  <2>1. e # <<>> /\ e[1] = Root
    BY <1>0
  <2>2. ASSUME NEW i \in 2 .. Len(e) PROVE e[i] # Root
    <3>1. i = n \/ (i \in 2 .. Len(c) /\ i \in 1 .. Len(c))
      BY <1>0
    <3>. QED
      BY <1>0, <3>1
  <2>. QED
    BY <1>0, <2>1, <2>2 DEF Rooted
<1>2. ASSUME NEW i \in 2 .. Len(e) PROVE i = n \/ (i \in 2 .. Len(c) /\ i \in 1 .. Len(c))
  BY <1>0
<1>3. Shows(p, ForkIn(p, up)[k], c, k, GetIn(p, up, c, k))
  BY GetShows
<1>4. CASE \E i \in 2 .. Len(c) : Stops(p, c, k, i) /\ GetIn(p, up, c, k) = p[c[i]][k]
  <2>1. PICK i \in 2 .. Len(c) : Stops(p, c, k, i) /\ GetIn(p, up, c, k) = p[c[i]][k]
    BY <1>4
  <2>2. ASSUME NEW j \in i + 1 .. Len(e) PROVE p[e[j]][k] = Absent
    <3>1. j = n \/ (j \in i + 1 .. Len(c) /\ j \in 1 .. Len(c))
      BY <1>0
    <3>. QED
      BY <1>0, <2>1, <3>1 DEF Stops
  <2>3. i \in 1 .. Len(c) /\ i \in 1 .. Len(e)
    BY <1>0
  <2>4. Stops(p, e, k, i) /\ p[e[i]][k] = p[c[i]][k]
    BY <1>0, <2>1, <2>2, <2>3 DEF Stops
  <2>5. GetIn(p, up, e, k) = p[e[i]][k]
    BY <1>0, <2>3, <2>4, StopIs
  <2>. QED
    BY <1>1, <2>1, <2>4, <2>5 DEF e
<1>5. CASE (\A i \in 2 .. Len(c) : p[c[i]][k] = Absent) /\ GetIn(p, up, c, k) = ForkIn(p, up)[k]
  <2>1. \A i \in 2 .. Len(e) : p[e[i]][k] = Absent
    BY <1>0, <1>2, <1>5
  <2>2. Shows(p, ForkIn(p, up)[k], e, k, GetIn(p, up, e, k))
    BY <1>1, GetShows
  <2>3. GetIn(p, up, e, k) = ForkIn(p, up)[k]
    BY <2>1, <2>2 DEF Shows, Stops
  <2>. QED
    BY <1>1, <1>5, <2>3 DEF e
<1>. QED
  BY <1>3, <1>4, <1>5 DEF Shows

-----------------------------------------------------------------------------
(* Logs: one list behind the other. *)

\* The first n of a list of lists, in one.
Flat(f, n) == FlattenSeq([i \in 1 .. n |-> f[i]])

\* The passes of FlattenSeq.
Piles(g, f, n) == g = [i \in 1 .. n |-> IF i = 1 THEN f[i] ELSE g[i - 1] \o f[i]]

\* There is such a g, for every length.
LEMMA PilesExist == ASSUME NEW f, NEW n \in Nat PROVE \E g : Piles(g, f, n)
<1>. DEFINE S == {m \in Nat : \E g : Piles(g, f, m)}
<1>1. 0 \in S
  <2>1. Piles([i \in 1 .. 0 |-> <<>>], f, 0)
    BY DEF Piles
  <2>. QED
    BY <2>1
<1>2. ASSUME NEW m \in Nat, m \in S PROVE m + 1 \in S
  <2>1. PICK g : Piles(g, f, m)
    BY <1>2
  <2>. DEFINE h == [i \in 1 .. m + 1 |-> IF i <= m THEN g[i] ELSE IF i = 1 THEN f[i] ELSE g[m] \o f[i]]
  <2>2. ASSUME NEW i \in 1 .. m + 1 PROVE h[i] = IF i = 1 THEN f[i] ELSE h[i - 1] \o f[i]
    <3>1. CASE i = 1
      BY <2>1, <3>1 DEF Piles
    <3>2. CASE i # 1 /\ i <= m
      <4>1. i \in 1 .. m /\ i - 1 \in 1 .. m + 1 /\ i - 1 <= m
        BY <3>2
      <4>2. h[i] = g[i] /\ h[i - 1] = g[i - 1]
        BY <3>2, <4>1
      <4>3. g[i] = g[i - 1] \o f[i]
        BY <2>1, <3>2, <4>1 DEF Piles
      <4>. QED
        BY <3>2, <4>2, <4>3
    <3>3. CASE i # 1 /\ ~(i <= m)
      <4>1. i = m + 1 /\ i - 1 = m /\ m \in 1 .. m + 1 /\ m <= m
        BY <3>3
      <4>2. h[i] = g[m] \o f[i] /\ h[i - 1] = g[m]
        BY <3>3, <4>1
      <4>. QED
        BY <3>3, <4>2
    <3>. QED
      BY <3>1, <3>2, <3>3
  <2>3. Piles(h, f, m + 1)
    BY <2>2 DEF Piles
  <2>4. \E j : Piles(j, f, m + 1)
    <3>. HIDE DEF h
    <3>. QED
      BY <2>3
  <2>5. m + 1 \in Nat
    OBVIOUS
  <2>. QED
    BY <2>4, <2>5, Zenon
<1>3. n \in S
  <2>. HIDE DEF S
  <2>. QED
    BY <1>1, <1>2, SetInduction
<1>. QED
  BY <1>3

\* It does not depend on the length.
LEMMA PilesOne ==
    ASSUME NEW f, NEW m \in Nat, NEW n \in Nat, NEW g, NEW h, Piles(g, f, m), Piles(h, f, n)
    PROVE  \A i \in Nat : i \in 1 .. m /\ i \in 1 .. n => g[i] = h[i]
<1>. DEFINE S == {i \in Nat : i \in 1 .. m /\ i \in 1 .. n => g[i] = h[i]}
<1>1. 0 \in S
  OBVIOUS
<1>2. ASSUME NEW i \in Nat, i \in S PROVE i + 1 \in S
  <2>. SUFFICES ASSUME i + 1 \in 1 .. m, i + 1 \in 1 .. n PROVE g[i + 1] = h[i + 1]
    OBVIOUS
  <2>1. (i + 1) - 1 = i /\ (i + 1 # 1 => i \in 1 .. m /\ i \in 1 .. n)
    OBVIOUS
  <2>2. /\ g[i + 1] = IF i + 1 = 1 THEN f[i + 1] ELSE g[(i + 1) - 1] \o f[i + 1]
        /\ h[i + 1] = IF i + 1 = 1 THEN f[i + 1] ELSE h[(i + 1) - 1] \o f[i + 1]
    BY DEF Piles
  <2>3. i + 1 # 1 => g[i] = h[i]
    BY <1>2, <2>1
  <2>. QED
    BY <2>1, <2>2, <2>3
<1>3. Nat \subseteq S
  <2>. HIDE DEF S
  <2>. QED
    BY <1>1, <1>2, SetInduction
<1>. QED
  BY <1>3

\* What FlattenSeq returns.
LEMMA FlatIs ==
    ASSUME NEW f, NEW n \in Nat, n > 0, NEW g, Piles(g, f, n)
    PROVE  Flat(f, n) = g[n]
<1>. DEFINE s == [i \in 1 .. n |-> f[i]]
            Pass(h) == h = [i \in 1 .. Len(s) |-> IF i = 1 THEN s[i] ELSE h[i - 1] \o s[i]]
            h0 == CHOOSE h : Pass(h)
<1>1. Len(s) = n /\ \A i \in 1 .. n : s[i] = f[i]
  OBVIOUS
<1>2. ASSUME NEW h PROVE Pass(h) <=> Piles(h, f, n)
  <2>1. [i \in 1 .. Len(s) |-> IF i = 1 THEN s[i] ELSE h[i - 1] \o s[i]]
          = [i \in 1 .. n |-> IF i = 1 THEN f[i] ELSE h[i - 1] \o f[i]]
    BY <1>1
  <2>. QED
    BY <2>1 DEF Piles
<1>3. FlattenSeq(s) = h0[Len(s)]
  <2>. HIDE DEF s
  <2>. QED
    BY <1>1 DEF FlattenSeq
<1>4. Pass(h0)
  <2>. HIDE DEF Pass
  <2>1. \E h : Pass(h)
    BY <1>2
  <2>. QED
    BY <2>1
<1>5. Piles(h0, f, n)
  BY <1>2, <1>4
<1>6. h0[n] = g[n]
  <2>. HIDE DEF h0
  <2>. QED
    BY <1>5, PilesOne
<1>. QED
  BY <1>1, <1>3, <1>6 DEF Flat

\* The first and the next list.
LEMMA FlatZero == ASSUME NEW f PROVE Flat(f, 0) = <<>>
BY DEF Flat, FlattenSeq

\* One more list goes to the end.
LEMMA FlatNext ==
    ASSUME NEW X, NEW f, NEW n \in Nat, f[n + 1] \in Seq(X)
    PROVE  Flat(f, n + 1) = Flat(f, n) \o f[n + 1]
<1>0. n + 1 \in Nat
  OBVIOUS
<1>1. PICK g : Piles(g, f, n + 1)
  BY <1>0, PilesExist
<1>2. n + 1 \in Nat /\ n + 1 > 0 /\ n + 1 \in 1 .. n + 1 /\ (n + 1) - 1 = n
  OBVIOUS
<1>3. Flat(f, n + 1) = g[n + 1]
  BY <1>1, <1>2, FlatIs
<1>4. g[n + 1] = IF n + 1 = 1 THEN f[n + 1] ELSE g[(n + 1) - 1] \o f[n + 1]
  BY <1>1, <1>2 DEF Piles
<1>5. CASE n = 0
  BY <1>3, <1>4, <1>5, FlatZero, ConcatEmptySeq
<1>6. CASE n # 0
  <2>1. PICK h : Piles(h, f, n)
    BY PilesExist
  <2>2. n > 0 /\ n \in 1 .. n /\ n \in 1 .. n + 1 /\ n + 1 # 1
    BY <1>6
  <2>3. Flat(f, n) = h[n]
    BY <2>1, <2>2, FlatIs
  <2>4. h[n] = g[n]
    <3>1. \A i \in Nat : i \in 1 .. n /\ i \in 1 .. n + 1 => h[i] = g[i]
      BY <1>0, <1>1, <2>1, PilesOne
    <3>. QED
      BY <2>2, <3>1
  <2>. QED
    BY <1>2, <1>3, <1>4, <2>2, <2>3, <2>4
<1>. QED
  BY <1>5, <1>6

\* It is a list.
LEMMA FlatType ==
    ASSUME NEW X, NEW f, NEW n \in Nat, \A i \in 1 .. n : f[i] \in Seq(X)
    PROVE  Flat(f, n) \in Seq(X)
<1>. DEFINE S == {m \in Nat : m <= n => Flat(f, m) \in Seq(X)}
<1>1. 0 \in S
  <2>1. Flat(f, 0) = <<>> /\ <<>> \in Seq(X)
    BY FlatZero
  <2>. QED
    BY <2>1
<1>2. ASSUME NEW m \in Nat, m \in S PROVE m + 1 \in S
  <2>. SUFFICES ASSUME m + 1 <= n PROVE Flat(f, m + 1) \in Seq(X)
    OBVIOUS
  <2>1. f[m + 1] \in Seq(X) /\ Flat(f, m) \in Seq(X)
    BY <1>2
  <2>2. Flat(f, m + 1) = Flat(f, m) \o f[m + 1]
    BY <2>1, FlatNext
  <2>. QED
    BY <2>1, <2>2, ConcatProperties
<1>3. n \in S
  <2>. HIDE DEF S
  <2>. QED
    BY <1>1, <1>2, SetInduction
<1>. QED
  BY <1>3

\* Equal lists, equal results.
LEMMA FlatSame ==
    ASSUME NEW f, NEW g, NEW n, \A i \in 1 .. n : f[i] = g[i] PROVE Flat(f, n) = Flat(g, n)
<1>1. [i \in 1 .. n |-> f[i]] = [i \in 1 .. n |-> g[i]]
  OBVIOUS
<1>. QED
  BY <1>1 DEF Flat

\* t is s with x put in somewhere.
Inserted(s, t, x, X) == \E a, b \in Seq(X) : s = a \o b /\ t = (a \o <<x>>) \o b

\* One list gets longer by x.
LEMMA FlatInsert ==
    ASSUME NEW X, NEW f, NEW g, NEW n \in Nat, NEW a \in 1 .. n, NEW x \in X,
           \A i \in 1 .. n : f[i] \in Seq(X),
           \A i \in 1 .. n : g[i] = IF i = a THEN Append(f[i], x) ELSE f[i]
    PROVE  Inserted(Flat(f, n), Flat(g, n), x, X)
<1>. DEFINE S == {k \in Nat : a + k <= n => Inserted(Flat(f, a + k), Flat(g, a + k), x, X)}
<1>0. /\ \A i \in 1 .. n : g[i] \in Seq(X)
      /\ a - 1 \in Nat /\ (a - 1) + 1 = a /\ \A i \in 1 .. a - 1 : i \in 1 .. n /\ i # a
  <2>1. ASSUME NEW i \in 1 .. n PROVE g[i] \in Seq(X)
    <3>1. PICK y \in Seq(X) : y = f[i]
      OBVIOUS
    <3>2. Append(y, x) \in Seq(X)
      OBVIOUS
    <3>. QED
      BY <3>1, <3>2
  <2>2. a - 1 \in Nat /\ (a - 1) + 1 = a /\ \A i \in 1 .. a - 1 : i \in 1 .. n /\ i # a
    OBVIOUS
  <2>. QED
    BY <2>1, <2>2
<1>1. 0 \in S
  <2>1. PICK r \in Seq(X) : r = Flat(f, a - 1)
    BY <1>0, FlatType
  <2>2. Flat(g, a - 1) = r
    <3>1. \A i \in 1 .. a - 1 : f[i] = g[i]
      BY <1>0
    <3>. QED
      BY <2>1, <3>1, FlatSame
  <2>3. PICK y \in Seq(X) : y = f[a]
    OBVIOUS
  <2>4. g[a] = Append(y, x) /\ Append(y, x) = y \o <<x>> /\ <<x>> \in Seq(X) /\ Append(y, x) \in Seq(X)
    <3>1. g[a] = Append(y, x)
      BY <2>3
    <3>2. Append(y, x) = y \o <<x>>
      BY AppendIsConcat
    <3>. QED
      BY <3>1, <3>2
  <2>5. Flat(f, a) = r \o y
    BY <1>0, <2>1, <2>3, FlatNext
  <2>6. Flat(g, a) = r \o (y \o <<x>>)
    BY <1>0, <2>2, <2>4, FlatNext
  <2>7. PICK u \in Seq(X) : u = r \o y
    BY ConcatProperties
  <2>8. u \o <<>> = u /\ u \o <<x>> \in Seq(X)
    BY <2>4, ConcatEmptySeq, ConcatProperties
  <2>9. (u \o <<x>>) \o <<>> = u \o <<x>> /\ u \o <<x>> = r \o (y \o <<x>>)
    BY <2>4, <2>7, <2>8, ConcatEmptySeq, ConcatAssociative
  <2>10. <<>> \in Seq(X) /\ a + 0 = a
    OBVIOUS
  <2>11. Flat(f, a) = u \o <<>> /\ Flat(g, a) = (u \o <<x>>) \o <<>>
    BY <2>5, <2>6, <2>7, <2>8, <2>9
  <2>12. Inserted(Flat(f, a), Flat(g, a), x, X)
    BY <2>10, <2>11 DEF Inserted
  <2>. QED
    BY <2>10, <2>12
<1>2. ASSUME NEW k \in Nat, k \in S PROVE k + 1 \in S
  <2>. SUFFICES ASSUME a + (k + 1) <= n PROVE Inserted(Flat(f, a + (k + 1)), Flat(g, a + (k + 1)), x, X)
    OBVIOUS
  <2>0. /\ a + k \in Nat /\ a + k <= n /\ a + (k + 1) = (a + k) + 1 /\ (a + k) + 1 \in 1 .. n
        /\ (a + k) + 1 # a
    OBVIOUS
  <2>1. PICK u, v \in Seq(X) : Flat(f, a + k) = u \o v /\ Flat(g, a + k) = (u \o <<x>>) \o v
    BY <1>2, <2>0 DEF Inserted
  <2>2. PICK y \in Seq(X) : y = f[(a + k) + 1] /\ y = g[(a + k) + 1]
    BY <2>0
  <2>3. Flat(f, (a + k) + 1) = (u \o v) \o y /\ Flat(g, (a + k) + 1) = ((u \o <<x>>) \o v) \o y
    BY <2>0, <2>1, <2>2, FlatNext
  <2>4. PICK w \in Seq(X) : w = u \o <<x>>
    <3>1. <<x>> \in Seq(X)
      OBVIOUS
    <3>. QED
      BY <3>1, ConcatProperties
  <2>5. (u \o v) \o y = u \o (v \o y) /\ (w \o v) \o y = w \o (v \o y) /\ v \o y \in Seq(X)
    <3>1. \A z \in Seq(X) : (z \o v) \o y = z \o (v \o y)
      BY ONLY v \in Seq(X), y \in Seq(X), ConcatAssociative
    <3>2. v \o y \in Seq(X)
      OBVIOUS
    <3>. QED
      BY <3>1, <3>2
  <2>6. Inserted(Flat(f, (a + k) + 1), Flat(g, (a + k) + 1), x, X)
    BY <2>3, <2>4, <2>5 DEF Inserted
  <2>. QED
    BY <2>0, <2>6
<1>3. n - a \in Nat /\ a + (n - a) = n
  OBVIOUS
<1>4. n - a \in S
  <2>. HIDE DEF S
  <2>. QED
    BY <1>1, <1>2, <1>3, SetInduction
<1>. QED
  BY <1>3, <1>4

\* Put in somewhere is put in at a position.
LEMMA InsertedAt ==
    ASSUME NEW X, NEW s, NEW t, NEW x \in X, Inserted(s, t, x, X)
    PROVE  \E i \in 1 .. Len(s) + 1 : t = InsertAt(s, i, x)
<1>1. PICK a, b \in Seq(X) : s = a \o b /\ t = (a \o <<x>>) \o b
  BY DEF Inserted
<1>2. /\ Len(a) \in Nat /\ Len(b) \in Nat /\ Len(s) = Len(a) + Len(b) /\ s \in Seq(X)
      /\ \A i \in 1 .. Len(a) : s[i] = a[i]
      /\ \A i \in 1 .. Len(b) : s[Len(a) + i] = b[i]
  BY <1>1
<1>3. SubSeq(s, 1, Len(a)) = a
  BY <1>2, SubSeqProperties, SeqEqual
<1>4. SubSeq(s, Len(a) + 1, Len(s)) = b
  <2>1. PICK c : c = SubSeq(s, Len(a) + 1, Len(s))
    OBVIOUS
  <2>2. c \in Seq(X) /\ Len(c) = Len(b) /\ \A i \in 1 .. Len(b) : c[i] = b[i]
    BY <1>2, <2>1
  <2>3. c = b
    BY <2>2, SeqEqual
  <2>. QED
    BY <2>1, <2>3
<1>5. (Len(a) + 1) - 1 = Len(a) /\ Len(a) + 1 \in 1 .. Len(s) + 1
  BY <1>2
<1>6. InsertAt(s, Len(a) + 1, x) = (a \o <<x>>) \o b
  BY <1>3, <1>4, <1>5 DEF InsertAt
<1>. QED
  BY <1>1, <1>5, <1>6

\* What goes on is a prefix.
LEMMA MoreIsPrefix == ASSUME NEW X, NEW a \in Seq(X), NEW b \in Seq(X) PROVE IsPrefix(a, a \o b)
<1>1. /\ Len(a) \in Nat /\ Len(b) \in Nat /\ Len(a \o b) = Len(a) + Len(b)
  OBVIOUS
<1>2. SubSeq(a, 1, Len(a)) = SubSeq(a \o b, 1, Len(a))
  <2>1. CASE Len(a) = 0
    BY <2>1, SubSeqEmpty
  <2>2. CASE Len(a) # 0
    <3>1. 1 \in 1 .. Len(a) /\ Len(a) \in 1 .. Len(a)
      BY <1>1, <2>2
    <3>. QED
      BY <3>1, SubSeqOfConcat1
  <2>. QED
    BY <2>1, <2>2
<1>. QED
  BY <1>1, <1>2 DEF IsPrefix

\* The lists after the m-th only add at the end.
LEMMA FlatMore ==
    ASSUME NEW X, NEW f, NEW n \in Nat, \A i \in 1 .. n : f[i] \in Seq(X), NEW m \in 0 .. n
    PROVE  IsPrefix(Flat(f, m), Flat(f, n))
<1>. DEFINE S == {k \in Nat : m + k <= n => \E b \in Seq(X) : Flat(f, m + k) = Flat(f, m) \o b}
<1>0. Flat(f, m) \in Seq(X)
  BY FlatType
<1>1. 0 \in S
  <2>1. Flat(f, m + 0) = Flat(f, m) \o <<>>
    BY <1>0, ConcatEmptySeq
  <2>2. <<>> \in Seq(X)
    OBVIOUS
  <2>. QED
    BY <2>1, <2>2
<1>2. ASSUME NEW k \in Nat, k \in S PROVE k + 1 \in S
  <2>. SUFFICES ASSUME m + (k + 1) <= n PROVE \E b \in Seq(X) : Flat(f, m + (k + 1)) = Flat(f, m) \o b
    OBVIOUS
  <2>0. m + k \in Nat /\ m + k <= n /\ m + (k + 1) = (m + k) + 1 /\ (m + k) + 1 \in 1 .. n
    OBVIOUS
  <2>1. PICK b \in Seq(X) : Flat(f, m + k) = Flat(f, m) \o b
    BY <1>2, <2>0
  <2>2. PICK y \in Seq(X) : y = f[(m + k) + 1]
    BY <2>0
  <2>3. Flat(f, (m + k) + 1) = Flat(f, m + k) \o y
    BY <2>0, <2>2, FlatNext
  <2>4. (Flat(f, m) \o b) \o y = Flat(f, m) \o (b \o y) /\ b \o y \in Seq(X)
    <3>1. PICK z \in Seq(X) : z = Flat(f, m)
      BY <1>0
    <3>2. (z \o b) \o y = z \o (b \o y)
      BY ONLY z \in Seq(X), b \in Seq(X), y \in Seq(X), ConcatAssociative
    <3>3. b \o y \in Seq(X)
      OBVIOUS
    <3>. QED
      BY <3>1, <3>2, <3>3
  <2>. QED
    BY <2>0, <2>1, <2>3, <2>4
<1>3. n - m \in Nat /\ m + (n - m) = n
  OBVIOUS
<1>4. n - m \in S
  <2>. HIDE DEF S
  <2>. QED
    BY <1>1, <1>2, <1>3, SetInduction
<1>5. PICK b \in Seq(X) : Flat(f, n) = Flat(f, m) \o b
  BY <1>3, <1>4
<1>. QED
  BY <1>0, <1>5, MoreIsPrefix

-----------------------------------------------------------------------------
(* The states of the contract. *)

\* What a path shows before and after a step.
Now(c) == StateIn(pad, UpstreamAt[bn], txLogs, receipts, txHash, c)
Then(c) == StateIn(pad', UpstreamAt[bn'], txLogs', receipts', txHash', c)

\* The path below a cut.
Pre(c, n) == SubSeq(c, 1, n)

\* The fork state is what the bare root shows.
LEMMA ForkMap ==
    ForkState = ForkIn(pad, UpstreamAt[bn]) /\ ForkState' = ForkIn(pad', UpstreamAt[bn'])
BY DEF ForkState, ForkIn, ViewIn, GetIn, Stops, View, Get, Hit, StopsAt, Upstream

\* The states of the handles are what their paths show.
LEMMA StateMap ==
    /\ HandleStates = [e \in Open |-> Now(chain[e])]
    /\ HandleStates' = [e \in Open' |-> Then(chain'[e])]
BY DEF HandleStates, StateOf, View, Get, Hit, StopsAt, Upstream, GetLogs, Receipts, Open,
       Now, Then, StateIn, ViewIn, GetIn, Stops, LogsIn, ReceiptsIn

\* The states of the revisions are what the cut paths show.
LEMMA SavedMap ==
    /\ SavedStates = [e \in DBs |-> [i \in DOMAIN held[e] |-> Now(Pre(chain[e], held[e][i]))]]
    /\ SavedStates' = [e \in DBs |-> [i \in DOMAIN held'[e] |-> Then(Pre(chain'[e], held'[e][i]))]]
BY DEF SavedStates, StateOf, View, Get, Hit, StopsAt, Upstream, GetLogs, Receipts, Pre,
       Now, Then, StateIn, ViewIn, GetIn, Stops, LogsIn, ReceiptsIn

\* Paths of handles and what revisions cut them to.
LEMMA PathsRooted ==
    ASSUME HandlesInv, NEW d \in Open
    PROVE  Rooted(chain[d]) /\ chain[d] \in Seq(Layers) /\ Len(chain[d]) \in Nat /\ Len(chain[d]) >= 1
BY DEF HandlesInv, HandleOK, Open, Rooted

\* A cut path is a path, with the layers below the cut.
LEMMA PreIs ==
    ASSUME NEW c, Rooted(c), NEW n \in 1 .. Len(c)
    PROVE  /\ Rooted(Pre(c, n)) /\ Len(Pre(c, n)) = n
           /\ \A i \in 1 .. n : Pre(c, n)[i] = c[i] /\ i \in 1 .. Len(c)
           /\ \A i \in 2 .. n : Pre(c, n)[i] = c[i] /\ i \in 2 .. Len(c)
           /\ Last(Pre(c, n)) = c[n]
<1>. DEFINE q == Pre(c, n)
<1>0. /\ c \in Seq(Layers) /\ Len(c) \in Nat /\ c[1] = Root /\ n \in 0 .. Len(c)
      /\ \A i \in 2 .. Len(c) : c[i] # Root
  BY DEF Rooted
<1>1. q \in Seq(Layers) /\ Len(q) = n /\ \A i \in 1 .. n : q[i] = c[i]
  BY <1>0, Prefix DEF Pre
<1>. HIDE DEF q
<1>2. q # <<>> /\ q[1] = Root
  BY <1>0, <1>1
<1>3. ASSUME NEW i \in 2 .. n PROVE q[i] = c[i] /\ i \in 2 .. Len(c)
  BY <1>0, <1>1
<1>4. Rooted(q)
  BY <1>0, <1>1, <1>2, <1>3 DEF Rooted
<1>5. n \in 1 .. n /\ \A i \in 1 .. n : i \in 1 .. Len(c)
  BY <1>0
<1>. QED
  BY <1>1, <1>3, <1>4, <1>5 DEF q, Last

\* Cutting nothing off.
LEMMA PreFull == ASSUME NEW c \in Seq(Layers) PROVE Pre(c, Len(c)) = c
BY SubSeqFull DEF Pre

\* Cutting twice is cutting at the lower place.
LEMMA PrePre ==
    ASSUME NEW c \in Seq(Layers), NEW n \in 0 .. Len(c), NEW m \in 0 .. n
    PROVE  Pre(Pre(c, n), m) = Pre(c, m)
<1>. DEFINE q == Pre(c, n)
            a == Pre(q, m)
            b == Pre(c, m)
<1>1. q \in Seq(Layers) /\ Len(q) = n /\ \A i \in 1 .. n : q[i] = c[i]
  BY Prefix DEF Pre
<1>2. m \in 0 .. Len(c) /\ m \in 0 .. Len(q) /\ \A i \in 1 .. m : i \in 1 .. n
  BY <1>1
<1>. HIDE DEF q
<1>3. a \in Seq(Layers) /\ Len(a) = m /\ \A i \in 1 .. m : a[i] = q[i]
  BY <1>1, <1>2, Prefix DEF Pre
<1>4. b \in Seq(Layers) /\ Len(b) = m /\ \A i \in 1 .. m : b[i] = c[i]
  BY <1>2, Prefix DEF Pre
<1>. HIDE DEF a, b
<1>5. \A i \in 1 .. Len(a) : a[i] = b[i]
  BY <1>1, <1>2, <1>3, <1>4
<1>6. a = b
  BY <1>3, <1>4, <1>5, SeqEqual
<1>. QED
  BY <1>6 DEF a, b, q

\* A layer put on top is above every cut.
LEMMA PreAppend ==
    ASSUME NEW c \in Seq(Layers), NEW l \in Layers, NEW m \in 0 .. Len(c)
    PROVE  Pre(Append(c, l), m) = Pre(c, m)
<1>. DEFINE q == Append(c, l)
            a == Pre(q, m)
            b == Pre(c, m)
<1>1. q \in Seq(Layers) /\ Len(q) = Len(c) + 1 /\ \A i \in 1 .. Len(c) : q[i] = c[i]
  OBVIOUS
<1>2. m \in 0 .. Len(q) /\ \A i \in 1 .. m : i \in 1 .. Len(c)
  BY <1>1
<1>. HIDE DEF q
<1>3. a \in Seq(Layers) /\ Len(a) = m /\ \A i \in 1 .. m : a[i] = q[i]
  BY <1>1, <1>2, Prefix DEF Pre
<1>4. b \in Seq(Layers) /\ Len(b) = m /\ \A i \in 1 .. m : b[i] = c[i]
  BY Prefix DEF Pre
<1>. HIDE DEF a, b
<1>5. \A i \in 1 .. Len(a) : a[i] = b[i]
  BY <1>1, <1>2, <1>3, <1>4
<1>6. a = b
  BY <1>3, <1>4, <1>5, SeqEqual
<1>. QED
  BY <1>6 DEF a, b, q

\* Revisions lie within the path, above the floor.
LEMMA IdsWithin ==
    ASSUME HandlesInv, NEW d \in DBs, NEW i \in DOMAIN held[d]
    PROVE  /\ d \in Open /\ i \in 1 .. Len(held[d]) /\ held[d][i] \in 1 .. Len(chain[d]) - 1 
           /\ held[d][i] \in 1 .. Len(chain[d]) /\ floor[d] < held[d][i]
           /\ \A j \in 1 .. i : held[d][j] \in 1 .. held[d][i]
           /\ \A j \in 1 .. i - 1 : held[d][j] \in 1 .. held[d][i]
<1>1. /\ held[d] \in Seq(Nat) /\ chain[d] \in Seq(Layers) /\ floor[d] \in Nat
      /\ HandleOK(chain[d], held[d], floor[d]) /\ Len(chain[d]) \in Nat
  BY DEF HandlesInv
<1>2. i \in 1 .. Len(held[d]) /\ held[d] # <<>>
  BY <1>1
<1>3. \A j \in 1 .. Len(held[d]) : held[d][j] \in 1 .. Len(chain[d]) - 1 /\ floor[d] < held[d][j]
  BY <1>1, HeldId
<1>4. \A j \in 1 .. i : held[d][j] < held[d][i] + 1 /\ j \in 1 .. Len(held[d])
  BY <1>1, <1>2, HeldId
<1>5. \A j \in 1 .. i : held[d][j] \in 1 .. held[d][i]
  BY <1>1, <1>2, <1>3, <1>4
<1>6. d \in Open
  BY <1>2, HeldIsOpen
<1>7. \A j \in 1 .. i - 1 : j \in 1 .. i
  BY <1>2
<1>. QED
  BY <1>1, <1>2, <1>3, <1>5, <1>6, <1>7

-----------------------------------------------------------------------------
(* Steps seen through a path. *)

\* The layers of a path keep their logs and receipts.
Kept(c) ==
    \A i \in 1 .. Len(c) : /\ txLogs'[c[i]] = txLogs[c[i]] /\ receipts'[c[i]] = receipts[c[i]]
                           /\ txHash'[c[i]] = txHash[c[i]]

\* Above the root, a layer of the path keeps its value or gets w's, and only
\* for keys in ks.
Mixing(c, w, ks) ==
    /\ \A k \in Keys, i \in 2 .. Len(c) :
         \/ pad'[c[i]][k] = pad[c[i]][k]
         \/ k \in ks /\ pad'[c[i]][k] = w[k] /\ w[k] # Absent
    /\ \A k \in Keys : ForkState'[k] = ForkState[k] \/ (k \in ks /\ ForkState'[k] = w[k])

\* t is s mixed with w, at keys in ks.
Mixed(s, t, w, ks) ==
    Contract!Mixes(s, t, w) /\ \A k \in Keys \ ks : s.view[k] = t.view[k]

\* A path whose layers keep their notes shows the same notes.
LEMMA KeptState ==
    ASSUME NEW c, Rooted(c), Kept(c)
    PROVE  /\ Then(c).logs = Now(c).logs /\ Then(c).receipts = Now(c).receipts /\ Then(c).tx = Now(c).tx
           /\ Then(c) = [Now(c) EXCEPT !.view = Then(c).view]
<1>0. c \in Seq(Layers) /\ Len(c) \in Nat /\ Len(c) \in 1 .. Len(c) /\ 2 .. Len(c) \subseteq 1 .. Len(c)
  BY DEF Rooted
<1>1. \A tx \in TxHashes : LogsIn(txLogs', c, tx) = LogsIn(txLogs, c, tx)
  <2>1. ASSUME NEW tx \in TxHashes PROVE [i \in 1 .. Len(c) |-> txLogs'[c[i]][tx]] = [i \in 1 .. Len(c) |-> txLogs[c[i]][tx]]
    BY DEF Kept
  <2>. QED
    BY <2>1 DEF LogsIn
<1>2. ReceiptsIn(receipts', c) = ReceiptsIn(receipts, c)
  <2>1. {receipts'[c[i]] : i \in 2 .. Len(c)} = {receipts[c[i]] : i \in 2 .. Len(c)}
    BY <1>0 DEF Kept
  <2>. QED
    BY <2>1 DEF ReceiptsIn
<1>3. txHash'[Last(c)] = txHash[Last(c)]
  BY <1>0 DEF Kept, Last
<1>4. /\ Now(c).logs = [tx \in TxHashes |-> LogsIn(txLogs, c, tx)] /\ Now(c).receipts = ReceiptsIn(receipts, c)
      /\ Then(c).logs = [tx \in TxHashes |-> LogsIn(txLogs', c, tx)] /\ Then(c).receipts = ReceiptsIn(receipts', c)
      /\ Now(c).tx = txHash[Last(c)] /\ Then(c).tx = txHash'[Last(c)]
  BY DEF Now, Then, StateIn
<1>5. Then(c).logs = Now(c).logs
  BY <1>1, <1>4, Zenon
<1>6. Then(c).receipts = Now(c).receipts /\ Then(c).tx = Now(c).tx
  BY <1>2, <1>3, <1>4
<1>7. Then(c) = [view |-> Then(c).view, logs |-> Then(c).logs, receipts |-> Then(c).receipts, tx |-> Then(c).tx]
  BY DEF Then, StateIn
<1>8. [Now(c) EXCEPT !.view = Then(c).view]
       = [view |-> Then(c).view, logs |-> Now(c).logs, receipts |-> Now(c).receipts, tx |-> Now(c).tx]
  <2>1. PICK a, b, e, f : Now(c) = [view |-> a, logs |-> b, receipts |-> e, tx |-> f]
    BY DEF Now, StateIn
  <2>2. PICK v : v = Then(c).view
    OBVIOUS
  <2>3. [Now(c) EXCEPT !.view = v] = [view |-> v, logs |-> Now(c).logs, receipts |-> Now(c).receipts, tx |-> Now(c).tx]
    BY <2>1
  <2>. QED
    BY <2>2, <2>3
<1>. QED
  BY <1>5, <1>6, <1>7, <1>8

\* What a path shows after a step that mixes w into its layers is a mix
\* of what it showed and w.
LEMMA MixThen ==
    ASSUME NEW c, Rooted(c), Kept(c), NEW w, NEW ks, Mixing(c, w, ks)
    PROVE  Mixed(Now(c), Then(c), w, ks)
<1>1. /\ Now(c).view = [k \in Keys |-> GetIn(pad, UpstreamAt[bn], c, k)]
      /\ Then(c).view = [k \in Keys |-> GetIn(pad', UpstreamAt[bn'], c, k)]
  BY DEF Now, Then, StateIn, ViewIn
<1>2. ASSUME NEW k \in Keys
      PROVE  GetIn(pad', UpstreamAt[bn'], c, k) \in {GetIn(pad, UpstreamAt[bn], c, k), w[k]}
  <2>1. \A i \in 2 .. Len(c) : pad'[c[i]][k] = pad[c[i]][k] \/ (pad'[c[i]][k] = w[k] /\ w[k] # Absent)
    BY DEF Mixing
  <2>2. ForkIn(pad', UpstreamAt[bn'])[k] \in {ForkIn(pad, UpstreamAt[bn])[k], w[k]}
    BY ForkMap DEF Mixing
  <2>. QED
    BY <2>1, <2>2, MixGet
<1>3. ASSUME NEW k \in Keys \ ks
      PROVE  GetIn(pad', UpstreamAt[bn'], c, k) = GetIn(pad, UpstreamAt[bn], c, k)
  <2>1. \A i \in 2 .. Len(c) : pad'[c[i]][k] = pad[c[i]][k]
    BY DEF Mixing
  <2>2. ForkIn(pad', UpstreamAt[bn'])[k] = ForkIn(pad, UpstreamAt[bn])[k]
    BY ForkMap DEF Mixing
  <2>. QED
    BY <2>1, <2>2, SameGet
<1>4. Then(c) = [Now(c) EXCEPT !.view = Then(c).view]
  BY KeptState
<1>. QED
  BY <1>1, <1>2, <1>3, <1>4 DEF Mixed, Contract!Mixes

\* A path no layer of which changes shows what it showed.
LEMMA SameThen ==
    ASSUME NEW c, Rooted(c), Kept(c), Mixing(c, <<>>, {}) PROVE Then(c) = Now(c)
<1>1. Mixed(Now(c), Then(c), <<>>, {})
  BY MixThen
<1>2. \A k \in Keys : Now(c).view[k] = Then(c).view[k]
  BY <1>1 DEF Mixed
<1>3. Now(c).view = Then(c).view
  BY <1>2 DEF Now, Then, StateIn, ViewIn
<1>. QED
  BY <1>3, KeptState DEF Now, Then, StateIn

-----------------------------------------------------------------------------
(* Steps seen through a handle. *)

\* The contract's variables, handle by handle.
LEMMA HandleMaps ==
    /\ DOMAIN HandleStates = Open /\ DOMAIN HandleStates' = Open'
    /\ \A e \in Open : HandleStates[e] = Now(chain[e])
    /\ \A e \in Open' : HandleStates'[e] = Then(chain'[e])
    /\ \A e \in DBs : DOMAIN SavedStates[e] = DOMAIN held[e] /\ DOMAIN SavedStates'[e] = DOMAIN held'[e]
    /\ \A e \in DBs : \A i \in DOMAIN held[e] : SavedStates[e][i] = Now(Pre(chain[e], held[e][i]))
    /\ \A e \in DBs : \A i \in DOMAIN held'[e] : SavedStates'[e][i] = Then(Pre(chain'[e], held'[e][i]))
<1>1. /\ DOMAIN HandleStates = Open /\ DOMAIN HandleStates' = Open'
      /\ \A e \in Open : HandleStates[e] = Now(chain[e])
      /\ \A e \in Open' : HandleStates'[e] = Then(chain'[e])
  BY StateMap
<1>2. /\ \A e \in DBs : DOMAIN SavedStates[e] = DOMAIN held[e] /\ DOMAIN SavedStates'[e] = DOMAIN held'[e]
      /\ \A e \in DBs : \A i \in DOMAIN held[e] : SavedStates[e][i] = Now(Pre(chain[e], held[e][i]))
      /\ \A e \in DBs : \A i \in DOMAIN held'[e] : SavedStates'[e][i] = Then(Pre(chain'[e], held'[e][i]))
  BY SavedMap
<1>. QED
  BY <1>1, <1>2

\* What a step leaves alone on a path it leaves alone below a cut.
LEMMA PreKept ==
    ASSUME NEW c, Rooted(c), NEW n \in 1 .. Len(c)
    PROVE  /\ Kept(c) => Kept(Pre(c, n))
           /\ \A w, ks : Mixing(c, w, ks) => Mixing(Pre(c, n), w, ks)
<1>1. Len(Pre(c, n)) = n
  BY PreIs
<1>2. \A i \in 1 .. n : Pre(c, n)[i] = c[i] /\ i \in 1 .. Len(c)
  BY PreIs
<1>3. \A i \in 2 .. n : Pre(c, n)[i] = c[i] /\ i \in 2 .. Len(c)
  BY PreIs
<1>4. Kept(c) => Kept(Pre(c, n))
  BY <1>1, <1>2 DEF Kept
<1>5. ASSUME NEW w, NEW ks, Mixing(c, w, ks) PROVE Mixing(Pre(c, n), w, ks)
  <2>1. ASSUME NEW k \in Keys, NEW i \in 2 .. Len(Pre(c, n))
        PROVE  \/ pad'[Pre(c, n)[i]][k] = pad[Pre(c, n)[i]][k]
               \/ k \in ks /\ pad'[Pre(c, n)[i]][k] = w[k] /\ w[k] # Absent
    <3>1. i \in 2 .. Len(c) /\ Pre(c, n)[i] = c[i]
      BY <1>1, <1>3
    <3>. QED
      BY <1>5, <3>1 DEF Mixing
  <2>. QED
    BY <1>5, <2>1 DEF Mixing
<1>. QED
  BY <1>4, <1>5

\* A handle whose path stays, and whose layers get values of w.
LEMMA MixHandle ==
    ASSUME HandlesInv, NEW e \in Open, chain'[e] = chain[e], held'[e] = held[e],
           Kept(chain[e]), NEW w, NEW ks, Mixing(chain[e], w, ks)
    PROVE  /\ Mixed(HandleStates[e], HandleStates'[e], w, ks)
           /\ DOMAIN SavedStates'[e] = DOMAIN SavedStates[e]
           /\ \A i \in DOMAIN SavedStates[e] : Mixed(SavedStates[e][i], SavedStates'[e][i], w, ks)
<1>0. e \in DBs /\ e \in Open' /\ Rooted(chain[e])
  BY PathsRooted DEF Open
<1>1. Mixed(HandleStates[e], HandleStates'[e], w, ks)
  BY <1>0, HandleMaps, MixThen
<1>2. ASSUME NEW i \in DOMAIN SavedStates[e] PROVE Mixed(SavedStates[e][i], SavedStates'[e][i], w, ks)
  <2>1. PICK n : n = held[e][i]
    OBVIOUS
  <2>2. i \in DOMAIN held[e] /\ i \in DOMAIN held'[e]
    BY <1>0, HandleMaps
  <2>3. n \in 1 .. Len(chain[e])
    BY <1>0, <2>1, <2>2, IdsWithin
  <2>4. SavedStates[e][i] = Now(Pre(chain[e], n)) /\ SavedStates'[e][i] = Then(Pre(chain[e], n))
    BY <1>0, <2>1, <2>2, HandleMaps
  <2>5. Kept(Pre(chain[e], n)) /\ Mixing(Pre(chain[e], n), w, ks) /\ Rooted(Pre(chain[e], n))
    BY <1>0, <2>3, PreKept, PreIs
  <2>6. Mixed(Now(Pre(chain[e], n)), Then(Pre(chain[e], n)), w, ks)
    BY <2>5, MixThen
  <2>. QED
    BY <2>4, <2>6
<1>. QED
  BY <1>0, <1>1, <1>2, HandleMaps

\* Revisions whose paths show what they showed.
LEMMA SameSaved ==
    ASSUME NEW e \in DBs, DOMAIN held'[e] = DOMAIN held[e],
           \A i \in DOMAIN held[e] : Then(Pre(chain'[e], held'[e][i])) = Now(Pre(chain[e], held[e][i]))
    PROVE  SavedStates'[e] = SavedStates[e]
BY SavedMap

\* A handle whose path and layers stay.
LEMMA SameHandle ==
    ASSUME HandlesInv, NEW e \in Open, chain'[e] = chain[e], held'[e] = held[e],
           Kept(chain[e]), Mixing(chain[e], <<>>, {})
    PROVE  HandleStates'[e] = HandleStates[e] /\ SavedStates'[e] = SavedStates[e]
<1>0. e \in DBs /\ e \in Open' /\ Rooted(chain[e])
  BY PathsRooted DEF Open
<1>1. HandleStates'[e] = HandleStates[e]
  BY <1>0, HandleMaps, SameThen
<1>2. ASSUME NEW i \in DOMAIN held[e]
      PROVE  Then(Pre(chain'[e], held'[e][i])) = Now(Pre(chain[e], held[e][i]))
  <2>1. PICK n : n = held[e][i]
    OBVIOUS
  <2>3. n \in 1 .. Len(chain[e])
    BY <1>0, <2>1, IdsWithin
  <2>5. Kept(Pre(chain[e], n)) /\ Mixing(Pre(chain[e], n), <<>>, {}) /\ Rooted(Pre(chain[e], n))
    BY <1>0, <2>3, PreKept, PreIs
  <2>6. Then(Pre(chain[e], n)) = Now(Pre(chain[e], n))
    BY <2>5, SameThen
  <2>. QED
    BY <2>1, <2>6
<1>. QED
  BY <1>0, <1>1, <1>2, SameSaved

\* A handle nobody uses.
LEMMA ClosedHandle ==
    ASSUME HandlesInv, NEW e \in DBs \ Open, held'[e] = held[e]
    PROVE  SavedStates'[e] = SavedStates[e] /\ SavedStates[e] = <<>> /\ held[e] = <<>>
<1>1. DOMAIN held[e] = {} /\ held[e] \in Seq(Nat)
  BY IdsWithin DEF HandlesInv
<1>2. held[e] = <<>>
  <2>0. PICK h \in Seq(Nat) : h = held[e] /\ Len(h) \in Nat /\ 1 .. Len(h) = {}
    BY <1>1
  <2>1. Len(held[e]) = 0
    <3>1. 1 \notin 1 .. Len(h)
      BY <2>0
    <3>. QED
      BY <2>0, <3>1
  <2>. QED
    BY <1>1, <2>1, EmptySeq
<1>3. SavedStates[e] = [i \in {} |-> Now(Pre(chain[e], held[e][i]))]
  BY <1>1, SavedMap
<1>4. [i \in {} |-> Now(Pre(chain[e], held[e][i]))] = <<>>
  OBVIOUS
<1>. QED
  BY <1>1, <1>2, <1>3, <1>4, SameSaved

-----------------------------------------------------------------------------
(* Writes. *)

\* The top layer is on the path once, and only on the paths of clones.
LEMMA TopOwn ==
    ASSUME LayersInv, NEW d \in Open
    PROVE  /\ Top(d) \in Layers \ {Root} /\ Len(chain[d]) \in 1 .. Len(chain[d]) /\ Top(d) = chain[d][Len(chain[d])]
           /\ \A i \in 1 .. Len(chain[d]) - 1 : chain[d][i] # Top(d)
           /\ \A e \in Open : e # d /\ d \notin origin[e] =>
                \A j \in 1 .. Len(chain[e]) : chain[e][j] # Top(d)
<1>0. /\ HandlesInv /\ RootCovered /\ OwnershipOK /\ Apart(chain, floor) /\ d \in DBs
  BY DEF LayersInv, OwnInv, RootInv, CacheInv, Open
<1>1. /\ chain[d] \in Seq(Layers) /\ Len(chain[d]) \in 1 .. Len(chain[d]) /\ Top(d) = chain[d][Len(chain[d])]
      /\ floor[d] \in Nat /\ floor[d] < Len(chain[d])
  <2>1. chain[d] \in Seq(Layers) /\ Len(chain[d]) \in Nat /\ Len(chain[d]) >= 1
    BY <1>0, PathsRooted
  <2>2. floor[d] \in Nat /\ floor[d] < Len(chain[d])
    BY <1>0 DEF HandlesInv, HandleOK, Open
  <2>. QED
    BY <2>1, <2>2 DEF Top, Last
<1>2. Top(d) \in Layers \ {Root}
  BY <1>0, TopType, TopIsNotRoot
<1>3. ASSUME NEW i \in 1 .. Len(chain[d]) - 1 PROVE chain[d][i] # Top(d)
  <2>1. i \in 1 .. Len(chain[d]) /\ i # Len(chain[d])
    BY <1>1
  <2>. QED
    BY <1>0, <1>1, <2>1 DEF Apart
<1>4. Len(chain[d]) \in floor[d] + 1 .. Len(chain[d])
  BY <1>1
<1>5. ASSUME NEW e \in Open, e # d, d \notin origin[e], NEW j \in 1 .. Len(chain[e]) PROVE chain[e][j] # Top(d)
  BY <1>0, <1>1, <1>4, <1>5 DEF OwnershipOK
<1>. QED
  BY <1>1, <1>2, <1>3, <1>5

\* What the top layer has is what the handle sees.
LEMMA TopGet ==
    ASSUME NEW p, NEW up, NEW c, Rooted(c), NEW k, p[c[Len(c)]][k] # Absent
    PROVE  GetIn(p, up, c, k) = p[c[Len(c)]][k]
<1>1. c \in Seq(Layers) /\ Len(c) \in Nat /\ Len(c) \in 1 .. Len(c)
  BY RootedLen
<1>2. Stops(p, c, k, Len(c))
  BY <1>1 DEF Stops
<1>. QED
  BY <1>1, <1>2, StopIs

\* A step that writes keys of ks in the top layer of d, and perhaps caches
\* in the root what upstream says, is a write of the contract.
LEMMA WriteIs ==
    ASSUME LayersInv, NEW d \in Open, NEW ks,
           UNCHANGED <<bn, notes, chain, held, origin>>, ForkState' = ForkState,
           \A l \in Layers \ {Root, Top(d)} : pad'[l] = pad[l],
           \A k \in Keys : \/ pad'[Top(d)][k] = pad[Top(d)][k]
                           \/ k \in ks /\ pad'[Top(d)][k] # Absent
    PROVE  Contract!Write(d, ks)
<1>. DEFINE w == HandleStates'[d].view
<1>0. HandlesInv /\ d \in DBs /\ Open' = Open /\ d \in Open'
  BY DEF LayersInv, OwnInv, Open
<1>1. Rooted(chain[d])
  BY <1>0, PathsRooted
<1>2. ASSUME NEW k \in Keys, pad'[Top(d)][k] # pad[Top(d)][k]
      PROVE  k \in ks /\ pad'[Top(d)][k] = w[k] /\ w[k] # Absent
  <2>1. k \in ks /\ pad'[Top(d)][k] # Absent
    BY <1>2
  <2>2. w[k] = GetIn(pad', UpstreamAt[bn'], chain[d], k)
    BY <1>0, HandleMaps DEF Then, StateIn, ViewIn
  <2>3. Top(d) = chain[d][Len(chain[d])]
    BY TopOwn
  <2>4. w[k] = pad'[Top(d)][k]
    <3>. HIDE DEF w
    <3>. QED
      BY <1>1, <2>1, <2>2, <2>3, TopGet
  <2>. QED
    BY <2>1, <2>4
<1>. HIDE DEF w
<1>3. ASSUME NEW c, Rooted(c) PROVE Kept(c) /\ Mixing(c, w, ks)
  <2>1. Kept(c)
    BY DEF Kept, notes
  <2>2. ASSUME NEW k \in Keys, NEW i \in 2 .. Len(c)
        PROVE  \/ pad'[c[i]][k] = pad[c[i]][k]
               \/ k \in ks /\ pad'[c[i]][k] = w[k] /\ w[k] # Absent
    <3>1. c[i] \in Layers \ {Root}
      BY <1>3 DEF Rooted
    <3>. QED
      BY <1>2, <3>1
  <2>. QED
    BY <2>1, <2>2 DEF Mixing
<1>4. ASSUME NEW c, Rooted(c), \A i \in 2 .. Len(c) : c[i] # Top(d) PROVE Kept(c) /\ Mixing(c, <<>>, {})
  <2>1. ASSUME NEW i \in 2 .. Len(c) PROVE pad'[c[i]] = pad[c[i]]
    <3>1. c[i] \in Layers \ {Root, Top(d)}
      BY <1>4 DEF Rooted
    <3>. QED
      BY <3>1
  <2>. QED
    BY <1>3, <1>4, <2>1 DEF Mixing
<1>5. Contract!Frame
  <2>1. \A e \in DBs \ Open : SavedStates'[e] = SavedStates[e]
    BY <1>0, ClosedHandle
  <2>. QED
    BY <1>0, <2>1, HandleMaps DEF Contract!Frame
<1>6. Mixed(HandleStates[d], HandleStates'[d], w, ks)
  BY <1>0, <1>1, <1>3, MixHandle
<1>7. SavedStates'[d] = SavedStates[d]
  <2>1. ASSUME NEW i \in DOMAIN held[d] PROVE Then(Pre(chain'[d], held'[d][i])) = Now(Pre(chain[d], held[d][i]))
    <3>1. PICK n : n = held[d][i]
      OBVIOUS
    <3>2. n \in 1 .. Len(chain[d]) - 1 /\ n \in 1 .. Len(chain[d]) /\ Len(chain[d]) \in Nat
      BY <1>0, <3>1, IdsWithin, PathsRooted
    <3>3. PICK c : c = Pre(chain[d], n)
      OBVIOUS
    <3>4. Rooted(c) /\ Len(c) = n /\ \A j \in 2 .. n : c[j] = chain[d][j]
      BY <1>1, <3>2, <3>3, PreIs
    <3>5. \A j \in 2 .. n : j \in 1 .. Len(chain[d]) - 1
      BY <3>2
    <3>6. \A j \in 2 .. Len(c) : c[j] # Top(d)
      BY <3>4, <3>5, TopOwn
    <3>7. Then(c) = Now(c)
      BY <1>4, <3>4, <3>6, SameThen
    <3>. QED
      BY <3>1, <3>3, <3>7
  <2>. QED
    BY <1>0, <2>1, SameSaved
<1>8. ASSUME NEW e \in Open \ {d}
      PROVE  IF d \in origin[e]
             THEN /\ Mixed(HandleStates[e], HandleStates'[e], w, ks)
                  /\ DOMAIN SavedStates'[e] = DOMAIN SavedStates[e]
                  /\ \A i \in DOMAIN SavedStates[e] : Mixed(SavedStates[e][i], SavedStates'[e][i], w, ks)
             ELSE HandleStates'[e] = HandleStates[e] /\ SavedStates'[e] = SavedStates[e]
  <2>0. Rooted(chain[e])
    BY <1>0, PathsRooted
  <2>1. CASE d \in origin[e]
    BY <1>0, <1>3, <2>0, <2>1, MixHandle
  <2>2. CASE d \notin origin[e]
    <3>1. \A i \in 1 .. Len(chain[e]) : chain[e][i] # Top(d)
      BY <2>2, TopOwn
    <3>2. \A i \in 2 .. Len(chain[e]) : i \in 1 .. Len(chain[e])
      BY <2>0, RootedLen
    <3>3. Kept(chain[e]) /\ Mixing(chain[e], <<>>, {})
      BY <1>4, <2>0, <3>1, <3>2
    <3>. QED
      BY <1>0, <2>2, <3>3, SameHandle
  <2>. QED
    BY <2>1, <2>2
<1>9. /\ DOMAIN HandleStates = Open
      /\ HandleStates'[d] = [HandleStates[d] EXCEPT !.view = HandleStates'[d].view]
      /\ \A k \in Keys \ ks : HandleStates'[d].view[k] = HandleStates[d].view[k]
  BY <1>6, HandleMaps DEF Mixed, Contract!Mixes
<1>. QED
  BY <1>5, <1>7, <1>8, <1>9 DEF Contract!Write, Contract!Seeps, Mixed, w

\* Caching an answer of upstream in the root is not seen.
LEMMA CacheFork ==
    ASSUME bn' = bn, \A k \in Keys : \/ pad'[Root][k] = pad[Root][k]
                                     \/ pad[Root][k] = Absent /\ pad'[Root][k] = Upstream[k],
           TypeOK
    PROVE  ForkState' = ForkState
<1>1. ASSUME NEW k \in Keys PROVE ForkIn(pad', UpstreamAt[bn'])[k] = ForkIn(pad, UpstreamAt[bn])[k]
  <2>1. UpstreamAt[bn][k] # Absent
    BY UpstreamAssumption, AbsentAssumption DEF TypeOK, Views
  <2>2. /\ ForkIn(pad', UpstreamAt[bn'])[k] = IF pad'[Root][k] # Absent THEN pad'[Root][k] ELSE UpstreamAt[bn'][k]
        /\ ForkIn(pad, UpstreamAt[bn])[k] = IF pad[Root][k] # Absent THEN pad[Root][k] ELSE UpstreamAt[bn][k]
    BY ForkIs
  <2>. QED
    BY <2>1, <2>2 DEF Upstream
<1>2. ForkIn(pad', UpstreamAt[bn']) = ForkIn(pad, UpstreamAt[bn])
  BY <1>1 DEF ForkIn, ViewIn
<1>. QED
  BY <1>2, ForkMap

\* What a read leaves.
LEMMA FillIs ==
    ASSUME LayersInv, NEW d \in Open, NEW k \in Keys
    PROVE  /\ Fill(chain[d], k) \in PadMaps
           /\ \A l \in Layers \ {Root} : Fill(chain[d], k)[l] = pad[l]
           /\ \A q \in Keys : \/ Fill(chain[d], k)[Root][q] = pad[Root][q]
                              \/ pad[Root][q] = Absent /\ Fill(chain[d], k)[Root][q] = Upstream[q]
<1>0. HandlesInv /\ TypeOK /\ Rooted(chain[d]) /\ Root \in Layers /\ pad \in [Layers -> Pads]
  BY PathsRooted, LayersAssumption DEF LayersInv, OwnInv, TypeOK
<1>1. Fill(chain[d], k) \in PadMaps
  BY <1>0, FillType
<1>2. CASE Hit(chain[d], k)
  BY <1>1, <1>2 DEF Fill
<1>3. CASE ~Hit(chain[d], k)
  <2>1. pad[Root][k] = Absent
    <3>1. PICK c \in Seq(Layers) : c = chain[d] /\ Len(c) \in Nat /\ c[1] = Root /\ 1 \in 1 .. Len(c)
      BY <1>0, RootedLen DEF Rooted
    <3>2. ASSUME pad[Root][k] # Absent PROVE FALSE
      <4>1. 1 \in Nat
        OBVIOUS
      <4>2. \E i \in 1 .. Len(c) : Stops(pad, c, k, i)
        BY <3>1, <3>2, <4>1, TopStop
      <4>. QED
        BY <1>3, <3>1, <4>2 DEF Hit, StopsAt, Stops
    <3>. QED
      BY <3>2
  <2>. QED
    BY <1>0, <1>1, <1>3, <2>1 DEF Fill
<1>. QED
  BY <1>2, <1>3

\* A read changes nothing that can be seen.
LEMMA ReadIs ==
    ASSUME LayersInv, NEW d \in DBs, NEW k \in Keys, Read(d, k)
    PROVE  UNCHANGED Contract!vars
<1>0. /\ HandlesInv /\ TypeOK /\ d \in Open /\ pad' = Fill(chain[d], k)
      /\ UNCHANGED <<bn, notes, chain, held, origin>>
  BY DEF Read, LayersInv, OwnInv
<1>1. ForkState' = ForkState
  BY <1>0, FillIs, CacheFork
<1>2. ASSUME NEW e \in Open PROVE HandleStates'[e] = HandleStates[e] /\ SavedStates'[e] = SavedStates[e]
  <2>1. Rooted(chain[e])
    BY <1>0, PathsRooted
  <2>2. ASSUME NEW i \in 2 .. Len(chain[e]) PROVE pad'[chain[e][i]] = pad[chain[e][i]]
    <3>1. chain[e][i] \in Layers \ {Root}
      BY <2>1 DEF Rooted
    <3>. QED
      BY <1>0, <3>1, FillIs
  <2>3. Kept(chain[e])
    BY <1>0 DEF Kept, notes
  <2>4. Mixing(chain[e], <<>>, {})
    BY <1>1, <2>2 DEF Mixing
  <2>. QED
    BY <1>0, <2>3, <2>4, SameHandle
<1>3. \A e \in DBs \ Open : SavedStates'[e] = SavedStates[e]
  BY <1>0, ClosedHandle
<1>4. HandleStates' = HandleStates
  <2>1. Open' = Open
    BY <1>0 DEF Open
  <2>. QED
    BY <1>2, <2>1, StateMap
<1>5. SavedStates' = SavedStates
  BY <1>2, <1>3, SavedMap
<1>6. lapsed' = lapsed
  BY DEF Read
<1>. QED
  BY <1>0, <1>1, <1>4, <1>5, <1>6 DEF Contract!vars

\* Setters.
LEMMA SetIs ==
    ASSUME LayersInv, NEW d \in DBs, NEW k \in Keys, NEW v \in Values, Set(d, k, v)
    PROVE  d \in Open /\ Contract!Write(d, {k})
<1>0. /\ TypeOK /\ d \in Open /\ pad' = Put(pad, d, k, v) /\ UNCHANGED <<bn, notes, chain, held, origin>>
      /\ Top(d) \in Layers \ {Root} /\ pad \in [Layers -> Pads] /\ v # Absent
  BY TopOwn, AbsentAssumption DEF Set, LayersInv, OwnInv, TypeOK
<1>1. /\ \A l \in Layers \ {Top(d)} : pad'[l] = pad[l]
      /\ \A q \in Keys : pad'[Top(d)][q] = IF q = k THEN v ELSE pad[Top(d)][q]
  BY <1>0 DEF Put, Pads
<1>2. pad'[Root] = pad[Root]
  BY <1>0, <1>1, LayersAssumption
<1>3. ForkState' = ForkState
  BY <1>0, <1>2, CacheFork
<1>4. \A q \in Keys : pad'[Top(d)][q] = pad[Top(d)][q] \/ (q \in {k} /\ pad'[Top(d)][q] # Absent)
  BY <1>0, <1>1
<1>5. \A l \in Layers \ {Root, Top(d)} : pad'[l] = pad[l]
  BY <1>1
<1>. QED
  BY <1>0, <1>3, <1>4, <1>5, WriteIs

\* AddBalance and SubBalance.
LEMMA AddBalanceIs ==
    ASSUME LayersInv, NEW d \in DBs, NEW a, NEW delta, AddBalance(d, a, delta)
    PROVE  d \in Open /\ \E k \in Keys : Contract!Write(d, {k})
<1>0. PICK k \in Keys, v \in Values :
        /\ d \in Open /\ pad' = Put(Fill(chain[d], k), d, k, v) /\ UNCHANGED <<bn, notes, chain, held, origin>>
  BY DEF AddBalance
<1>1. PICK p : p = Fill(chain[d], k)
  OBVIOUS
<1>2. /\ p \in [Layers -> Pads] /\ \A l \in Layers \ {Root} : p[l] = pad[l]
      /\ \A q \in Keys : p[Root][q] = pad[Root][q] \/ (pad[Root][q] = Absent /\ p[Root][q] = Upstream[q])
  BY <1>0, <1>1, FillIs DEF PadMaps
<1>3. Top(d) \in Layers \ {Root} /\ v # Absent /\ TypeOK
  BY <1>0, TopOwn, AbsentAssumption DEF LayersInv, OwnInv
<1>4. /\ \A l \in Layers \ {Top(d)} : pad'[l] = p[l]
      /\ \A q \in Keys : pad'[Top(d)][q] = IF q = k THEN v ELSE p[Top(d)][q]
  BY <1>0, <1>1, <1>2, <1>3 DEF Put, Pads
<1>5. pad'[Root] = p[Root]
  BY <1>3, <1>4, LayersAssumption
<1>6. ForkState' = ForkState
  BY <1>0, <1>2, <1>3, <1>5, CacheFork
<1>7. \A q \in Keys : pad'[Top(d)][q] = pad[Top(d)][q] \/ (q \in {k} /\ pad'[Top(d)][q] # Absent)
  BY <1>2, <1>3, <1>4
<1>8. \A l \in Layers \ {Root, Top(d)} : pad'[l] = pad[l]
  BY <1>2, <1>4
<1>. QED
  BY <1>0, <1>6, <1>7, <1>8, WriteIs

\* InitFakeAccounts.
LEMMA InitFakeAccountsIs ==
    ASSUME LayersInv, InitFakeAccounts
    PROVE  Contract!Write(Main, {<<"balance", a>> : a \in FakeAccounts})
<1>. DEFINE ks == {<<"balance", a>> : a \in FakeAccounts}
<1>0. /\ Main \in Open /\ HandlesInv /\ TypeOK /\ UNCHANGED <<bn, notes, chain, held, origin>>
      /\ pad \in [Layers -> Pads] /\ Root \in Layers
  BY MainOpen, LayersAssumption DEF LayersInv, OwnInv, InitFakeAccounts, TypeOK
<1>1. Top(Main) \in Layers \ {Root}
  BY <1>0, TopOwn
<1>2. /\ \A l \in Layers \ {Root, Top(Main)} : pad'[l] = pad[l]
      /\ \A q \in Keys : pad'[Root][q] = pad[Root][q] \/ (pad[Root][q] = Absent /\ pad'[Root][q] = Upstream[q])
  BY <1>0, <1>1 DEF InitFakeAccounts
<1>3. ASSUME NEW q \in Keys
      PROVE  pad'[Top(Main)][q] = pad[Top(Main)][q] \/ (q \in ks /\ pad'[Top(Main)][q] # Absent)
  <2>1. pad'[Top(Main)][q] = IF q \in ks THEN Get(chain[Main], q) + FakeBalance ELSE pad[Top(Main)][q]
    BY <1>0, <1>1 DEF InitFakeAccounts
  <2>2. q \in ks => Get(chain[Main], q) + FakeBalance \in Values
    BY DEF InitFakeAccounts
  <2>. QED
    BY <2>1, <2>2, AbsentAssumption
<1>4. ForkState' = ForkState
  BY <1>0, <1>2, CacheFork
<1>5. Contract!Write(Main, ks)
  <2>. HIDE DEF ks
  <2>. QED
    BY <1>0, <1>2, <1>3, <1>4, WriteIs
<1>. QED
  BY <1>5

-----------------------------------------------------------------------------
(* New layers. *)

\* The logs of a path are the lists of its layers in one.
LEMMA LogsFlat ==
    ASSUME NEW lg, NEW c, NEW tx, NEW f, \A i \in 1 .. Len(c) : f[i] = lg[c[i]][tx]
    PROVE  LogsIn(lg, c, tx) = Flat(f, Len(c))
<1>1. [i \in 1 .. Len(c) |-> lg[c[i]][tx]] = [i \in 1 .. Len(c) |-> f[i]]
  OBVIOUS
<1>. QED
  BY <1>1 DEF LogsIn, Flat

\* An empty layer on top adds no logs and no receipts.
LEMMA GrowLogs ==
    ASSUME NEW lg, NEW c \in Seq(Layers), NEW l \in Layers, NEW tx, lg[l][tx] = <<>>,
           \A x \in Layers : lg[x][tx] \in Seq(LogIds)
    PROVE  LogsIn(lg, Append(c, l), tx) = LogsIn(lg, c, tx)
<1>1. PICK e : e = Append(c, l)
  OBVIOUS
<1>2. PICK n \in Nat : n = Len(c)
  OBVIOUS
<1>3. e \in Seq(Layers) /\ Len(e) = n + 1 /\ e[n + 1] = l /\ \A i \in 1 .. n : e[i] = c[i]
  BY <1>1, <1>2
<1>4. PICK f : f = [i \in 1 .. n + 1 |-> lg[e[i]][tx]]
  OBVIOUS
<1>5. LogsIn(lg, e, tx) = Flat(f, n + 1)
  <2>1. \A i \in 1 .. Len(e) : f[i] = lg[e[i]][tx]
    BY <1>3, <1>4
  <2>. QED
    BY <1>3, <2>1, LogsFlat
<1>6. LogsIn(lg, c, tx) = Flat(f, n)
  <2>1. \A i \in 1 .. Len(c) : f[i] = lg[c[i]][tx]
    BY <1>2, <1>3, <1>4
  <2>. QED
    BY <1>2, <2>1, LogsFlat
<1>7. f[n + 1] = <<>> /\ f[n + 1] \in Seq(LogIds)
  BY <1>3, <1>4
<1>8. Flat(f, n + 1) = Flat(f, n) \o f[n + 1]
  BY <1>7, FlatNext
<1>9. Flat(f, n) \in Seq(LogIds)
  <2>1. \A i \in 1 .. n : f[i] \in Seq(LogIds)
    BY <1>2, <1>3, <1>4
  <2>. QED
    BY <2>1, FlatType
<1>10. Flat(f, n) \o <<>> = Flat(f, n)
  BY <1>9, ConcatEmptySeq
<1>. QED
  BY <1>1, <1>5, <1>6, <1>7, <1>8, <1>10

\* An empty layer on top adds no receipts.
LEMMA GrowReceipts ==
    ASSUME NEW rc, NEW c \in Seq(Layers), NEW l \in Layers, rc[l] = {}
    PROVE  ReceiptsIn(rc, Append(c, l)) = ReceiptsIn(rc, c)
<1>1. PICK e : e = Append(c, l)
  OBVIOUS
<1>2. PICK n \in Nat : n = Len(c)
  OBVIOUS
<1>3. Len(e) = n + 1 /\ e[n + 1] = l /\ \A i \in 1 .. n : e[i] = c[i]
  BY <1>1, <1>2
<1>4. \A i \in 2 .. n + 1 : i = n + 1 \/ (i \in 2 .. n /\ i \in 1 .. n)
  OBVIOUS
<1>5. \A i \in 2 .. n : i \in 2 .. n + 1 /\ i \in 1 .. n
  OBVIOUS
<1>6. ASSUME NEW t PROVE t \in ReceiptsIn(rc, e) <=> t \in ReceiptsIn(rc, c)
  <2>1. t \in ReceiptsIn(rc, e) <=> \E i \in 2 .. n + 1 : t \in rc[e[i]]
    BY <1>3 DEF ReceiptsIn
  <2>2. t \in ReceiptsIn(rc, c) <=> \E i \in 2 .. n : t \in rc[c[i]]
    BY <1>2 DEF ReceiptsIn
  <2>. QED
    BY <1>3, <1>4, <1>5, <2>1, <2>2
<1>. QED
  BY <1>1, <1>6

\* States with the same parts are the same.
LEMMA StateEqual ==
    ASSUME NEW p, NEW up, NEW lg, NEW rc, NEW th, NEW c, NEW q, NEW up2, NEW lg2, NEW rc2, NEW th2, NEW e,
           \A k \in Keys : GetIn(p, up, c, k) = GetIn(q, up2, e, k),
           \A tx \in TxHashes : LogsIn(lg, c, tx) = LogsIn(lg2, e, tx),
           ReceiptsIn(rc, c) = ReceiptsIn(rc2, e), th[Last(c)] = th2[Last(e)]
    PROVE  StateIn(p, up, lg, rc, th, c) = StateIn(q, up2, lg2, rc2, th2, e)
<1>1. ViewIn(p, up, c) = ViewIn(q, up2, e)
  BY DEF ViewIn
<1>2. [tx \in TxHashes |-> LogsIn(lg, c, tx)] = [tx \in TxHashes |-> LogsIn(lg2, e, tx)]
  OBVIOUS
<1>. QED
  BY <1>1, <1>2 DEF StateIn

\* A path with an empty layer on top shows what it showed.
LEMMA GrowState ==
    ASSUME NEW p, NEW up, NEW lg, NEW rc, NEW th, NEW c, Rooted(c), NEW l \in Layers \ {Root},
           p[l] = EmptyPad, lg[l] = NoLogs, rc[l] = {}, th[l] = th[Last(c)],
           \A x \in Layers, tx \in TxHashes : lg[x][tx] \in Seq(LogIds)
    PROVE  StateIn(p, up, lg, rc, th, Append(c, l)) = StateIn(p, up, lg, rc, th, c)
<1>0. c \in Seq(Layers) /\ Append(c, l) \in Seq(Layers) /\ Last(Append(c, l)) = l
  <2>1. c \in Seq(Layers)
    BY DEF Rooted
  <2>. QED
    BY <2>1 DEF Last
<1>1. \A k \in Keys : p[l][k] = Absent
  BY DEF EmptyPad
<1>2. \A k \in Keys : GetIn(p, up, Append(c, l), k) = GetIn(p, up, c, k)
  BY <1>1, GrowGet
<1>3. ASSUME NEW tx \in TxHashes PROVE LogsIn(lg, Append(c, l), tx) = LogsIn(lg, c, tx)
  <2>1. lg[l][tx] = <<>> /\ \A x \in Layers : lg[x][tx] \in Seq(LogIds)
    BY DEF NoLogs
  <2>. QED
    BY <1>0, <2>1, GrowLogs
<1>4. ReceiptsIn(rc, Append(c, l)) = ReceiptsIn(rc, c)
  BY <1>0, GrowReceipts
<1>5. th[Last(Append(c, l))] = th[Last(c)]
  BY <1>0
<1>. QED
  BY <1>2, <1>3, <1>4, <1>5, StateEqual

\* The same of the state after a step.
LEMMA GrowThen ==
    ASSUME TypeOK', NEW c, Rooted(c), NEW l \in Layers \ {Root},
           pad'[l] = EmptyPad, txLogs'[l] = NoLogs, receipts'[l] = {}, txHash'[l] = txHash'[Last(c)]
    PROVE  Then(Append(c, l)) = Then(c)
<1>1. \A x \in Layers, tx \in TxHashes : txLogs'[x][tx] \in Seq(LogIds)
  BY DEF TypeOK
<1>. QED
  BY <1>1, GrowState DEF Then

\* Derive leaves all layers but the new one alone.
LEMMA DeriveIs ==
    ASSUME LayersInv, NEW q \in Layers, NEW l \in Layers \ {Root}, q # l, Derive(q, l), bn' = bn
    PROVE  /\ ForkState' = ForkState
           /\ \A x \in Layers \ {l} : /\ pad'[x] = pad[x] /\ txLogs'[x] = txLogs[x]
                                      /\ receipts'[x] = receipts[x] /\ txHash'[x] = txHash[x]
           /\ pad'[l] = EmptyPad /\ txLogs'[l] = NoLogs /\ receipts'[l] = {} /\ txHash'[l] = txHash'[q]
           /\ \A c : Rooted(c) /\ (\A i \in 1 .. Len(c) : c[i] # l) => Kept(c) /\ Mixing(c, <<>>, {})
<1>0. TypeOK
  BY DEF LayersInv, OwnInv
<1>1. /\ \A x \in Layers \ {l} : /\ pad'[x] = pad[x] /\ txLogs'[x] = txLogs[x]
                                 /\ receipts'[x] = receipts[x] /\ txHash'[x] = txHash[x]
      /\ pad'[l] = EmptyPad /\ txLogs'[l] = NoLogs /\ receipts'[l] = {} /\ txHash'[l] = txHash'[q]
  BY <1>0 DEF Derive, TypeOK
<1>2. ForkState' = ForkState
  BY <1>0, <1>1, CacheFork, LayersAssumption
<1>3. ASSUME NEW c, Rooted(c), \A i \in 1 .. Len(c) : c[i] # l PROVE Kept(c) /\ Mixing(c, <<>>, {})
  <2>1. c \in Seq(Layers) /\ Len(c) \in Nat
    BY <1>3 DEF Rooted
  <2>2. \A i \in 1 .. Len(c) : c[i] \in Layers \ {l}
    BY <1>3, <2>1
  <2>3. \A i \in 2 .. Len(c) : i \in 1 .. Len(c)
    BY <2>1
  <2>4. Kept(c)
    BY <1>1, <2>2 DEF Kept
  <2>5. \A i \in 2 .. Len(c) : pad'[c[i]] = pad[c[i]]
    BY <1>1, <2>2, <2>3
  <2>. QED
    BY <1>2, <2>4, <2>5 DEF Mixing
<1>. QED
  BY <1>1, <1>2, <1>3

-----------------------------------------------------------------------------
(* Revisions. *)

\* A list of length n.
Listed(t, n) == t = [i \in 1 .. n |-> t[i]]

\* A list that is s and then x.
LEMMA SeqAppend ==
    ASSUME NEW T, NEW s \in Seq(T), NEW x, NEW t, NEW n \in Nat, n = Len(s), NEW m, m = n + 1,
           Listed(t, m), \A i \in 1 .. n : t[i] = s[i], t[m] = x
    PROVE  t = Append(s, x)
<1>0. t = [i \in 1 .. n + 1 |-> t[i]] /\ t[n + 1] = x
  BY DEF Listed
<1>. DEFINE U == T \cup {x}
<1>1. s \in Seq(U) /\ x \in U
  OBVIOUS
<1>. HIDE DEF U
<1>2. PICK a : a = Append(s, x)
  OBVIOUS
<1>3. a \in Seq(U) /\ Len(a) = n + 1 /\ a[n + 1] = x /\ \A i \in 1 .. n : a[i] = s[i]
  BY <1>1, <1>2
<1>4. \A i \in 1 .. n + 1 : t[i] = a[i]
  <2>1. \A i \in 1 .. n + 1 : i = n + 1 \/ i \in 1 .. n
    OBVIOUS
  <2>. QED
    BY <1>0, <1>3, <2>1
<1>5. t \in Seq(U) /\ Len(t) = n + 1
  <2>1. \A i \in 1 .. n + 1 : t[i] \in U
    BY <1>3, <1>4
  <2>. QED
    BY <1>0, <2>1
<1>. QED
  BY <1>2, <1>3, <1>4, <1>5, SeqEqual

\* A list that is the beginning of s.
LEMMA SeqCut ==
    ASSUME NEW T, NEW s \in Seq(T), NEW t, NEW n \in 0 .. Len(s),
           Listed(t, n), \A i \in 1 .. n : t[i] = s[i]
    PROVE  t = SubSeq(s, 1, n)
<1>1. PICK a : a = SubSeq(s, 1, n)
  OBVIOUS
<1>2. a \in Seq(T) /\ Len(a) = n /\ \A i \in 1 .. n : a[i] = s[i]
  BY <1>1, Prefix
<1>3. t \in Seq(T) /\ Len(t) = n
  <2>1. n \in Nat /\ \A i \in 1 .. n : t[i] \in T
    BY <1>2
  <2>. QED
    BY <2>1 DEF Listed
<1>. QED
  BY <1>1, <1>2, <1>3, SeqEqual

\* The saved states of a handle are a list.
LEMMA SavedSeq ==
    ASSUME NEW d \in DBs
    PROVE  /\ held[d] \in Seq(Nat) => \E T : SavedStates[d] \in Seq(T) /\ Len(SavedStates[d]) = Len(held[d])
           /\ SavedStates'[d] = [i \in DOMAIN held'[d] |-> SavedStates'[d][i]]
<1>1. ASSUME held[d] \in Seq(Nat)
      PROVE  \E T : SavedStates[d] \in Seq(T) /\ Len(SavedStates[d]) = Len(held[d])
  <2>1. PICK n \in Nat : n = Len(held[d]) /\ DOMAIN held[d] = 1 .. n
    BY <1>1
  <2>2. PICK s : s = SavedStates[d] /\ s = [i \in 1 .. n |-> s[i]]
    BY <2>1, SavedMap
  <2>3. s \in Seq({s[i] : i \in 1 .. n}) /\ Len(s) = n
    BY <2>2
  <2>. QED
    BY <2>1, <2>2, <2>3
<1>2. SavedStates'[d] = [i \in DOMAIN held'[d] |-> SavedStates'[d][i]]
  BY SavedMap
<1>. QED
  BY <1>1, <1>2

\* One handle's revisions change.
LEMMA SavedExcept ==
    ASSUME NEW d \in DBs, NEW v, SavedStates'[d] = v,
           \A e \in DBs \ {d} : SavedStates'[e] = SavedStates[e]
    PROVE  SavedStates' = [SavedStates EXCEPT ![d] = v]
<1>1. SavedStates' = [e \in DBs |-> SavedStates'[e]] /\ SavedStates = [e \in DBs |-> SavedStates[e]]
  BY SavedMap
<1>. QED
  BY <1>1

\* One handle's state changes.
LEMMA StatesExcept ==
    ASSUME NEW d \in Open, NEW v, Open' = Open, HandleStates'[d] = v,
           \A e \in Open \ {d} : HandleStates'[e] = HandleStates[e]
    PROVE  HandleStates' = [HandleStates EXCEPT ![d] = v]
<1>1. HandleStates' = [e \in Open |-> HandleStates'[e]] /\ HandleStates = [e \in Open |-> HandleStates[e]]
  BY StateMap
<1>. QED
  BY <1>1

\* No handle's state changes.
LEMMA StatesSame ==
    ASSUME Open' = Open, \A e \in Open : HandleStates'[e] = HandleStates[e]
    PROVE  HandleStates' = HandleStates
<1>1. HandleStates' = [e \in Open |-> HandleStates'[e]] /\ HandleStates = [e \in Open |-> HandleStates[e]]
  BY StateMap
<1>. QED
  BY <1>1

\* Snapshot saves the state.
LEMMA SnapshotIs ==
    ASSUME LayersInv, LayersInv', NEW d \in DBs, NEW l \in Layers, Snapshot(d, l)
    PROVE  d \in Open /\ Contract!Snapshot(d)
<1>0. /\ HandlesInv /\ TypeOK' /\ d \in Open /\ chain \in [DBs -> Seq(Layers)] /\ held \in [DBs -> Seq(Nat)]
      /\ l \in FreeLayers(chain) /\ Derive(Top(d), l) /\ UNCHANGED <<bn, origin>>
      /\ chain' = [chain EXCEPT ![d] = Append(chain[d], l)]
      /\ held' = [held EXCEPT ![d] = Append(held[d], Len(chain[d]))]
  BY DEF Snapshot, LayersInv, OwnInv, HandlesInv
<1>1. PICK c : c = chain[d]
  OBVIOUS
<1>2. /\ Rooted(c) /\ c \in Seq(Layers) /\ Len(c) \in Nat /\ Len(c) >= 1 /\ Top(d) = c[Len(c)] /\ Last(c) = Top(d)
      /\ l \in Layers \ {Root} /\ Top(d) \in Layers /\ Len(c) \in 1 .. Len(c)
  BY <1>0, <1>1, PathsRooted, TopOwn, FreeIsNotRoot DEF Top
<1>3. \A e \in DBs : \A i \in 1 .. Len(chain[e]) : chain[e][i] # l
  BY <1>0, FreeIsNotOnPath
<1>4. Top(d) # l
  BY <1>1, <1>2, <1>3
<1>5. /\ ForkState' = ForkState
      /\ pad'[l] = EmptyPad /\ txLogs'[l] = NoLogs /\ receipts'[l] = {} /\ txHash'[l] = txHash'[Top(d)]
      /\ \A b : Rooted(b) /\ (\A i \in 1 .. Len(b) : b[i] # l) => Kept(b) /\ Mixing(b, <<>>, {})
  BY <1>0, <1>2, <1>4, DeriveIs
<1>6. \A e \in Open : Kept(chain[e]) /\ Mixing(chain[e], <<>>, {})
  <2>1. ASSUME NEW e \in Open PROVE Rooted(chain[e]) /\ e \in DBs
    BY <1>0, PathsRooted DEF Open
  <2>. QED
    BY <1>3, <1>5, <2>1
<1>7. /\ chain'[d] = Append(c, l) /\ held'[d] = Append(held[d], Len(c))
      /\ \A e \in DBs \ {d} : chain'[e] = chain[e] /\ held'[e] = held[e]
  BY <1>0, <1>1
<1>8. Open' = Open
  <2>1. chain'[d] # <<>>
    BY <1>2, <1>7
  <2>. QED
    BY <1>0, <1>7, <2>1 DEF Open
<1>9. ASSUME NEW e \in Open \ {d} PROVE HandleStates'[e] = HandleStates[e] /\ SavedStates'[e] = SavedStates[e]
  <2>1. e \in Open /\ chain'[e] = chain[e] /\ held'[e] = held[e]
    BY <1>7 DEF Open
  <2>. QED
    BY <1>0, <1>6, <2>1, SameHandle
<1>10. ASSUME NEW e \in DBs \ Open PROVE SavedStates'[e] = SavedStates[e]
  <2>1. held'[e] = held[e]
    BY <1>0, <1>7
  <2>. QED
    BY <1>0, <2>1, ClosedHandle
<1>11. Then(c) = Now(c)
  BY <1>0, <1>1, <1>2, <1>6, SameThen
<1>12. HandleStates'[d] = HandleStates[d]
  <2>1. Then(Append(c, l)) = Then(c)
    BY <1>0, <1>2, <1>5, GrowThen
  <2>. QED
    BY <1>0, <1>1, <1>7, <1>8, <1>11, <2>1, HandleMaps
<1>13. SavedStates'[d] = Append(SavedStates[d], HandleStates[d])
  <2>1. PICK h \in Seq(Nat) : h = held[d]
    BY <1>0
  <2>2. PICK n \in Nat : n = Len(h) /\ DOMAIN h = 1 .. n
    BY <2>1
  <2>3. /\ DOMAIN held'[d] = 1 .. n + 1 /\ held'[d][n + 1] = Len(c)
        /\ \A i \in 1 .. n : held'[d][i] = h[i]
    BY <1>2, <1>7, <2>1, <2>2
  <2>4. PICK T : SavedStates[d] \in Seq(T) /\ Len(SavedStates[d]) = n
    BY <2>1, <2>2, SavedSeq
  <2>5. SavedStates'[d] = [i \in 1 .. n + 1 |-> SavedStates'[d][i]]
    BY <2>3, SavedSeq
  <2>6. ASSUME NEW i \in 1 .. n PROVE SavedStates'[d][i] = SavedStates[d][i]
    <3>1. i \in DOMAIN held[d] /\ i \in DOMAIN held'[d]
      BY <2>1, <2>2, <2>3
    <3>2. PICK m : m = held[d][i]
      OBVIOUS
    <3>3. m \in 1 .. Len(c) /\ m \in 0 .. Len(c)
      BY <1>0, <1>1, <1>2, <3>1, <3>2, IdsWithin
    <3>4. SavedStates'[d][i] = Then(Pre(Append(c, l), m)) /\ SavedStates[d][i] = Now(Pre(c, m))
      BY <1>1, <1>7, <2>1, <2>3, <3>1, <3>2, HandleMaps
    <3>5. Pre(Append(c, l), m) = Pre(c, m)
      BY <1>2, <3>3, PreAppend
    <3>6. Rooted(Pre(c, m)) /\ Kept(Pre(c, m)) /\ Mixing(Pre(c, m), <<>>, {})
      BY <1>0, <1>1, <1>2, <1>6, <3>3, PreIs, PreKept
    <3>. QED
      BY <3>4, <3>5, <3>6, SameThen
  <2>7. SavedStates'[d][n + 1] = HandleStates[d]
    <3>1. n + 1 \in DOMAIN held'[d]
      BY <2>3
    <3>2. SavedStates'[d][n + 1] = Then(Pre(Append(c, l), Len(c)))
      BY <1>7, <2>3, <3>1, HandleMaps
    <3>3. Pre(Append(c, l), Len(c)) = Pre(c, Len(c)) /\ Pre(c, Len(c)) = c
      <4>1. Len(c) \in 0 .. Len(c)
        BY <1>2
      <4>. QED
        BY <1>2, <4>1, PreAppend, PreFull
    <3>. QED
      BY <1>0, <1>1, <1>11, <3>2, <3>3, HandleMaps
  <2>8. PICK s, t, x : s = SavedStates[d] /\ t = SavedStates'[d] /\ x = HandleStates[d]
    OBVIOUS
  <2>81. PICK m : m = n + 1
    OBVIOUS
  <2>9. /\ s \in Seq(T) /\ n \in Nat /\ n = Len(s) /\ m = n + 1 /\ Listed(t, m)
        /\ \A i \in 1 .. n : t[i] = s[i]
        /\ t[m] = x
    BY <2>4, <2>5, <2>6, <2>7, <2>8, <2>81 DEF Listed
  <2>10. t = Append(s, x)
    BY ONLY <2>9, SeqAppend, ZenonT(60)
  <2>. QED
    BY <2>8, <2>10
<1>14. HandleStates' = HandleStates
  BY <1>8, <1>9, <1>12, StatesSame
<1>15. SavedStates' = [SavedStates EXCEPT ![d] = Append(SavedStates[d], HandleStates[d])]
  BY <1>0, <1>9, <1>10, <1>13, SavedExcept
<1>. QED
  BY <1>0, <1>5, <1>14, <1>15 DEF Contract!Snapshot

\* What is still reachable keeps its contents.
LEMMA KeepIs ==
    ASSUME TypeOK, chain' \in [DBs -> Seq(Layers)], NEW p, Keep(p, chain')
    PROVE  /\ pad'[Root] = p[Root]
           /\ \A e \in DBs : \A i \in 1 .. Len(chain'[e]) :
                LET l == chain'[e][i] IN
                /\ pad'[l] = p[l] /\ txLogs'[l] = txLogs[l] /\ receipts'[l] = receipts[l] /\ txHash'[l] = txHash[l]
<1>1. pad'[Root] = p[Root]
  BY LayersAssumption DEF Keep, Collect
<1>2. ASSUME NEW e \in DBs, NEW i \in 1 .. Len(chain'[e]), NEW l, l = chain'[e][i]
      PROVE  pad'[l] = p[l] /\ txLogs'[l] = txLogs[l] /\ receipts'[l] = receipts[l] /\ txHash'[l] = txHash[l]
  <2>1. PICK ch \in [DBs -> Seq(Layers)] : ch = chain'
    OBVIOUS
  <2>2. i \in 1 .. Len(ch[e])
    BY <2>1
  <2>3. ch[e][i] \in LiveLayers(ch)
    BY <2>2, OnPath
  <2>4. l \in Layers
    <3>1. ch[e] \in Seq(Layers)
      OBVIOUS
    <3>. QED
      BY <1>2, <2>1, <2>2, <3>1
  <2>5. l \in LiveLayers(chain')
    BY <1>2, <2>1, <2>3
  <2>. QED
    BY <2>4, <2>5 DEF Keep, Collect
<1>. QED
  BY <1>1, <1>2

\* After a step that frees layers and changes no other, the paths show what
\* they showed.
LEMMA KeepSame ==
    ASSUME TypeOK, HandlesInv', Keep(pad, chain'), bn' = bn
    PROVE  /\ ForkState' = ForkState
           /\ \A e \in DBs : Kept(chain'[e]) /\ Mixing(chain'[e], <<>>, {})
<1>0. chain' \in [DBs -> Seq(Layers)]
  BY DEF HandlesInv
<1>1. pad'[Root] = pad[Root]
  BY <1>0, KeepIs
<1>2. ForkState' = ForkState
  BY <1>1, CacheFork
<1>3. ASSUME NEW e \in DBs PROVE Kept(chain'[e]) /\ Mixing(chain'[e], <<>>, {})
  <2>1. \A i \in 1 .. Len(chain'[e]) :
          LET l == chain'[e][i] IN
          /\ pad'[l] = pad[l] /\ txLogs'[l] = txLogs[l] /\ receipts'[l] = receipts[l] /\ txHash'[l] = txHash[l]
    BY <1>0, KeepIs
  <2>2. \A i \in 2 .. Len(chain'[e]) : i \in 1 .. Len(chain'[e])
    <3>1. Len(chain'[e]) \in Nat
      BY <1>0
    <3>. QED
      BY <3>1
  <2>3. Kept(chain'[e])
    BY <2>1 DEF Kept
  <2>4. \A i \in 2 .. Len(chain'[e]) : pad'[chain'[e][i]] = pad[chain'[e][i]]
    BY <2>1, <2>2
  <2>. QED
    BY <1>2, <2>3, <2>4 DEF Mixing
<1>. QED
  BY <1>2, <1>3

\* Cutting one handle's path to n layers, and its ids to the first z, all of
\* them at or below the cut, puts the handle in the state of the cut path and
\* changes nothing else.
LEMMA CutIs ==
    ASSUME LayersInv, LayersInv', NEW d \in DBs, d \in Open, NEW n \in 1 .. Len(chain[d]),
           NEW z \in 0 .. Len(held[d]), \A j \in 1 .. z : held[d][j] \in 1 .. n,
           chain' = [chain EXCEPT ![d] = SubSeq(chain[d], 1, n)],
           held' = [held EXCEPT ![d] = SubSeq(held[d], 1, z)],
           Keep(pad, chain'), bn' = bn
    PROVE  /\ ForkState' = ForkState /\ Open' = Open
           /\ HandleStates' = [HandleStates EXCEPT ![d] = Now(Pre(chain[d], n))]
           /\ SavedStates' = [SavedStates EXCEPT ![d] = SubSeq(SavedStates[d], 1, z)]
<1>0. /\ HandlesInv /\ HandlesInv' /\ TypeOK /\ chain \in [DBs -> Seq(Layers)] /\ held \in [DBs -> Seq(Nat)]
      /\ Keep(pad, chain') /\ bn' = bn /\ z \in 0 .. Len(held[d]) /\ Len(held[d]) \in Nat
  <2>1. HandlesInv /\ HandlesInv' /\ TypeOK
    BY DEF LayersInv, OwnInv
  <2>2. chain \in [DBs -> Seq(Layers)] /\ held \in [DBs -> Seq(Nat)]
    BY <2>1 DEF HandlesInv
  <2>3. Len(held[d]) \in Nat
    BY <2>2
  <2>. QED
    BY <2>1, <2>2, <2>3
<1>1. PICK c : c = chain[d]
  OBVIOUS
<1>2. d \in Open /\ n \in 1 .. Len(c) /\ \A j \in 1 .. z : held[d][j] \in 1 .. n
  BY <1>1
<1>3. Rooted(c) /\ c \in Seq(Layers) /\ n \in 0 .. Len(c) /\ n \in Nat
  BY <1>0, <1>1, <1>2, PathsRooted
<1>4. /\ chain' = [chain EXCEPT ![d] = Pre(c, n)] /\ held' = [held EXCEPT ![d] = SubSeq(held[d], 1, z)]
  BY <1>1 DEF Pre
<1>5. /\ chain'[d] = Pre(c, n) /\ held'[d] = SubSeq(held[d], 1, z)
      /\ \A e \in DBs \ {d} : chain'[e] = chain[e] /\ held'[e] = held[e]
  BY <1>0, <1>4
<1>6. /\ ForkState' = ForkState
      /\ \A e \in DBs : Kept(chain'[e]) /\ Mixing(chain'[e], <<>>, {})
  BY <1>0, KeepSame
<1>7. Rooted(Pre(c, n)) /\ Len(Pre(c, n)) = n /\ Then(Pre(c, n)) = Now(Pre(c, n))
  BY <1>2, <1>3, <1>5, <1>6, PreIs, SameThen
<1>8. Open' = Open
  <2>1. chain'[d] # <<>>
    BY <1>5, <1>7 DEF Rooted
  <2>. QED
    BY <1>2, <1>5, <2>1 DEF Open
<1>9. ASSUME NEW e \in Open \ {d} PROVE HandleStates'[e] = HandleStates[e] /\ SavedStates'[e] = SavedStates[e]
  <2>1. e \in Open /\ e \in DBs /\ chain'[e] = chain[e] /\ held'[e] = held[e]
    BY <1>5 DEF Open
  <2>2. Kept(chain[e]) /\ Mixing(chain[e], <<>>, {})
    <3>1. Kept(chain'[e]) /\ Mixing(chain'[e], <<>>, {})
      BY <1>6, <2>1
    <3>. QED
      BY <2>1, <3>1
  <2>. QED
    BY <1>0, <2>1, <2>2, SameHandle
<1>10. ASSUME NEW e \in DBs \ Open PROVE SavedStates'[e] = SavedStates[e]
  <2>1. held'[e] = held[e]
    BY <1>2, <1>5
  <2>. QED
    BY <1>0, <2>1, ClosedHandle
<1>11. HandleStates'[d] = Now(Pre(c, n))
  BY <1>2, <1>5, <1>7, <1>8, HandleMaps
<1>12. SavedStates'[d] = SubSeq(SavedStates[d], 1, z)
  <2>1. PICK h \in Seq(Nat) : h = held[d]
    BY <1>0
  <2>2. PICK m \in 0 .. Len(h) : m = z /\ m \in Nat
    BY <1>0, <2>1
  <2>3. PICK T : SavedStates[d] \in Seq(T) /\ Len(SavedStates[d]) = Len(h)
    BY <2>1, SavedSeq
  <2>4. DOMAIN held'[d] = 1 .. m /\ \A j \in 1 .. m : held'[d][j] = h[j] /\ j \in DOMAIN h
    <3>1. PICK g : g = SubSeq(h, 1, m)
      OBVIOUS
    <3>2. g \in Seq(Nat) /\ Len(g) = m /\ \A j \in 1 .. m : g[j] = h[j]
      BY <2>2, <3>1, Prefix
    <3>. QED
      BY <1>5, <2>1, <2>2, <3>1, <3>2
  <2>5. ASSUME NEW j \in 1 .. m PROVE SavedStates'[d][j] = SavedStates[d][j]
    <3>1. PICK q : q = h[j]
      OBVIOUS
    <3>2. q \in 1 .. n /\ q \in 0 .. n /\ j \in DOMAIN held[d] /\ j \in DOMAIN held'[d]
      BY <1>2, <1>3, <2>1, <2>2, <2>4, <3>1
    <3>3. SavedStates'[d][j] = Then(Pre(Pre(c, n), q)) /\ SavedStates[d][j] = Now(Pre(c, q))
      <4>1. held[d][j] = q /\ held'[d][j] = q
        BY <2>1, <2>4, <3>1
      <4>2. SavedStates[d][j] = Now(Pre(chain[d], held[d][j]))
        BY <3>2, HandleMaps
      <4>3. SavedStates'[d][j] = Then(Pre(chain'[d], held'[d][j]))
        BY <3>2, HandleMaps
      <4>. QED
        BY <1>1, <1>5, <4>1, <4>2, <4>3
    <3>4. Pre(Pre(c, n), q) = Pre(c, q)
      BY <1>3, <3>2, PrePre
    <3>5. Rooted(Pre(Pre(c, n), q)) /\ Kept(Pre(Pre(c, n), q)) /\ Mixing(Pre(Pre(c, n), q), <<>>, {})
      <4>1. PICK b : b = Pre(c, n)
        OBVIOUS
      <4>2. Rooted(b) /\ Len(b) = n /\ Kept(b) /\ Mixing(b, <<>>, {})
        BY <1>5, <1>6, <1>7, <4>1
      <4>3. q \in 1 .. Len(b)
        BY <3>2, <4>2
      <4>4. Rooted(Pre(b, q)) /\ Kept(Pre(b, q)) /\ Mixing(Pre(b, q), <<>>, {})
        BY <4>2, <4>3, PreIs, PreKept
      <4>. QED
        BY <4>1, <4>4
    <3>6. Then(Pre(Pre(c, n), q)) = Now(Pre(Pre(c, n), q))
      BY <3>5, SameThen
    <3>. QED
      BY <3>3, <3>4, <3>6
  <2>6. PICK s, t : s = SavedStates[d] /\ t = SavedStates'[d]
    OBVIOUS
  <2>7. s \in Seq(T) /\ m \in 0 .. Len(s) /\ Listed(t, m) /\ \A j \in 1 .. m : t[j] = s[j]
    BY <2>2, <2>3, <2>4, <2>5, <2>6, SavedSeq DEF Listed
  <2>8. t = SubSeq(s, 1, m)
    BY ONLY <2>7, SeqCut, Zenon
  <2>. QED
    BY <2>2, <2>6, <2>8
<1>13. HandleStates' = [HandleStates EXCEPT ![d] = Now(Pre(c, n))]
  BY <1>2, <1>8, <1>9, <1>11, StatesExcept
<1>14. SavedStates' = [SavedStates EXCEPT ![d] = SubSeq(SavedStates[d], 1, z)]
  BY <1>9, <1>10, <1>12, SavedExcept
<1>. QED
  BY <1>1, <1>6, <1>8, <1>13, <1>14

\* RevertToSnapshot restores a saved state.
LEMMA RevertIs ==
    ASSUME LayersInv, LayersInv', NEW d \in DBs, NEW i \in DOMAIN held[d], RevertToSnapshot(d, i)
    PROVE  d \in Open /\ i \in DOMAIN SavedStates[d] /\ Contract!Revert(d, i)
<1>0. /\ HandlesInv /\ chain[d] \in Seq(Layers) /\ held[d] \in Seq(Nat) /\ Len(held[d]) \in Nat
      /\ Keep(pad, chain') /\ UNCHANGED <<bn, origin>> /\ i \in DOMAIN held[d]
  BY DEF RevertToSnapshot, LayersInv, OwnInv, HandlesInv
<1>1. PICK n : n = held[d][i]
  OBVIOUS
<1>2. /\ d \in Open /\ i \in 1 .. Len(held[d]) /\ n \in 1 .. Len(chain[d]) - 1 /\ n \in 1 .. Len(chain[d])
      /\ \A j \in 1 .. i - 1 : held[d][j] \in 1 .. n
  BY <1>0, <1>1, IdsWithin
<1>3. PICK z \in 0 .. Len(held[d]) : z = i - 1
  BY <1>0, <1>2
<1>4. AncestorFor(chain[d], n) = n
  BY <1>0, <1>2, AncestorFound
<1>5. /\ chain' = [chain EXCEPT ![d] = SubSeq(chain[d], 1, n)]
      /\ held' = [held EXCEPT ![d] = SubSeq(held[d], 1, z)]
      /\ \A j \in 1 .. z : held[d][j] \in 1 .. n
  BY <1>1, <1>2, <1>3, <1>4 DEF RevertToSnapshot
<1>6. /\ ForkState' = ForkState
      /\ HandleStates' = [HandleStates EXCEPT ![d] = Now(Pre(chain[d], n))]
      /\ SavedStates' = [SavedStates EXCEPT ![d] = SubSeq(SavedStates[d], 1, z)]
  BY <1>0, <1>2, <1>5, CutIs
<1>7. SavedStates[d][i] = Now(Pre(chain[d], n)) /\ i \in DOMAIN SavedStates[d]
  BY <1>0, <1>1, HandleMaps
<1>. QED
  BY <1>0, <1>2, <1>3, <1>6, <1>7 DEF Contract!Revert

\* What a path shows has its type.
LEMMA ViewType ==
    ASSUME TypeOK, NEW c, Rooted(c)
    PROVE  Now(c).view \in [Keys -> Values] /\ Now(c).tx \in TxHashes
<1>0. c \in Seq(Layers) /\ Len(c) \in 1 .. Len(c) /\ \A i \in 1 .. Len(c) : c[i] \in Layers
  BY DEF Rooted
<1>1. UpstreamAt[bn] \in [Keys -> Values] /\ \A l \in Layers : pad[l] \in Pads /\ txHash[l] \in TxHashes
  BY UpstreamAssumption DEF TypeOK, Views
<1>2. ASSUME NEW k \in Keys PROVE GetIn(pad, UpstreamAt[bn], c, k) \in Values
  <2>1. CASE \E i \in 1 .. Len(c) : Stops(pad, c, k, i)
    <3>1. PICK i \in 1 .. Len(c) : Stops(pad, c, k, i)
      BY <2>1
    <3>2. GetIn(pad, UpstreamAt[bn], c, k) = pad[c[i]][k] /\ pad[c[i]][k] # Absent
      BY <1>0, <3>1, StopIs DEF Stops
    <3>. QED
      BY <1>0, <1>1, <3>2 DEF Pads
  <2>2. CASE ~\E i \in 1 .. Len(c) : Stops(pad, c, k, i)
    BY <1>1, <2>2 DEF GetIn
  <2>. QED
    BY <2>1, <2>2
<1>3. Now(c).view = [k \in Keys |-> GetIn(pad, UpstreamAt[bn], c, k)] /\ Now(c).tx = txHash[Last(c)]
  BY DEF Now, StateIn, ViewIn
<1>4. txHash[Last(c)] \in TxHashes
  BY <1>0, <1>1 DEF Last
<1>. QED
  BY <1>2, <1>3, <1>4

\* A cut path shows fewer logs and receipts.
LEMMA CutNotes ==
    ASSUME TypeOK, NEW c, Rooted(c), NEW n \in 1 .. Len(c)
    PROVE  /\ \A tx \in TxHashes : IsPrefix(Now(Pre(c, n)).logs[tx], Now(c).logs[tx])
           /\ Now(Pre(c, n)).receipts \subseteq Now(c).receipts
<1>0. c \in Seq(Layers) /\ Len(c) \in Nat /\ \A i \in 1 .. Len(c) : c[i] \in Layers
  BY DEF Rooted
<1>1. PICK b : b = Pre(c, n)
  OBVIOUS
<1>2. /\ Len(b) = n /\ \A i \in 1 .. n : b[i] = c[i] /\ i \in 1 .. Len(c)
      /\ \A i \in 2 .. n : b[i] = c[i] /\ i \in 2 .. Len(c)
  BY <1>1, PreIs
<1>3. ASSUME NEW tx \in TxHashes PROVE IsPrefix(Now(b).logs[tx], Now(c).logs[tx])
  <2>1. PICK L \in Nat : L = Len(c) /\ n \in 0 .. L
    BY <1>0
  <2>2. PICK f : f = [j \in 1 .. L |-> txLogs[c[j]][tx]]
    OBVIOUS
  <2>3. n \in 0 .. L /\ L \in Nat /\ \A j \in 1 .. L : f[j] \in Seq(LogIds)
    BY <1>0, <2>1, <2>2 DEF TypeOK
  <2>4. Now(c).logs[tx] = Flat(f, L)
    <3>1. \A j \in 1 .. Len(c) : f[j] = txLogs[c[j]][tx]
      BY <2>1, <2>2
    <3>2. LogsIn(txLogs, c, tx) = Flat(f, L)
      BY <2>1, <3>1, LogsFlat
    <3>. QED
      BY <3>2 DEF Now, StateIn
  <2>5. Now(b).logs[tx] = Flat(f, n)
    <3>1. \A j \in 1 .. Len(b) : f[j] = txLogs[b[j]][tx]
      BY <1>2, <2>1, <2>2
    <3>2. LogsIn(txLogs, b, tx) = Flat(f, n)
      BY <1>2, <3>1, LogsFlat
    <3>. QED
      BY <3>2 DEF Now, StateIn
  <2>6. IsPrefix(Flat(f, n), Flat(f, L))
    BY ONLY <2>3, FlatMore, Zenon
  <2>. QED
    BY <2>4, <2>5, <2>6
<1>4. Now(b).receipts \subseteq Now(c).receipts
  <2>1. Now(b).receipts = ReceiptsIn(receipts, b) /\ Now(c).receipts = ReceiptsIn(receipts, c)
    BY DEF Now, StateIn
  <2>2. ReceiptsIn(receipts, b) \subseteq ReceiptsIn(receipts, c)
    BY <1>2 DEF ReceiptsIn
  <2>. QED
    BY <2>1, <2>2
<1>. QED
  BY <1>1, <1>3, <1>4

\* A revert to an id that was overtaken goes astray.
LEMMA StrayIs ==
    ASSUME LayersInv, LayersInv', NEW id \in lapsed, NEW j, RevertLapsed(id, j)
    PROVE  Contract!Stray
<1>0. /\ HandlesInv /\ TypeOK /\ LapsedHigh /\ Main \in DBs /\ Main \in Open
      /\ held[Main] \in Seq(Nat) /\ chain[Main] \in Seq(Layers) /\ DOMAIN held[Main] = 1 .. Len(held[Main])
      /\ Len(held[Main]) \in Nat /\ Len(chain[Main]) \in Nat /\ Rooted(chain[Main])
  BY DBsAssumption, MainOpen, PathsRooted DEF LayersInv, OwnInv, RootInv, HandlesInv
<1>1. /\ id \in 1 .. Len(chain[Main]) - 1
      /\ j \in 0 .. Len(held[Main]) /\ held' = [held EXCEPT ![Main] = SubSeq(held[Main], 1, j)]
      /\ \A k \in DOMAIN held[Main] : k <= j <=> held[Main][k] < id
      /\ chain' = [chain EXCEPT ![Main] = SubSeq(chain[Main], 1, id)]
      /\ Keep(pad, chain') /\ UNCHANGED <<bn, origin>>
  BY <1>0, StrayCut
<1>2. id \in 1 .. Len(chain[Main])
  BY <1>0, <1>1
<1>3. ASSUME NEW k \in 1 .. j PROVE held[Main][k] \in 1 .. id
  <2>1. k \in DOMAIN held[Main] /\ k <= j
    BY <1>0, <1>1
  <2>2. held[Main][k] \in 1 .. Len(chain[Main]) /\ held[Main][k] < id
    BY <1>0, <1>1, <2>1, IdsWithin
  <2>. QED
    BY <1>0, <1>2, <2>2
<1>4. /\ ForkState' = ForkState
      /\ HandleStates' = [HandleStates EXCEPT ![Main] = Now(Pre(chain[Main], id))]
      /\ SavedStates' = [SavedStates EXCEPT ![Main] = SubSeq(SavedStates[Main], 1, j)]
  BY <1>0, <1>1, <1>2, <1>3, CutIs
<1>5. PICK v : v = Now(Pre(chain[Main], id))
  OBVIOUS
<1>6. v.view \in [Keys -> Values] /\ v.tx \in TxHashes
  BY <1>0, <1>2, <1>5, PreIs, ViewType
<1>7. DOMAIN HandleStates = Open /\ HandleStates[Main] = Now(chain[Main])
  BY <1>0, HandleMaps
<1>8. /\ \A tx \in TxHashes : IsPrefix(v.logs[tx], HandleStates[Main].logs[tx])
      /\ v.receipts \subseteq HandleStates[Main].receipts
  BY <1>0, <1>2, <1>5, <1>7, CutNotes
<1>9. HandleStates'[Main] = v /\ HandleStates' = [HandleStates EXCEPT ![Main] = v]
  BY <1>0, <1>4, <1>5, <1>7
<1>10. j \in 0 .. Len(SavedStates[Main])
  BY <1>0, <1>1, SavedSeq
<1>11. \A x, y : Contract!IsPrefix(x, y) <=> IsPrefix(x, y)
  BY DEF IsPrefix, Contract!IsPrefix
<1>12. \A tx \in TxHashes : Contract!IsPrefix(HandleStates'[Main].logs[tx], HandleStates[Main].logs[tx])
  BY <1>8, <1>9, <1>11
<1>13. (lapsed # {}) /\ (lapsed # {})' \in BOOLEAN
  OBVIOUS
<1>. QED
  BY <1>1, <1>4, <1>6, <1>8, <1>9, <1>10, <1>12, <1>13 DEF Contract!Stray

\* Going back below held ids overtakes their holders.
LEMMA OvertakesIs ==
    ASSUME HandlesInv, NEW i \in 0 .. Len(held[Main]), lapsed' = Overtaken(Main, i)
    PROVE  Contract!Overtakes(i)
<1>1. held[Main] \in Seq(Nat) /\ Len(held[Main]) \in Nat /\ Main \in DBs
  BY DBsAssumption DEF HandlesInv
<1>2. Len(SavedStates[Main]) = Len(held[Main])
  BY <1>1, SavedSeq
<1>3. lapsed' = lapsed \cup {held[Main][j] : j \in i + 1 .. Len(held[Main])}
  BY DEF Overtaken
<1>4. (i + 1 .. Len(held[Main]) # {}) <=> i < Len(held[Main])
  <2>1. PICK n \in Nat : n = Len(held[Main])
    BY <1>1
  <2>2. i \in Nat
    BY <2>1
  <2>3. i < n => i + 1 \in i + 1 .. n
    BY <2>1, <2>2
  <2>4. ~(i < n) => i + 1 .. n = {}
    BY <2>1, <2>2
  <2>. QED
    BY <2>1, <2>3, <2>4
<1>5. (lapsed' # {}) <=> (lapsed # {} \/ i < Len(SavedStates[Main]))
  BY <1>2, <1>3, <1>4
<1>. QED
  BY <1>5 DEF Contract!Overtakes

\* A frame that returns forgets a saved state.
LEMMA FrameReturnsIs ==
    ASSUME LayersInv, NEW d \in DBs, FrameReturns(d)
    PROVE  d \in Open /\ Contract!Forget(d)
<1>0. /\ HandlesInv /\ held \in [DBs -> Seq(Nat)] /\ held[d] # <<>>
      /\ held' = [held EXCEPT ![d] = Front(held[d])] /\ UNCHANGED <<bn, pad, notes, chain, origin>>
  BY DEF FrameReturns, LayersInv, OwnInv, HandlesInv
<1>1. d \in Open /\ Open' = Open
  BY <1>0, HeldIsOpen DEF Open
<1>2. ForkState' = ForkState /\ HandleStates' = HandleStates /\ \A c : Then(c) = Now(c)
  BY <1>0, <1>1, ForkMap, StateMap DEF Then, Now, notes
<1>3. \A e \in DBs \ {d} : SavedStates'[e] = SavedStates[e]
  <2>1. \A e \in DBs \ {d} : held'[e] = held[e] /\ chain'[e] = chain[e]
    BY <1>0
  <2>. QED
    BY <1>2, <2>1, SameSaved
<1>4. PICK h \in Seq(Nat) : h = held[d] /\ h # <<>>
  BY <1>0
<1>5. PICK m \in 0 .. Len(h) : m = Len(h) - 1 /\ m \in Nat
  <2>1. Len(h) \in Nat /\ Len(h) # 0
    BY <1>4, EmptySeq
  <2>2. Len(h) - 1 \in 0 .. Len(h) /\ Len(h) - 1 \in Nat
    BY <2>1
  <2>. QED
    BY <2>2
<1>6. PICK T : SavedStates[d] \in Seq(T) /\ Len(SavedStates[d]) = Len(h)
  BY <1>4, SavedSeq
<1>7. DOMAIN held'[d] = 1 .. m /\ \A j \in 1 .. m : held'[d][j] = h[j] /\ j \in DOMAIN h
  <2>1. PICK g : g = SubSeq(h, 1, m)
    OBVIOUS
  <2>2. g \in Seq(Nat) /\ Len(g) = m /\ \A j \in 1 .. m : g[j] = h[j]
    BY <1>5, <2>1, Prefix
  <2>. QED
    BY <1>0, <1>4, <1>5, <2>1, <2>2 DEF Front
<1>8. ASSUME NEW j \in 1 .. m PROVE SavedStates'[d][j] = SavedStates[d][j]
  <2>1. j \in DOMAIN held[d] /\ j \in DOMAIN held'[d] /\ held'[d][j] = held[d][j] /\ chain'[d] = chain[d]
    BY <1>0, <1>4, <1>7
  <2>2. SavedStates'[d][j] = Then(Pre(chain[d], held[d][j])) /\ SavedStates[d][j] = Now(Pre(chain[d], held[d][j]))
    BY <2>1, HandleMaps
  <2>. QED
    BY <1>2, <2>2
<1>9. PICK s, t : s = SavedStates[d] /\ t = SavedStates'[d]
  OBVIOUS
<1>10. s \in Seq(T) /\ m \in 0 .. Len(s) /\ Listed(t, m) /\ \A j \in 1 .. m : t[j] = s[j]
  BY <1>5, <1>6, <1>7, <1>8, <1>9, SavedSeq DEF Listed
<1>11. t = SubSeq(s, 1, m)
  BY ONLY <1>10, SeqCut, Zenon
<1>12. SavedStates'[d] = Front(SavedStates[d]) /\ SavedStates[d] # <<>>
  BY <1>5, <1>6, <1>9, <1>11 DEF Front
<1>13. SavedStates' = [SavedStates EXCEPT ![d] = Front(SavedStates[d])]
  BY <1>3, <1>12, SavedExcept
<1>. QED
  BY <1>0, <1>1, <1>2, <1>12, <1>13 DEF Contract!Forget, Front, Contract!Front

-----------------------------------------------------------------------------
(* Clones. *)

\* The bare root shows the fork state and nothing else.
LEMMA BareRoot ==
    ASSUME NEW p, NEW up, NEW lg, NEW rc, NEW th, lg[Root] = NoLogs, th[Root] = ZeroHash
    PROVE  StateIn(p, up, lg, rc, th, <<Root>>) = Contract!Pristine(ForkIn(p, up))
<1>1. PICK r : r = <<Root>>
  OBVIOUS
<1>2. r \in Seq(Layers) /\ Len(r) = 1 /\ r[1] = Root /\ Last(r) = Root
  BY <1>1, LayersAssumption DEF Last
<1>4. ViewIn(p, up, r) = ForkIn(p, up)
  BY <1>1 DEF ForkIn
<1>5. ASSUME NEW tx \in TxHashes PROVE LogsIn(lg, r, tx) = <<>>
  <2>1. PICK f : f = [i \in 1 .. 1 |-> lg[Root][tx]]
    OBVIOUS
  <2>2. f[1] = <<>> /\ f[0 + 1] \in Seq(LogIds) /\ f[0 + 1] = <<>>
    BY <1>5, <2>1 DEF NoLogs
  <2>3. \A i \in 1 .. Len(r) : f[i] = lg[r[i]][tx]
    BY <1>2, <2>1
  <2>4. LogsIn(lg, r, tx) = Flat(f, Len(r))
    BY <2>3, LogsFlat
  <2>5. Flat(f, 0 + 1) = Flat(f, 0) \o f[0 + 1]
    BY <2>2, FlatNext
  <2>6. <<>> \o <<>> = <<>>
    OBVIOUS
  <2>7. 0 + 1 = 1
    OBVIOUS
  <2>. QED
    BY <1>2, <2>2, <2>4, <2>5, <2>6, <2>7, FlatZero
<1>6. ReceiptsIn(rc, r) = {}
  <2>1. 2 .. Len(r) = {}
    BY <1>2
  <2>. QED
    BY <2>1 DEF ReceiptsIn
<1>7. [tx \in TxHashes |-> LogsIn(lg, r, tx)] = [t \in TxHashes |-> <<>>]
  BY <1>5
<1>8. th[Last(r)] = ZeroHash
  BY <1>2
<1>9. StateIn(p, up, lg, rc, th, r) = Contract!Pristine(ForkIn(p, up))
  BY <1>4, <1>6, <1>7, <1>8 DEF StateIn, Contract!Pristine, Contract!NoLogs
<1>. QED
  BY <1>1, <1>9

\* The same of the states before and after a step.
LEMMA RootState ==
    /\ Rooted(<<Root>>)
    /\ RootBlank => Now(<<Root>>) = Contract!Pristine(ForkState)
    /\ RootBlank' => Then(<<Root>>) = Contract!Pristine(ForkState')
<1>1. Rooted(<<Root>>)
  BY LayersAssumption DEF Rooted
<1>2. ASSUME RootBlank PROVE Now(<<Root>>) = Contract!Pristine(ForkState)
  <2>1. txLogs[Root] = NoLogs /\ txHash[Root] = ZeroHash
    BY <1>2 DEF RootBlank
  <2>2. Now(<<Root>>) = Contract!Pristine(ForkIn(pad, UpstreamAt[bn]))
    BY <2>1, BareRoot DEF Now
  <2>. QED
    BY <2>2, ForkMap
<1>3. ASSUME RootBlank' PROVE Then(<<Root>>) = Contract!Pristine(ForkState')
  <2>1. txLogs'[Root] = NoLogs /\ txHash'[Root] = ZeroHash
    BY <1>3 DEF RootBlank
  <2>2. Then(<<Root>>) = Contract!Pristine(ForkIn(pad', UpstreamAt[bn']))
    BY <2>1, BareRoot DEF Then
  <2>. QED
    BY <2>2, ForkMap
<1>. QED
  BY <1>1, <1>2, <1>3

\* A new handle starts in the state of the path it is opened over.
LEMMA OpenIs ==
    ASSUME LayersInv, LayersInv', NEW e \in DBs, NEW c, Rooted(c), NEW l, NEW from, OpenAs(e, c, l, from),
           \A i \in 1 .. Len(c) : c[i] # l
    PROVE  Contract!Opens(e, Now(c), from)
<1>0. /\ HandlesInv /\ TypeOK' /\ chain \in [DBs -> Seq(Layers)] /\ e \in DBs \ Open
      /\ l \in FreeLayers(chain) /\ Derive(Last(c), l) /\ UNCHANGED <<bn, held>>
      /\ chain' = [chain EXCEPT ![e] = Append(c, l)]
      /\ origin' = [origin EXCEPT ![e] = from]
  BY DEF OpenAs, LayersInv, OwnInv, HandlesInv
<1>1. /\ c \in Seq(Layers) /\ Len(c) \in Nat /\ Len(c) >= 1 /\ Len(c) \in 1 .. Len(c) /\ Last(c) = c[Len(c)]
      /\ l \in Layers \ {Root} /\ Last(c) \in Layers
  <2>1. c \in Seq(Layers) /\ Len(c) \in Nat /\ Len(c) >= 1
    BY RootedLen
  <2>. QED
    BY <1>0, <2>1, FreeIsNotRoot DEF Last
<1>2. Last(c) # l
  BY <1>1
<1>3. /\ ForkState' = ForkState
      /\ pad'[l] = EmptyPad /\ txLogs'[l] = NoLogs /\ receipts'[l] = {} /\ txHash'[l] = txHash'[Last(c)]
      /\ \A b : Rooted(b) /\ (\A i \in 1 .. Len(b) : b[i] # l) => Kept(b) /\ Mixing(b, <<>>, {})
  BY <1>0, <1>1, <1>2, DeriveIs
<1>4. \A x \in Open : Kept(chain[x]) /\ Mixing(chain[x], <<>>, {})
  <2>1. ASSUME NEW x \in Open PROVE Rooted(chain[x]) /\ x \in DBs
    BY <1>0, PathsRooted DEF Open
  <2>2. \A x \in DBs : \A i \in 1 .. Len(chain[x]) : chain[x][i] # l
    BY <1>0, FreeIsNotOnPath
  <2>. QED
    BY <1>3, <2>1, <2>2
<1>5. chain'[e] = Append(c, l) /\ \A x \in DBs \ {e} : chain'[x] = chain[x]
  BY <1>0
<1>6. Open' = Open \cup {e}
  <2>1. chain'[e] # <<>>
    BY <1>1, <1>5
  <2>. QED
    BY <1>0, <1>5, <2>1 DEF Open
<1>7. ASSUME NEW x \in Open PROVE HandleStates'[x] = HandleStates[x] /\ SavedStates'[x] = SavedStates[x]
  <2>1. x \in DBs \ {e} /\ held'[x] = held[x]
    BY <1>0 DEF Open
  <2>2. chain'[x] = chain[x]
    BY <1>5, <2>1
  <2>. QED
    BY <1>0, <1>4, <2>1, <2>2, SameHandle
<1>8. ASSUME NEW x \in DBs \ Open PROVE SavedStates'[x] = SavedStates[x]
  <2>1. held'[x] = held[x]
    BY <1>0
  <2>. QED
    BY <1>0, <2>1, ClosedHandle
<1>9. HandleStates'[e] = Now(c)
  <2>1. Then(c) = Now(c)
    BY <1>3, SameThen
  <2>2. Then(Append(c, l)) = Then(c)
    BY <1>0, <1>1, <1>3, GrowThen
  <2>3. e \in Open'
    BY <1>6
  <2>. QED
    BY <1>5, <2>1, <2>2, <2>3, HandleMaps
<1>10. HandleStates' = [x \in Open \cup {e} |-> IF x = e THEN Now(c) ELSE HandleStates[x]]
  <2>1. HandleStates' = [x \in Open' |-> HandleStates'[x]]
    BY StateMap
  <2>2. \A x \in Open \cup {e} : HandleStates'[x] = IF x = e THEN Now(c) ELSE HandleStates[x]
    BY <1>0, <1>7, <1>9
  <2>. QED
    BY <1>6, <2>1, <2>2
<1>11. SavedStates' = SavedStates
  <2>1. SavedStates' = [x \in DBs |-> SavedStates'[x]] /\ SavedStates = [x \in DBs |-> SavedStates[x]]
    BY SavedMap
  <2>2. \A x \in DBs : SavedStates'[x] = SavedStates[x]
    BY <1>7, <1>8
  <2>. QED
    BY <2>1, <2>2
<1>12. DOMAIN HandleStates = Open
  BY HandleMaps
<1>. QED
  BY <1>0, <1>3, <1>10, <1>11, <1>12 DEF Contract!Opens

\* Clone copies the state and remembers where it comes from.
LEMMA CloneIs ==
    ASSUME LayersInv, LayersInv', NEW d \in DBs, NEW e \in DBs, NEW l \in Layers, Clone(d, e, l)
    PROVE  d \in Open /\ Contract!Clone(d, e)
<1>0. d \in Open /\ HandlesInv /\ OpenAs(e, chain[d], l, origin[d] \cup {d})
  BY DEF Clone, LayersInv, OwnInv
<1>1. Rooted(chain[d]) /\ \A i \in 1 .. Len(chain[d]) : chain[d][i] # l
  <2>1. chain \in [DBs -> Seq(Layers)] /\ l \in FreeLayers(chain)
    BY <1>0 DEF HandlesInv, OpenAs
  <2>. QED
    BY <1>0, <2>1, PathsRooted, FreeIsNotOnPath
<1>2. Contract!Opens(e, Now(chain[d]), origin[d] \cup {d})
  BY <1>0, <1>1, OpenIs
<1>3. HandleStates[d] = Now(chain[d])
  BY <1>0, HandleMaps
<1>. QED
  BY <1>0, <1>2, <1>3 DEF Contract!Clone

\* A clone of the root starts from the fork state.
LEMMA CloneFromRootIs ==
    ASSUME LayersInv, LayersInv', NEW d \in DBs, NEW e \in DBs, NEW l \in Layers, CloneFromRoot(d, e, l)
    PROVE  d \in Open /\ Contract!CloneFromRoot(e)
<1>1. PICK r : r = <<Root>>
  OBVIOUS
<1>2. d \in Open /\ OpenAs(e, r, l, {})
  BY <1>1 DEF CloneFromRoot
<1>3. Rooted(r) /\ Now(r) = Contract!Pristine(ForkState)
  BY <1>1, RootState DEF LayersInv, OwnInv
<1>4. \A i \in 1 .. Len(r) : r[i] # l
  <2>1. l # Root
    BY <1>2, FreeIsNotRoot DEF OpenAs
  <2>. QED
    BY <1>1, <2>1
<1>5. Contract!Opens(e, Now(r), {})
  BY <1>2, <1>3, <1>4, OpenIs
<1>. QED
  BY <1>2, <1>3, <1>5 DEF Contract!CloneFromRoot

\* A clone that is dropped leaves the others alone.
LEMMA DropIs ==
    ASSUME LayersInv, LayersInv', NEW d \in DBs, Drop(d)
    PROVE  d \in Open /\ Contract!Drop(d)
<1>0. /\ HandlesInv /\ HandlesInv' /\ TypeOK /\ chain \in [DBs -> Seq(Layers)] /\ held \in [DBs -> Seq(Nat)]
      /\ d \in Open /\ d # Main /\ chain' = [chain EXCEPT ![d] = <<>>] /\ held' = [held EXCEPT ![d] = <<>>]
      /\ Keep(pad, chain') /\ bn' = bn
      /\ origin' = [x \in DBs |-> IF x = d THEN {} ELSE origin[x] \ {d}]
  BY DEF Drop, LayersInv, OwnInv, HandlesInv
<1>1. /\ ForkState' = ForkState
      /\ \A e \in DBs : Kept(chain'[e]) /\ Mixing(chain'[e], <<>>, {})
  BY <1>0, KeepSame
<1>2. /\ chain'[d] = <<>> /\ held'[d] = <<>> /\ \A e \in DBs \ {d} : chain'[e] = chain[e] /\ held'[e] = held[e]
  BY <1>0
<1>3. Open' = Open \ {d}
  BY <1>2 DEF Open
<1>4. ASSUME NEW e \in Open \ {d} PROVE HandleStates'[e] = HandleStates[e] /\ SavedStates'[e] = SavedStates[e]
  <2>1. e \in Open /\ e \in DBs /\ chain'[e] = chain[e] /\ held'[e] = held[e]
    BY <1>2 DEF Open
  <2>2. Kept(chain'[e]) /\ Mixing(chain'[e], <<>>, {})
    BY <1>1, <2>1
  <2>3. Kept(chain[e]) /\ Mixing(chain[e], <<>>, {})
    BY <2>1, <2>2
  <2>. QED
    BY <1>0, <2>1, <2>3, SameHandle
<1>5. ASSUME NEW e \in DBs \ Open PROVE SavedStates'[e] = SavedStates[e]
  <2>1. held'[e] = held[e]
    BY <1>0, <1>2
  <2>. QED
    BY <1>0, <2>1, ClosedHandle
<1>6. SavedStates'[d] = <<>>
  <2>1. DOMAIN held'[d] = {}
    BY <1>2
  <2>2. SavedStates'[d] = [i \in {} |-> SavedStates'[d][i]]
    BY <2>1, SavedSeq
  <2>. QED
    BY <2>2
<1>7. SavedStates' = [SavedStates EXCEPT ![d] = <<>>]
  BY <1>4, <1>5, <1>6, SavedExcept
<1>8. HandleStates' = [x \in Open \ {d} |-> HandleStates[x]]
  <2>1. HandleStates' = [x \in Open' |-> HandleStates'[x]]
    BY StateMap
  <2>. QED
    BY <1>3, <1>4, <2>1
<1>9. DOMAIN HandleStates = Open
  BY HandleMaps
<1>. QED
  BY <1>0, <1>1, <1>7, <1>8, <1>9 DEF Contract!Drop

-----------------------------------------------------------------------------
(* Logs and receipts. *)

\* Layer l is on the path c, and no layer is twice on it.
On(c, l) == \E i \in 1 .. Len(c) : c[i] = l

Distinct(c) == \A i, j \in 1 .. Len(c) : c[i] = c[j] => i = j

\* The paths of the revisions of a handle.
LEMMA SavedPath ==
    ASSUME LayersInv, NEW e \in DBs, NEW i \in DOMAIN held[e], NEW c, c = Pre(chain[e], held[e][i])
    PROVE  /\ e \in Open /\ Rooted(c) /\ Distinct(c)
           /\ \E n \in 1 .. Len(chain[e]) - 1 :
                 /\ n \in floor[e] + 1 .. Len(chain[e]) /\ Len(c) = n /\ Last(c) = chain[e][n]
                 /\ \A j \in 1 .. n : c[j] = chain[e][j] /\ j \in 1 .. Len(chain[e])
<1>0. HandlesInv /\ Apart(chain, floor) /\ floor[e] \in Nat
  BY DEF LayersInv, OwnInv, HandlesInv
<1>1. PICK n : n = held[e][i]
  OBVIOUS
<1>2. e \in Open /\ n \in 1 .. Len(chain[e]) - 1 /\ n \in 1 .. Len(chain[e]) /\ floor[e] < n
  BY <1>0, <1>1, IdsWithin
<1>3. Rooted(chain[e]) /\ Len(chain[e]) \in Nat
  BY <1>0, <1>2, PathsRooted
<1>4. Rooted(c) /\ Len(c) = n /\ Last(c) = chain[e][n] /\ \A j \in 1 .. n : c[j] = chain[e][j] /\ j \in 1 .. Len(chain[e])
  BY <1>1, <1>2, <1>3, PreIs
<1>5. Distinct(c)
  BY <1>0, <1>4 DEF Apart, Distinct
<1>6. n \in floor[e] + 1 .. Len(chain[e])
  BY <1>0, <1>2, <1>3
<1>. QED
  BY <1>2, <1>4, <1>5, <1>6

\* Who does not see the top layer of d.
LEMMA OffTop ==
    ASSUME LayersInv, NEW d \in Open
    PROVE  /\ \A i \in DOMAIN held[d] : ~On(Pre(chain[d], held[d][i]), Top(d))
           /\ \A e \in Open : e # d /\ d \notin origin[e] =>
                /\ ~On(chain[e], Top(d))
                /\ \A i \in DOMAIN held[e] : ~On(Pre(chain[e], held[e][i]), Top(d))
<1>0. Open \subseteq DBs
  BY DEF Open
<1>1. ASSUME NEW i \in DOMAIN held[d] PROVE ~On(Pre(chain[d], held[d][i]), Top(d))
  <2>1. PICK c : c = Pre(chain[d], held[d][i])
    OBVIOUS
  <2>2. PICK n \in 1 .. Len(chain[d]) - 1 :
            Len(c) = n /\ \A j \in 1 .. n : c[j] = chain[d][j] /\ j \in 1 .. Len(chain[d])
    BY <1>0, <2>1, SavedPath
  <2>3. Len(chain[d]) \in Nat
    BY PathsRooted DEF LayersInv, OwnInv
  <2>4. \A j \in 1 .. n : j \in 1 .. Len(chain[d]) - 1
    BY <2>3
  <2>5. \A j \in 1 .. Len(c) : c[j] # Top(d)
    BY <2>2, <2>4, TopOwn
  <2>. QED
    BY <2>1, <2>5 DEF On
<1>2. ASSUME NEW e \in Open, e # d, d \notin origin[e] PROVE ~On(chain[e], Top(d))
  BY <1>2, TopOwn DEF On
<1>3. ASSUME NEW e \in Open, e # d, d \notin origin[e], NEW i \in DOMAIN held[e]
      PROVE  ~On(Pre(chain[e], held[e][i]), Top(d))
  <2>1. PICK c : c = Pre(chain[e], held[e][i])
    OBVIOUS
  <2>2. PICK n \in 1 .. Len(chain[e]) - 1 :
            Len(c) = n /\ \A j \in 1 .. n : c[j] = chain[e][j] /\ j \in 1 .. Len(chain[e])
    BY <1>0, <2>1, SavedPath
  <2>. QED
    BY <1>2, <1>3, <2>1, <2>2 DEF On
<1>. QED
  BY <1>1, <1>2, <1>3

\* The top layer of d is no other handle's top layer, now or after a revert.
LEMMA OthersTop ==
    ASSUME LayersInv, NEW d \in Open, NEW e \in Open
    PROVE  /\ e # d => Last(chain[e]) # Top(d)
           /\ \A i \in DOMAIN held[e] : Last(Pre(chain[e], held[e][i])) # Top(d)
<1>0. /\ HandlesInv /\ Apart(chain, floor) /\ Open \subseteq DBs /\ d \in DBs /\ e \in DBs
  BY DEF LayersInv, OwnInv, Open
<1>1. \A x \in Open : Len(chain[x]) \in floor[x] + 1 .. Len(chain[x]) /\ Last(chain[x]) = chain[x][Len(chain[x])]
  <2>1. ASSUME NEW x \in Open PROVE floor[x] \in Nat /\ floor[x] < Len(chain[x]) /\ Len(chain[x]) \in Nat
    BY <1>0, PathsRooted DEF HandlesInv, HandleOK, Open
  <2>. QED
    BY <2>1 DEF Last
<1>2. Top(d) = chain[d][Len(chain[d])]
  BY TopOwn
<1>3. ASSUME NEW n \in floor[e] + 1 .. Len(chain[e]), e # d PROVE chain[e][n] # Top(d)
  BY <1>0, <1>1, <1>2, <1>3 DEF Apart
<1>4. e # d => Last(chain[e]) # Top(d)
  BY <1>1, <1>3
<1>5. ASSUME NEW i \in DOMAIN held[e] PROVE Last(Pre(chain[e], held[e][i])) # Top(d)
  <2>1. PICK n \in 1 .. Len(chain[e]) - 1 :
            n \in floor[e] + 1 .. Len(chain[e]) /\ Last(Pre(chain[e], held[e][i])) = chain[e][n]
    BY <1>0, SavedPath
  <2>2. CASE e # d
    BY <1>3, <2>1, <2>2
  <2>3. CASE e = d
    BY <2>1, <2>3, TopOwn
  <2>. QED
    BY <2>2, <2>3
<1>. QED
  BY <1>4, <1>5

\* StartLogCollection changes the handle's transaction and no other's.
LEMMA StartLogCollectionIs ==
    ASSUME LayersInv, NEW d \in DBs, NEW tx, StartLogCollection(d, tx)
    PROVE  d \in Open /\ Contract!StartLogCollection(d, tx)
<1>0. /\ d \in Open /\ txHash \in [Layers -> TxHashes] /\ Top(d) \in Layers /\ HandlesInv
      /\ txHash' = [txHash EXCEPT ![Top(d)] = tx]
      /\ UNCHANGED <<bn, pad, txLogs, receipts, chain, held, origin>>
  BY TopType DEF StartLogCollection, LayersInv, OwnInv, TypeOK
<1>1. ForkState' = ForkState /\ Open' = Open
  BY <1>0, ForkMap DEF Open
<1>2. ASSUME NEW c, Last(c) # Top(d) PROVE Then(c) = Now(c)
  <2>1. txHash'[Last(c)] = txHash[Last(c)]
    BY <1>0, <1>2
  <2>. QED
    BY <1>0, <2>1 DEF Then, Now, StateIn
<1>3. HandleStates'[d] = [HandleStates[d] EXCEPT !.tx = tx]
  <2>1. PICK c : c = chain[d]
    OBVIOUS
  <2>2. HandleStates'[d] = Then(c) /\ HandleStates[d] = Now(c)
    BY <1>0, <1>1, <2>1, HandleMaps
  <2>3. txHash'[Last(c)] = tx
    BY <1>0, <2>1 DEF Top
  <2>4. PICK v, g, r, t : Now(c) = [view |-> v, logs |-> g, receipts |-> r, tx |-> t]
                           /\ Then(c) = [view |-> v, logs |-> g, receipts |-> r, tx |-> tx]
    BY <1>0, <2>3 DEF Then, Now, StateIn
  <2>. QED
    BY <2>2, <2>4
<1>4. \A e \in Open \ {d} : HandleStates'[e] = HandleStates[e]
  BY <1>0, <1>1, <1>2, HandleMaps, OthersTop
<1>5. ASSUME NEW e \in DBs PROVE SavedStates'[e] = SavedStates[e]
  <2>1. ASSUME NEW i \in DOMAIN held[e] PROVE Then(Pre(chain'[e], held'[e][i])) = Now(Pre(chain[e], held[e][i]))
    <3>1. e \in Open
      BY <1>0, IdsWithin
    <3>2. Last(Pre(chain[e], held[e][i])) # Top(d)
      BY <1>0, <3>1, OthersTop
    <3>. QED
      BY <1>0, <1>2, <3>2
  <2>. QED
    BY <1>0, <2>1, SameSaved
<1>6. SavedStates' = SavedStates
  <2>1. SavedStates' = [x \in DBs |-> SavedStates'[x]] /\ SavedStates = [x \in DBs |-> SavedStates[x]]
    BY SavedMap
  <2>. QED
    BY <1>5, <2>1
<1>7. HandleStates' = [HandleStates EXCEPT ![d] = [HandleStates[d] EXCEPT !.tx = tx]]
  BY <1>0, <1>1, <1>3, <1>4, StatesExcept
<1>8. HandleStates' = [HandleStates EXCEPT ![d].tx = tx]
  BY <1>7
<1>. QED
  BY <1>0, <1>1, <1>6, <1>8 DEF Contract!StartLogCollection

\* A handle that does not see the top layer of d, when only what is noted
\* there changes.
LEMMA OffSame ==
    ASSUME LayersInv, UNCHANGED <<bn, pad, chain, held>>, NEW d \in Open, NEW e \in Open,
           \A c : Rooted(c) /\ ~On(c, Top(d)) => Then(c) = Now(c)
    PROVE  /\ e # d /\ d \notin origin[e] => HandleStates'[e] = HandleStates[e]
           /\ e = d \/ d \notin origin[e] => SavedStates'[e] = SavedStates[e]
<1>0. HandlesInv /\ e \in DBs /\ e \in Open'
  BY DEF LayersInv, OwnInv, Open
<1>1. ASSUME e # d, d \notin origin[e] PROVE HandleStates'[e] = HandleStates[e]
  <2>1. Rooted(chain[e]) /\ ~On(chain[e], Top(d))
    BY <1>0, <1>1, PathsRooted, OffTop
  <2>. QED
    BY <1>0, <2>1, HandleMaps
<1>2. ASSUME e = d \/ d \notin origin[e] PROVE SavedStates'[e] = SavedStates[e]
  <2>1. ASSUME NEW i \in DOMAIN held[e] PROVE Then(Pre(chain'[e], held'[e][i])) = Now(Pre(chain[e], held[e][i]))
    <3>1. ~On(Pre(chain[e], held[e][i]), Top(d))
      BY <1>2, OffTop
    <3>2. Rooted(Pre(chain[e], held[e][i]))
      BY <1>0, SavedPath
    <3>. QED
      BY <3>1, <3>2
  <2>. QED
    BY <1>0, <2>1, SameSaved
<1>. QED
  BY <1>1, <1>2

\* A step that only writes notes keeps the frame of the contract.
LEMMA NoteFrame ==
    ASSUME LayersInv, UNCHANGED <<bn, pad, chain, held, origin>> PROVE Contract!Frame
<1>0. HandlesInv /\ Open' = Open
  BY DEF LayersInv, OwnInv, Open
<1>1. \A e \in DBs \ Open : SavedStates'[e] = SavedStates[e]
  BY <1>0, ClosedHandle
<1>2. ForkState' = ForkState
  BY ForkMap
<1>. QED
  BY <1>0, <1>1, <1>2, HandleMaps DEF Contract!Frame

\* AddReceipt adds to the handle, and perhaps to its clones.
LEMMA AddReceiptIs ==
    ASSUME LayersInv, NEW d \in DBs, NEW tx, AddReceipt(d, tx)
    PROVE  d \in Open /\ Contract!AddReceipt(d, tx)
<1>0. /\ d \in Open /\ receipts \in [Layers -> SUBSET TxHashes] /\ Top(d) \in Layers \ {Root} /\ HandlesInv
      /\ receipts' = [receipts EXCEPT ![Top(d)] = receipts[Top(d)] \cup {tx}]
      /\ UNCHANGED <<bn, pad, txLogs, txHash, chain, held, origin>> /\ Open' = Open
  BY TopOwn DEF AddReceipt, LayersInv, OwnInv, TypeOK, Open
<1>1. ASSUME NEW c, Rooted(c) PROVE Then(c) = [Now(c) EXCEPT !.receipts = ReceiptsIn(receipts', c)]
  <2>1. PICK v, g, r, t : Now(c) = [view |-> v, logs |-> g, receipts |-> r, tx |-> t]
                           /\ Then(c) = [view |-> v, logs |-> g, receipts |-> ReceiptsIn(receipts', c), tx |-> t]
    BY <1>0 DEF Then, Now, StateIn
  <2>2. PICK x : x = ReceiptsIn(receipts', c)
    OBVIOUS
  <2>. QED
    BY <2>1, <2>2
<1>2. ASSUME NEW c, Rooted(c) PROVE Now(c) = [Now(c) EXCEPT !.receipts = ReceiptsIn(receipts, c)]
  <2>1. PICK v, g, r, t : Now(c) = [view |-> v, logs |-> g, receipts |-> r, tx |-> t] /\ r = ReceiptsIn(receipts, c)
    BY DEF Now, StateIn
  <2>. QED
    BY <2>1
<1>3. ASSUME NEW c, Rooted(c), ~On(c, Top(d)) PROVE Then(c) = Now(c)
  <2>1. c \in Seq(Layers) /\ Len(c) \in Nat
    BY <1>3, RootedLen
  <2>2. \A i \in 2 .. Len(c) : i \in 1 .. Len(c) /\ c[i] \in Layers /\ c[i] # Top(d)
    BY <1>3, <2>1 DEF On
  <2>3. \A i \in 2 .. Len(c) : receipts'[c[i]] = receipts[c[i]]
    BY <1>0, <2>2
  <2>4. ReceiptsIn(receipts', c) = ReceiptsIn(receipts, c)
    BY <2>3 DEF ReceiptsIn
  <2>. QED
    BY <1>1, <1>2, <1>3, <2>4
<1>4. ASSUME NEW c, Rooted(c), On(c, Top(d)) PROVE Then(c) = [Now(c) EXCEPT !.receipts = @ \cup {tx}]
  <2>1. c \in Seq(Layers) /\ Len(c) \in Nat /\ c[1] = Root
    BY <1>4 DEF Rooted
  <2>2. PICK a \in 1 .. Len(c) : c[a] = Top(d)
    BY <1>4 DEF On
  <2>3. a \in 2 .. Len(c)
    BY <1>0, <2>1, <2>2
  <2>4. \A i \in 2 .. Len(c) : receipts'[c[i]] = IF c[i] = Top(d) THEN receipts[c[i]] \cup {tx} ELSE receipts[c[i]]
    <3>1. \A i \in 2 .. Len(c) : c[i] \in Layers
      BY <2>1
    <3>. QED
      BY <1>0, <3>1
  <2>5. ReceiptsIn(receipts', c) = ReceiptsIn(receipts, c) \cup {tx}
    <3>1. ASSUME NEW t PROVE t \in ReceiptsIn(receipts', c) <=> t \in ReceiptsIn(receipts, c) \cup {tx}
      <4>1. t \in ReceiptsIn(receipts', c) <=> \E i \in 2 .. Len(c) : t \in receipts'[c[i]]
        BY DEF ReceiptsIn
      <4>2. t \in ReceiptsIn(receipts, c) <=> \E i \in 2 .. Len(c) : t \in receipts[c[i]]
        BY DEF ReceiptsIn
      <4>. QED
        BY <2>2, <2>3, <2>4, <4>1, <4>2
    <3>. QED
      BY <3>1
  <2>6. Now(c).receipts = ReceiptsIn(receipts, c)
    BY DEF Now, StateIn
  <2>. QED
    BY <1>1, <1>4, <2>5, <2>6
<1>5. ASSUME NEW c, Rooted(c) PROVE Then(c) = Now(c) \/ Then(c) = [Now(c) EXCEPT !.receipts = @ \cup {tx}]
  BY <1>3, <1>4, <1>5
<1>6. ASSUME NEW e \in Open \ {d}
      PROVE  IF d \in origin[e]
             THEN /\ \/ HandleStates'[e] = HandleStates[e]
                     \/ HandleStates'[e] = [HandleStates[e] EXCEPT !.receipts = @ \cup {tx}]
                  /\ DOMAIN SavedStates'[e] = DOMAIN SavedStates[e]
                  /\ \A i \in DOMAIN SavedStates[e] :
                        \/ SavedStates'[e][i] = SavedStates[e][i]
                        \/ SavedStates'[e][i] = [SavedStates[e][i] EXCEPT !.receipts = @ \cup {tx}]
             ELSE HandleStates'[e] = HandleStates[e] /\ SavedStates'[e] = SavedStates[e]
  <2>0. e \in Open /\ e \in Open' /\ e \in DBs /\ Rooted(chain[e])
    BY <1>0, PathsRooted DEF Open
  <2>1. /\ HandleStates[e] = Now(chain[e]) /\ HandleStates'[e] = Then(chain[e])
        /\ DOMAIN SavedStates'[e] = DOMAIN held[e] /\ DOMAIN SavedStates[e] = DOMAIN held[e]
        /\ \A i \in DOMAIN held[e] : /\ SavedStates[e][i] = Now(Pre(chain[e], held[e][i]))
                                     /\ SavedStates'[e][i] = Then(Pre(chain[e], held[e][i]))
                                     /\ Rooted(Pre(chain[e], held[e][i]))
    BY <1>0, <2>0, HandleMaps, SavedPath
  <2>2. CASE d \in origin[e]
    <3>1. \/ HandleStates'[e] = HandleStates[e]
          \/ HandleStates'[e] = [HandleStates[e] EXCEPT !.receipts = @ \cup {tx}]
      BY <1>5, <2>0, <2>1
    <3>2. ASSUME NEW i \in DOMAIN SavedStates[e]
          PROVE  \/ SavedStates'[e][i] = SavedStates[e][i]
                 \/ SavedStates'[e][i] = [SavedStates[e][i] EXCEPT !.receipts = @ \cup {tx}]
      <4>1. PICK b : b = Pre(chain[e], held[e][i])
        OBVIOUS
      <4>2. SavedStates[e][i] = Now(b) /\ SavedStates'[e][i] = Then(b) /\ Rooted(b)
        BY <2>1, <4>1
      <4>. QED
        BY <1>5, <4>2
    <3>3. DOMAIN SavedStates'[e] = DOMAIN SavedStates[e]
      BY <2>1
    <3>. QED
      BY <2>2, <3>1, <3>2, <3>3
  <2>3. CASE d \notin origin[e]
    <3>1. /\ e # d /\ d \notin origin[e] => HandleStates'[e] = HandleStates[e]
          /\ e = d \/ d \notin origin[e] => SavedStates'[e] = SavedStates[e]
      BY <1>0, <1>3, <2>0, OffSame
    <3>. QED
      BY <2>3, <3>1
  <2>. QED
    BY <2>2, <2>3
<1>7. SavedStates'[d] = SavedStates[d]
  BY <1>0, <1>3, OffSame
<1>8. HandleStates'[d] = [HandleStates[d] EXCEPT !.receipts = @ \cup {tx}]
  <2>1. Rooted(chain[d]) /\ On(chain[d], Top(d))
    BY <1>0, PathsRooted, TopOwn DEF On
  <2>. QED
    BY <1>0, <1>4, <2>1, HandleMaps
<1>9. Contract!Frame /\ DOMAIN HandleStates = Open
  BY <1>0, NoteFrame, HandleMaps
<1>. QED
  BY <1>0, <1>6, <1>7, <1>8, <1>9 DEF Contract!AddReceipt, Contract!Seeps

\* One transaction's logs change.
LEMMA LogsExcept ==
    ASSUME UNCHANGED <<bn, pad, receipts, txHash>>, NEW c, NEW tx \in TxHashes,
           \A x \in TxHashes \ {tx} : LogsIn(txLogs', c, x) = LogsIn(txLogs, c, x)
    PROVE  /\ Now(c).logs[tx] = LogsIn(txLogs, c, tx)
           /\ Then(c) = [Now(c) EXCEPT !.logs[tx] = LogsIn(txLogs', c, tx)]
<1>1. PICK g, h, y : /\ g = [x \in TxHashes |-> LogsIn(txLogs, c, x)]
                     /\ h = [x \in TxHashes |-> LogsIn(txLogs', c, x)]
                     /\ y = LogsIn(txLogs', c, tx)
  OBVIOUS
<1>2. h = [g EXCEPT ![tx] = y] /\ g[tx] = LogsIn(txLogs, c, tx)
  BY <1>1
<1>3. PICK v, r, t : Now(c) = [view |-> v, logs |-> g, receipts |-> r, tx |-> t]
                      /\ Then(c) = [view |-> v, logs |-> h, receipts |-> r, tx |-> t]
  BY <1>1 DEF Then, Now, StateIn
<1>4. Now(c).logs = g /\ [Now(c) EXCEPT !.logs = h] = Then(c)
  BY <1>3
<1>5. [Now(c) EXCEPT !.logs[tx] = y] = [Now(c) EXCEPT !.logs = [g EXCEPT ![tx] = y]]
  BY <1>4
<1>. QED
  BY <1>1, <1>2, <1>4, <1>5

\* Named for use as a fact.
Appended(s, t, x) == t = Append(s, x)

\* The last list gets longer.
LEMMA FlatAppend ==
    ASSUME NEW X, NEW f, NEW g, NEW n \in Nat, NEW a \in 1 .. n, a >= n, NEW x \in X,
           \A i \in 1 .. n : f[i] \in Seq(X),
           \A i \in 1 .. n : g[i] = IF i = a THEN Append(f[i], x) ELSE f[i]
    PROVE  Appended(Flat(f, n), Flat(g, n), x)
<1>1. PICK m \in Nat : n = m + 1 /\ a = n
  <2>1. a = n /\ n - 1 \in Nat /\ n = (n - 1) + 1
    OBVIOUS
  <2>. QED
    BY <2>1
<1>2. \A i \in 1 .. m : i \in 1 .. n /\ i # n
  BY <1>1
<1>3. m + 1 \in 1 .. n
  BY <1>1
<1>4. PICK r \in Seq(X) : r = Flat(f, m)
  BY <1>2, FlatType
<1>5. Flat(g, m) = r
  <2>1. \A i \in 1 .. m : g[i] = f[i]
    BY <1>2
  <2>. QED
    BY <1>4, <2>1, FlatSame
<1>6. PICK y \in Seq(X) : y = f[m + 1]
  BY <1>3
<1>7. /\ g[m + 1] = Append(y, x) /\ Append(y, x) \in Seq(X) /\ Append(y, x) = y \o <<x>> /\ <<x>> \in Seq(X)
  <2>1. g[m + 1] = Append(y, x)
    BY <1>1, <1>3, <1>6
  <2>2. Append(y, x) = y \o <<x>>
    BY AppendIsConcat
  <2>. QED
    BY <2>1, <2>2
<1>8. Flat(f, m + 1) = r \o y
  BY <1>4, <1>6, FlatNext
<1>9. Flat(g, m + 1) = r \o (y \o <<x>>)
  BY <1>5, <1>7, FlatNext
<1>10. r \o (y \o <<x>>) = (r \o y) \o <<x>>
  BY <1>7, ConcatAssociative
<1>11. r \o y \in Seq(X)
  BY ConcatProperties
<1>12. Append(r \o y, x) = (r \o y) \o <<x>>
  BY <1>11, AppendIsConcat
<1>. QED
  BY <1>1, <1>8, <1>9, <1>10, <1>12 DEF Appended

\* AddLog appends for the handle, and for its clones puts the log in where
\* the layer lies.
LEMMA AddLogIs ==
    ASSUME LayersInv, NEW d \in DBs, NEW log \in LogIds, AddLog(d, log)
    PROVE  d \in Open /\ Contract!AddLog(d, log)
<1>. DEFINE top == Top(d)
            tx == txHash[top]
            Logged(s, t) == \/ t = s
                            \/ \E i \in 1 .. Len(s.logs[tx]) + 1 :
                                  t = [s EXCEPT !.logs[tx] = InsertAt(@, i, log)]
<1>0. /\ d \in Open /\ TypeOK /\ top \in Layers \ {Root} /\ HandlesInv /\ tx \in TxHashes
      /\ txLogs \in [Layers -> [TxHashes -> Seq(LogIds)]]
      /\ txLogs' = [txLogs EXCEPT ![top][tx] = Append(@, log)]
      /\ UNCHANGED <<bn, pad, receipts, txHash, chain, held, origin>> /\ Open' = Open
  BY TopOwn DEF AddLog, LayersInv, OwnInv, TypeOK, Open
<1>00. Top(d) = top
  OBVIOUS
<1>. HIDE DEF top
<1>1. /\ \A l \in Layers : \A x \in TxHashes \ {tx} : txLogs'[l][x] = txLogs[l][x]
      /\ \A l \in Layers : txLogs'[l][tx] = IF l = top THEN Append(txLogs[l][tx], log) ELSE txLogs[l][tx]
  BY <1>0
<1>. HIDE DEF tx, Logged
<1>2. ASSUME NEW c, Rooted(c) PROVE \A x \in TxHashes \ {tx} : LogsIn(txLogs', c, x) = LogsIn(txLogs, c, x)
  <2>1. c \in Seq(Layers) /\ Len(c) \in Nat
    BY <1>2, RootedLen
  <2>2. ASSUME NEW x \in TxHashes \ {tx}
        PROVE  [i \in 1 .. Len(c) |-> txLogs'[c[i]][x]] = [i \in 1 .. Len(c) |-> txLogs[c[i]][x]]
    BY <1>1, <2>1
  <2>. QED
    BY <2>2 DEF LogsIn
<1>3. ASSUME NEW c, Rooted(c), ~On(c, top) PROVE Then(c) = Now(c)
  <2>1. c \in Seq(Layers) /\ Len(c) \in Nat
    BY <1>3, RootedLen
  <2>2. [i \in 1 .. Len(c) |-> txLogs'[c[i]][tx]] = [i \in 1 .. Len(c) |-> txLogs[c[i]][tx]]
    <3>1. \A i \in 1 .. Len(c) : c[i] \in Layers /\ c[i] # top
      BY <1>3, <2>1 DEF On
    <3>. QED
      BY <1>1, <3>1
  <2>3. LogsIn(txLogs', c, tx) = LogsIn(txLogs, c, tx)
    BY <2>2 DEF LogsIn
  <2>4. \A x \in TxHashes : LogsIn(txLogs', c, x) = LogsIn(txLogs, c, x)
    BY <1>2, <1>3, <2>3
  <2>5. [x \in TxHashes |-> LogsIn(txLogs', c, x)] = [x \in TxHashes |-> LogsIn(txLogs, c, x)]
    BY <2>4
  <2>. QED
    BY <1>0, <2>5 DEF Then, Now, StateIn
<1>4. ASSUME NEW c, Rooted(c), Distinct(c), NEW a \in 1 .. Len(c), c[a] = top
      PROVE  /\ Inserted(LogsIn(txLogs, c, tx), LogsIn(txLogs', c, tx), log, LogIds)
             /\ a = Len(c) => LogsIn(txLogs', c, tx) = Append(LogsIn(txLogs, c, tx), log)
  <2>1. PICK n \in Nat : n = Len(c) /\ c \in Seq(Layers) /\ n > 0 /\ a \in 1 .. n
    BY <1>4, RootedLen
  <2>2. PICK f, g : f = [i \in 1 .. n |-> txLogs[c[i]][tx]] /\ g = [i \in 1 .. n |-> txLogs'[c[i]][tx]]
    OBVIOUS
  <2>3. \A i \in 1 .. n : c[i] \in Layers /\ (c[i] = top <=> i = a)
    BY <1>4, <2>1 DEF Distinct
  <2>4. \A i \in 1 .. n : f[i] \in Seq(LogIds)
    BY <1>0, <2>2, <2>3
  <2>5. \A i \in 1 .. n : g[i] = IF i = a THEN Append(f[i], log) ELSE f[i]
    BY <1>1, <2>2, <2>3
  <2>6. LogsIn(txLogs, c, tx) = Flat(f, n) /\ LogsIn(txLogs', c, tx) = Flat(g, n)
    <3>1. (\A i \in 1 .. Len(c) : f[i] = txLogs[c[i]][tx]) /\ (\A i \in 1 .. Len(c) : g[i] = txLogs'[c[i]][tx])
      BY <2>1, <2>2
    <3>. QED
      BY <2>1, <3>1, LogsFlat
  <2>7. Inserted(Flat(f, n), Flat(g, n), log, LogIds)
    BY ONLY n \in Nat, log \in LogIds, <2>1, <2>4, <2>5, FlatInsert, Zenon
  <2>8. ASSUME a = n PROVE Flat(g, n) = Append(Flat(f, n), log)
    <3>1. a >= n
      BY <2>1, <2>8
    <3>2. Appended(Flat(f, n), Flat(g, n), log)
      BY ONLY n \in Nat, log \in LogIds, <2>1, <2>4, <2>5, <3>1, FlatAppend, Zenon
    <3>. QED
      BY <3>2 DEF Appended
  <2>. QED
    BY <2>1, <2>6, <2>7, <2>8
<1>5. ASSUME NEW c, Rooted(c), Distinct(c) PROVE Logged(Now(c), Then(c))
  <2>1. CASE ~On(c, top)
    BY <1>3, <1>5, <2>1 DEF Logged
  <2>2. CASE On(c, top)
    <3>1. PICK a \in 1 .. Len(c) : c[a] = top
      BY <2>2 DEF On
    <3>2. PICK s, t : s = LogsIn(txLogs, c, tx) /\ t = LogsIn(txLogs', c, tx)
      OBVIOUS
    <3>3. Inserted(s, t, log, LogIds)
      BY <1>4, <1>5, <3>1, <3>2
    <3>4. PICK i \in 1 .. Len(s) + 1 : t = InsertAt(s, i, log)
      BY <3>3, InsertedAt
    <3>5. Now(c).logs[tx] = s /\ Then(c) = [Now(c) EXCEPT !.logs[tx] = t]
      <4>1. UNCHANGED <<bn, pad, receipts, txHash>> /\ \A x \in TxHashes \ {tx} : LogsIn(txLogs', c, x) = LogsIn(txLogs, c, x)
        BY <1>0, <1>2, <1>5
      <4>. QED
        BY <1>0, <3>2, <4>1, LogsExcept
    <3>6. Then(c) = [Now(c) EXCEPT !.logs[tx] = InsertAt(@, i, log)]
      BY <3>4, <3>5
    <3>. QED
      BY <3>4, <3>5, <3>6 DEF Logged
  <2>. QED
    BY <2>1, <2>2
<1>6. ASSUME NEW e \in Open \ {d}
      PROVE  IF d \in origin[e]
             THEN /\ Logged(HandleStates[e], HandleStates'[e])
                  /\ DOMAIN SavedStates'[e] = DOMAIN SavedStates[e]
                  /\ \A i \in DOMAIN SavedStates[e] : Logged(SavedStates[e][i], SavedStates'[e][i])
             ELSE HandleStates'[e] = HandleStates[e] /\ SavedStates'[e] = SavedStates[e]
  <2>0. e \in Open /\ e \in Open' /\ e \in DBs /\ Rooted(chain[e])
    BY <1>0, PathsRooted DEF Open
  <2>00. Distinct(chain[e])
    BY <2>0 DEF Distinct, LayersInv, Apart
  <2>1. /\ HandleStates[e] = Now(chain[e]) /\ HandleStates'[e] = Then(chain[e])
        /\ DOMAIN SavedStates'[e] = DOMAIN held[e] /\ DOMAIN SavedStates[e] = DOMAIN held[e]
        /\ \A i \in DOMAIN held[e] : /\ SavedStates[e][i] = Now(Pre(chain[e], held[e][i]))
                                     /\ SavedStates'[e][i] = Then(Pre(chain[e], held[e][i]))
                                     /\ Rooted(Pre(chain[e], held[e][i])) /\ Distinct(Pre(chain[e], held[e][i]))
    BY <1>0, <2>0, HandleMaps, SavedPath
  <2>2. CASE d \in origin[e]
    BY <1>5, <2>0, <2>00, <2>1, <2>2
  <2>3. CASE d \notin origin[e]
    <3>1. /\ e # d /\ d \notin origin[e] => HandleStates'[e] = HandleStates[e]
          /\ e = d \/ d \notin origin[e] => SavedStates'[e] = SavedStates[e]
      BY <1>0, <1>00, <1>3, <2>0, OffSame
    <3>. QED
      BY <2>3, <3>1
  <2>. QED
    BY <2>2, <2>3
<1>7. SavedStates'[d] = SavedStates[d]
  BY <1>0, <1>00, <1>3, OffSame
<1>8. HandleStates'[d] = [HandleStates[d] EXCEPT !.logs[tx] = Append(@, log)] /\ HandleStates[d].tx = tx
  <2>1. PICK c : c = chain[d]
    OBVIOUS
  <2>2. Rooted(c) /\ Distinct(c) /\ Len(c) \in 1 .. Len(c) /\ c[Len(c)] = top
    BY <1>0, <1>00, <2>1, PathsRooted, TopOwn DEF Distinct, LayersInv, Apart
  <2>3. LogsIn(txLogs', c, tx) = Append(LogsIn(txLogs, c, tx), log)
    BY <1>4, <2>2
  <2>4. Now(c).logs[tx] = LogsIn(txLogs, c, tx) /\ Then(c) = [Now(c) EXCEPT !.logs[tx] = LogsIn(txLogs', c, tx)]
    <3>1. UNCHANGED <<bn, pad, receipts, txHash>> /\ \A x \in TxHashes \ {tx} : LogsIn(txLogs', c, x) = LogsIn(txLogs, c, x)
      BY <1>0, <1>2, <2>2
    <3>. QED
      BY <1>0, <3>1, LogsExcept
  <2>5. Then(c) = [Now(c) EXCEPT !.logs[tx] = Append(@, log)]
    BY <2>3, <2>4
  <2>6. Now(c).tx = tx
    BY <1>00, <2>1 DEF Now, StateIn, tx, Top
  <2>. QED
    BY <1>0, <2>1, <2>5, <2>6, HandleMaps
<1>9. Contract!Frame /\ DOMAIN HandleStates = Open
  BY <1>0, NoteFrame, HandleMaps
<1>10. \A s, i, x : Contract!InsertAt(s, i, x) = InsertAt(s, i, x)
  BY DEF InsertAt, Contract!InsertAt
<1>11. \A s, t : Logged(s, t) <=> \/ t = s
                                   \/ \E i \in 1 .. Len(s.logs[tx]) + 1 :
                                        t = [s EXCEPT !.logs[tx] = Contract!InsertAt(@, i, log)]
  BY <1>10 DEF Logged
<1>12. HandleStates'[d] = [HandleStates[d] EXCEPT !.logs[HandleStates[d].tx] = Append(@, log)]
  BY <1>8
<1>13. \A s, t : Logged(s, t) <=> \/ t = s
                                   \/ \E i \in 1 .. Len(s.logs[HandleStates[d].tx]) + 1 :
                                        t = [s EXCEPT !.logs[HandleStates[d].tx] = Contract!InsertAt(@, i, log)]
  <2>1. HandleStates[d].tx = tx
    BY <1>8
  <2>. QED
    BY <1>11, <2>1, Zenon
<1>. QED
  BY <1>0, <1>6, <1>7, <1>9, <1>12, <1>13, Zenon DEF Contract!AddLog, Contract!Seeps

-----------------------------------------------------------------------------
(* Merging. *)

\* Layers without the key can be left out on top.
LEMMA CutGet ==
    ASSUME NEW p, NEW up, NEW c, Rooted(c), NEW m \in 1 .. Len(c), NEW k \in Keys,
           \A j \in m + 1 .. Len(c) : p[c[j]][k] = Absent
    PROVE  GetIn(p, up, Pre(c, m), k) = GetIn(p, up, c, k)
<1>0. c \in Seq(Layers) /\ Len(c) \in Nat
  BY RootedLen
<1>1. PICK b : b = Pre(c, m)
  OBVIOUS
<1>2. /\ Rooted(b) /\ Len(b) = m /\ \A i \in 1 .. m : b[i] = c[i] /\ i \in 1 .. Len(c)
      /\ \A i \in 2 .. m : b[i] = c[i] /\ i \in 2 .. Len(c)
  BY <1>1, PreIs
<1>3. \A j \in 2 .. Len(c) : j \in 2 .. m \/ j \in m + 1 .. Len(c)
  BY <1>0
<1>4. PICK f, v, x : /\ f = ForkIn(p, up)[k] /\ v = GetIn(p, up, c, k) /\ x = GetIn(p, up, b, k)
                     /\ Shows(p, f, c, k, v) /\ Shows(p, f, b, k, x)
  BY <1>2, GetShows
<1>5. CASE (\A i \in 2 .. Len(b) : p[b[i]][k] = Absent) /\ x = f
  <2>1. \A i \in 2 .. Len(c) : p[c[i]][k] = Absent
    BY <1>2, <1>3, <1>5
  <2>2. v = f
    BY <1>4, <2>1 DEF Shows, Stops
  <2>. QED
    BY <1>1, <1>4, <1>5, <2>2
<1>6. CASE \E i \in 2 .. Len(b) : Stops(p, b, k, i) /\ x = p[b[i]][k]
  <2>1. PICK i \in 2 .. m : Stops(p, b, k, i) /\ x = p[b[i]][k]
    BY <1>2, <1>6
  <2>2. ASSUME NEW j \in i + 1 .. Len(c) PROVE p[c[j]][k] = Absent
    <3>1. j \in m + 1 .. Len(c) \/ (j \in i + 1 .. m /\ j \in 1 .. m)
      BY <1>0
    <3>. QED
      BY <1>2, <2>1, <3>1 DEF Stops
  <2>3. i \in 1 .. Len(c) /\ i \in 1 .. m
    BY <1>0
  <2>4. Stops(p, c, k, i) /\ p[c[i]][k] = p[b[i]][k]
    BY <1>2, <2>1, <2>2, <2>3 DEF Stops
  <2>5. v = p[c[i]][k]
    BY <1>0, <1>4, <2>3, <2>4, StopIs
  <2>. QED
    BY <1>1, <1>4, <2>1, <2>4, <2>5
<1>. QED
  BY <1>4, <1>5, <1>6 DEF Shows

\* What a pour leaves in the layers above the revision: what the handle sees,
\* or nothing where nothing is above.
LEMMA PourIs ==
    ASSUME NEW c, Rooted(c), Distinct(c), NEW n \in 1 .. Len(c) - 1
    PROVE  /\ \A l \in Layers : (\A m \in n + 1 .. Len(c) : c[m] # l) => Pour(c, n)[l] = pad[l]
           /\ \A m \in n + 1 .. Len(c), k \in Keys :
                \/ /\ Pour(c, n)[c[m]][k] = GetIn(pad, UpstreamAt[bn], c, k)
                   /\ Pour(c, n)[c[m]][k] # Absent
                \/ /\ Pour(c, n)[c[m]][k] = Absent
                   /\ \A j \in m .. Len(c) : pad[c[j]][k] = Absent
<1>0. c \in Seq(Layers) /\ Len(c) \in Nat
  BY RootedLen
<1>1. ASSUME NEW l \in Layers, \A m \in n + 1 .. Len(c) : c[m] # l PROVE Pour(c, n)[l] = pad[l]
  BY <1>1 DEF Pour
<1>2. ASSUME NEW m \in n + 1 .. Len(c), NEW k \in Keys
      PROVE  \/ /\ Pour(c, n)[c[m]][k] = GetIn(pad, UpstreamAt[bn], c, k)
                /\ Pour(c, n)[c[m]][k] # Absent
             \/ /\ Pour(c, n)[c[m]][k] = Absent
                /\ \A j \in m .. Len(c) : pad[c[j]][k] = Absent
  <2>0. m \in 1 .. Len(c) /\ c[m] \in Layers /\ m \in Nat
    BY <1>0
  <2>1. (CHOOSE x \in 1 .. Len(c) : c[x] = c[m]) = m
    BY <2>0 DEF Distinct
  <2>2. Pour(c, n)[c[m]][k] =
          IF \E i \in m .. Len(c) : StopsAt(c, k, i)
          THEN pad[c[CHOOSE i \in m .. Len(c) : StopsAt(c, k, i)]][k]
          ELSE Absent
    <3>1. \E x \in n + 1 .. Len(c) : c[x] = c[m]
      OBVIOUS
    <3>. QED
      BY <2>0, <2>1, <3>1, Zenon DEF Pour
  <2>3. \A i : StopsAt(c, k, i) <=> Stops(pad, c, k, i)
    BY DEF StopsAt, Stops
  <2>4. CASE \E i \in m .. Len(c) : StopsAt(c, k, i)
    <3>1. PICK j : j = CHOOSE i \in m .. Len(c) : StopsAt(c, k, i)
      OBVIOUS
    <3>2. j \in m .. Len(c) /\ StopsAt(c, k, j)
      BY <2>4, <3>1
    <3>3. j \in 1 .. Len(c) /\ Stops(pad, c, k, j)
      BY <1>0, <2>0, <2>3, <3>2
    <3>4. GetIn(pad, UpstreamAt[bn], c, k) = pad[c[j]][k] /\ pad[c[j]][k] # Absent
      <4>1. GetIn(pad, UpstreamAt[bn], c, k) = pad[c[j]][k]
        BY <1>0, <3>3, StopIs
      <4>. QED
        BY <3>3, <4>1 DEF Stops
    <3>. QED
      BY <2>2, <2>4, <3>1, <3>4
  <2>5. CASE ~\E i \in m .. Len(c) : StopsAt(c, k, i)
    <3>1. ASSUME NEW j \in m .. Len(c), pad[c[j]][k] # Absent PROVE FALSE
      BY <1>0, <2>0, <2>3, <2>5, <3>1, TopStop
    <3>. QED
      BY <2>2, <2>5, <3>1
  <2>. QED
    BY <2>4, <2>5
<1>. QED
  BY <1>1, <1>2

\* MergeTo keeps what the handle sees, and gives clones nothing else.
LEMMA MergeIs ==
    ASSUME LayersInv, LayersInv', NEW d \in DBs, NEW i \in DOMAIN held[d], MergeTo(d, i)
    PROVE  d \in Open /\ i \in DOMAIN SavedStates[d] /\ Contract!Merge(d, i)
<1>. DEFINE w == HandleStates[d].view
<1>0. /\ HandlesInv /\ HandlesInv' /\ TypeOK /\ chain \in [DBs -> Seq(Layers)] /\ held \in [DBs -> Seq(Nat)]
      /\ chain' \in [DBs -> Seq(Layers)] /\ floor \in [DBs -> Nat] /\ OwnershipOK /\ Apart(chain, floor)
      /\ UNCHANGED <<bn, origin>> /\ i \in DOMAIN held[d]
  BY DEF MergeTo, LayersInv, OwnInv, HandlesInv
<1>1. PICK c, n : c = chain[d] /\ n = held[d][i]
  OBVIOUS
<1>2. /\ d \in Open /\ i \in 1 .. Len(held[d]) /\ n \in 1 .. Len(c) - 1 /\ n \in 1 .. Len(c) /\ floor[d] < n
      /\ \A j \in 1 .. i : held[d][j] \in 1 .. n
  BY <1>0, <1>1, IdsWithin
<1>3. Rooted(c) /\ c \in Seq(Layers) /\ Len(c) \in Nat /\ n \in Nat /\ floor[d] \in Nat /\ Distinct(c)
  BY <1>0, <1>1, <1>2, PathsRooted DEF Apart, Distinct
<1>4. n + 1 \in 1 .. Len(c) /\ n + 1 \in 0 .. Len(c) /\ n + 1 \in n + 1 .. Len(c)
  BY <1>2, <1>3
<1>5. PICK p : p = Pour(c, n)
  OBVIOUS
<1>6. /\ chain' = [chain EXCEPT ![d] = Pre(c, n + 1)] /\ held' = [held EXCEPT ![d] = SubSeq(held[d], 1, i)]
      /\ Keep(p, chain')
  BY <1>1, <1>5 DEF MergeTo, Pre
<1>7. /\ chain'[d] = Pre(c, n + 1) /\ held'[d] = SubSeq(held[d], 1, i)
      /\ \A e \in DBs \ {d} : chain'[e] = chain[e] /\ held'[e] = held[e]
  BY <1>0, <1>6
<1>8. /\ pad'[Root] = p[Root]
      /\ \A e \in DBs : \A j \in 1 .. Len(chain'[e]) :
           LET l == chain'[e][j] IN
           /\ pad'[l] = p[l] /\ txLogs'[l] = txLogs[l] /\ receipts'[l] = receipts[l] /\ txHash'[l] = txHash[l]
  <2>1. TypeOK /\ chain' \in [DBs -> Seq(Layers)] /\ Keep(p, chain')
    BY <1>0, <1>6
  <2>. QED
    BY ONLY <2>1, KeepIs
<1>9. ForkState' = ForkState
  <2>1. p[Root] = pad[Root]
    BY <1>0, <1>1, <1>2, <1>5, PourRoot
  <2>. QED
    BY <1>0, <1>8, <2>1, CacheFork
<1>10. /\ \A l \in Layers : (\A m \in n + 1 .. Len(c) : c[m] # l) => p[l] = pad[l]
       /\ \A m \in n + 1 .. Len(c), k \in Keys :
            \/ p[c[m]][k] = w[k] /\ w[k] # Absent
            \/ p[c[m]][k] = Absent /\ \A j \in m .. Len(c) : pad[c[j]][k] = Absent
  <2>1. \A k \in Keys : w[k] = GetIn(pad, UpstreamAt[bn], c, k)
    BY <1>1, <1>2, HandleMaps DEF Now, StateIn, ViewIn
  <2>. HIDE DEF w
  <2>2. \A l \in Layers : (\A m \in n + 1 .. Len(c) : c[m] # l) => p[l] = pad[l]
    BY <1>2, <1>3, <1>5, PourIs
  <2>3. ASSUME NEW m \in n + 1 .. Len(c), NEW k \in Keys
        PROVE  \/ p[c[m]][k] = w[k] /\ w[k] # Absent
               \/ p[c[m]][k] = Absent /\ \A j \in m .. Len(c) : pad[c[j]][k] = Absent
    BY <1>2, <1>3, <1>5, <2>1, PourIs
  <2>. QED
    BY <2>2, <2>3
<1>. HIDE DEF w
<1>11. ASSUME NEW l \in Layers, NEW k \in Keys PROVE p[l][k] = pad[l][k] \/ (p[l][k] = w[k] /\ w[k] # Absent)
  <2>1. CASE \A m \in n + 1 .. Len(c) : c[m] # l
    BY <1>10, <2>1
  <2>2. CASE \E m \in n + 1 .. Len(c) : c[m] = l
    <3>1. PICK m \in n + 1 .. Len(c) : c[m] = l
      BY <2>2
    <3>2. m \in m .. Len(c)
      BY <1>3
    <3>. QED
      BY <1>10, <3>1, <3>2
  <2>. QED
    BY <2>1, <2>2
<1>12. ASSUME NEW e \in DBs PROVE Kept(chain'[e]) /\ Mixing(chain'[e], w, Keys)
  <2>1. chain'[e] \in Seq(Layers) /\ Len(chain'[e]) \in Nat
    BY <1>0
  <2>2. Kept(chain'[e])
    BY <1>8 DEF Kept
  <2>3. ASSUME NEW k \in Keys, NEW j \in 2 .. Len(chain'[e])
        PROVE  \/ pad'[chain'[e][j]][k] = pad[chain'[e][j]][k]
               \/ k \in Keys /\ pad'[chain'[e][j]][k] = w[k] /\ w[k] # Absent
    <3>1. j \in 1 .. Len(chain'[e]) /\ chain'[e][j] \in Layers
      BY <2>1
    <3>2. pad'[chain'[e][j]] = p[chain'[e][j]]
      BY <1>8, <3>1
    <3>. QED
      BY <1>11, <3>1, <3>2
  <2>. QED
    BY <1>9, <2>2, <2>3 DEF Mixing
<1>13. Rooted(Pre(c, n + 1)) /\ Len(Pre(c, n + 1)) = n + 1 /\ \A j \in 1 .. n + 1 : Pre(c, n + 1)[j] = c[j]
  BY <1>3, <1>4, PreIs
<1>14. Open' = Open
  <2>1. chain'[d] # <<>>
    BY <1>7, <1>13 DEF Rooted
  <2>. QED
    BY <1>2, <1>7, <2>1 DEF Open
<1>15. Contract!Frame
  <2>1. ASSUME NEW e \in DBs \ Open PROVE SavedStates'[e] = SavedStates[e]
    <3>1. held'[e] = held[e]
      BY <1>2, <1>7
    <3>. QED
      BY <1>0, <3>1, ClosedHandle
  <2>. QED
    BY <1>0, <1>9, <1>14, <2>1, HandleMaps DEF Contract!Frame
<1>16. ASSUME NEW e \in Open \ {d}
       PROVE  IF d \in origin[e]
              THEN /\ Mixed(HandleStates[e], HandleStates'[e], w, Keys)
                   /\ DOMAIN SavedStates'[e] = DOMAIN SavedStates[e]
                   /\ \A j \in DOMAIN SavedStates[e] : Mixed(SavedStates[e][j], SavedStates'[e][j], w, Keys)
              ELSE HandleStates'[e] = HandleStates[e] /\ SavedStates'[e] = SavedStates[e]
  <2>0. e \in Open /\ e \in DBs /\ chain'[e] = chain[e] /\ held'[e] = held[e] /\ Rooted(chain[e])
    BY <1>0, <1>7, PathsRooted DEF Open
  <2>1. Kept(chain[e]) /\ Mixing(chain[e], w, Keys)
    <3>1. Kept(chain'[e]) /\ Mixing(chain'[e], w, Keys)
      BY <1>12, <2>0
    <3>. QED
      BY <2>0, <3>1
  <2>2. CASE d \in origin[e]
    BY <1>0, <2>0, <2>1, <2>2, MixHandle
  <2>3. CASE d \notin origin[e]
    <3>0. chain[e] \in Seq(Layers) /\ Len(chain[e]) \in Nat
      BY <1>0, <2>0
    <3>1. ASSUME NEW j \in 2 .. Len(chain[e]) PROVE pad'[chain[e][j]] = pad[chain[e][j]]
      <4>1. j \in 1 .. Len(chain[e]) /\ chain[e][j] \in Layers
        BY <3>0
      <4>2. \A m \in n + 1 .. Len(c) : m \in floor[d] + 1 .. Len(c)
        BY <1>2, <1>3
      <4>3. \A m \in n + 1 .. Len(c) : c[m] # chain[e][j]
        BY <1>0, <1>1, <1>2, <2>0, <2>3, <4>1, <4>2 DEF OwnershipOK
      <4>4. p[chain[e][j]] = pad[chain[e][j]]
        BY <1>10, <4>1, <4>3
      <4>5. j \in 1 .. Len(chain'[e]) /\ chain'[e][j] = chain[e][j]
        BY <2>0, <4>1
      <4>. QED
        BY <1>8, <2>0, <4>4, <4>5
    <3>2. Mixing(chain[e], <<>>, {})
      BY <1>9, <3>1 DEF Mixing
    <3>. QED
      BY <1>0, <2>0, <2>1, <2>3, <3>2, SameHandle
  <2>. QED
    BY <2>2, <2>3
<1>17. SavedStates'[d] = SubSeq(SavedStates[d], 1, i)
  <2>1. PICK h \in Seq(Nat) : h = held[d]
    BY <1>0
  <2>2. PICK m \in 0 .. Len(h) : m = i /\ m \in Nat
    BY <1>2, <2>1
  <2>3. PICK T : SavedStates[d] \in Seq(T) /\ Len(SavedStates[d]) = Len(h)
    BY <2>1, SavedSeq
  <2>4. DOMAIN held'[d] = 1 .. m /\ \A j \in 1 .. m : held'[d][j] = h[j] /\ j \in DOMAIN h
    <3>1. PICK g : g = SubSeq(h, 1, m)
      OBVIOUS
    <3>2. g \in Seq(Nat) /\ Len(g) = m /\ \A j \in 1 .. m : g[j] = h[j]
      BY <2>2, <3>1, Prefix
    <3>. QED
      BY <1>7, <2>1, <2>2, <3>1, <3>2
  <2>5. ASSUME NEW j \in 1 .. m PROVE SavedStates'[d][j] = SavedStates[d][j]
    <3>1. PICK q : q = h[j]
      OBVIOUS
    <3>2. q \in 1 .. n /\ q \in 0 .. n + 1 /\ q \in 1 .. n + 1 /\ j \in DOMAIN held[d] /\ j \in DOMAIN held'[d]
      BY <1>2, <1>3, <2>1, <2>2, <2>4, <3>1
    <3>3. PICK b, a : b = Pre(c, n + 1) /\ a = Pre(b, q)
      OBVIOUS
    <3>4. a = Pre(c, q)
      BY <1>3, <1>4, <3>2, <3>3, PrePre
    <3>5. SavedStates'[d][j] = Then(a) /\ SavedStates[d][j] = Now(a)
      <4>1. held[d][j] = q /\ held'[d][j] = q
        BY <2>1, <2>4, <3>1
      <4>2. SavedStates[d][j] = Now(Pre(c, q))
        BY <1>1, <3>2, <4>1, HandleMaps
      <4>3. SavedStates'[d][j] = Then(Pre(chain'[d], held'[d][j]))
        BY <3>2, HandleMaps
      <4>4. SavedStates'[d][j] = Then(a)
        BY <1>7, <3>3, <4>1, <4>3
      <4>. QED
        BY <3>4, <4>2, <4>4
    <3>6. Rooted(b) /\ Len(b) = n + 1 /\ Kept(b) /\ b = chain'[d]
      BY <1>7, <1>12, <1>13, <3>3
    <3>7. q \in 1 .. Len(b)
      BY <3>2, <3>6
    <3>8. Rooted(a) /\ Len(a) = q /\ Kept(a) /\ \A x \in 2 .. q : a[x] = b[x]
      BY <3>3, <3>6, <3>7, PreIs, PreKept
    <3>9. ASSUME NEW x \in 2 .. q PROVE pad'[a[x]] = pad[a[x]]
      <4>1. x \in 1 .. n + 1 /\ x \in 1 .. Len(c) /\ c[x] \in Layers /\ \A y \in n + 1 .. Len(c) : y \in 1 .. Len(c) /\ x # y
        <5>1. x \in 2 .. n /\ n \in Nat /\ Len(c) \in Nat /\ n <= Len(c)
          BY <1>2, <1>3, <3>2
        <5>2. x \in 1 .. n + 1 /\ x \in 1 .. Len(c)
          BY ONLY <5>1
        <5>3. \A y \in n + 1 .. Len(c) : y \in 1 .. Len(c) /\ x # y
          BY ONLY <5>1
        <5>. QED
          BY <1>3, <5>2, <5>3
      <4>2. a[x] = c[x] /\ a[x] = chain'[d][x] /\ x \in 1 .. Len(chain'[d])
        BY <1>13, <3>3, <3>6, <3>8, <4>1
      <4>3. \A y \in n + 1 .. Len(c) : c[y] # c[x]
        BY <1>3, <4>1 DEF Distinct
      <4>4. p[c[x]] = pad[c[x]]
        BY <1>10, <4>1, <4>3
      <4>5. pad'[chain'[d][x]] = p[chain'[d][x]]
        BY <1>8, <4>2
      <4>. QED
        BY <4>2, <4>4, <4>5
    <3>10. Mixing(a, <<>>, {})
      BY <1>9, <3>8, <3>9 DEF Mixing
    <3>. QED
      BY <3>5, <3>8, <3>10, SameThen
  <2>6. PICK s, t : s = SavedStates[d] /\ t = SavedStates'[d]
    OBVIOUS
  <2>7. s \in Seq(T) /\ m \in 0 .. Len(s) /\ Listed(t, m) /\ \A j \in 1 .. m : t[j] = s[j]
    BY <2>2, <2>3, <2>4, <2>5, <2>6, SavedSeq DEF Listed
  <2>8. t = SubSeq(s, 1, m)
    BY ONLY <2>7, SeqCut, Zenon
  <2>. QED
    BY <2>2, <2>6, <2>8
<1>18. PICK b : b = Pre(c, n + 1)
  OBVIOUS
<1>19. /\ Rooted(b) /\ Len(b) = n + 1 /\ Kept(b) /\ b = chain'[d] /\ \A j \in 1 .. n + 1 : b[j] = c[j]
       /\ HandleStates'[d] = Then(b) /\ HandleStates[d] = Now(c)
  BY <1>1, <1>2, <1>7, <1>12, <1>13, <1>14, <1>18, HandleMaps
<1>20. HandleStates'[d].view = HandleStates[d].view
  <2>1. ASSUME NEW k \in Keys PROVE GetIn(pad', UpstreamAt[bn'], b, k) = GetIn(pad, UpstreamAt[bn], c, k)
    <3>0. w[k] = GetIn(pad, UpstreamAt[bn], c, k)
      BY <1>19 DEF Now, StateIn, ViewIn, w
    <3>1. n + 1 \in 1 .. Len(b) /\ pad'[b[n + 1]] = p[b[n + 1]] /\ b[n + 1] = c[n + 1]
      <4>1. n + 1 \in 1 .. Len(b) /\ b[n + 1] = c[n + 1]
        BY <1>3, <1>19
      <4>. QED
        BY <1>8, <1>19, <4>1
    <3>2. CASE p[c[n + 1]][k] = w[k] /\ w[k] # Absent
      <4>1. pad'[b[Len(b)]][k] = w[k] /\ pad'[b[Len(b)]][k] # Absent
        BY <1>19, <3>1, <3>2
      <4>2. GetIn(pad', UpstreamAt[bn'], b, k) = pad'[b[Len(b)]][k]
        BY <1>19, <4>1, TopGet
      <4>. QED
        BY <3>0, <4>1, <4>2
    <3>3. CASE p[c[n + 1]][k] = Absent /\ \A j \in n + 1 .. Len(c) : pad[c[j]][k] = Absent
      <4>1. ASSUME NEW j \in 2 .. Len(b) PROVE pad'[b[j]][k] = pad[b[j]][k]
        <5>1. j \in 1 .. Len(b) /\ j \in 1 .. n + 1 /\ j \in 1 .. Len(c) /\ c[j] \in Layers
          BY <1>2, <1>3, <1>19
        <5>2. pad'[b[j]] = p[b[j]] /\ b[j] = c[j]
          BY <1>8, <1>19, <5>1
        <5>3. CASE j = n + 1
          BY <1>4, <3>3, <5>2, <5>3
        <5>4. CASE j # n + 1
          <6>1. \A y \in n + 1 .. Len(c) : y \in 1 .. Len(c) /\ j # y
            BY <1>2, <1>3, <5>1, <5>4
          <6>2. \A y \in n + 1 .. Len(c) : c[y] # c[j]
            BY <1>3, <5>1, <6>1 DEF Distinct
          <6>. QED
            BY <1>10, <5>1, <5>2, <6>2
        <5>. QED
          BY <5>3, <5>4
      <4>2. ForkIn(pad', UpstreamAt[bn'])[k] = ForkIn(pad, UpstreamAt[bn])[k]
        BY <1>9, ForkMap
      <4>3. GetIn(pad', UpstreamAt[bn'], b, k) = GetIn(pad, UpstreamAt[bn], b, k)
        BY <1>19, <4>1, <4>2, SameGet
      <4>4. \A j \in (n + 1) + 1 .. Len(c) : pad[c[j]][k] = Absent
        <5>1. \A j \in (n + 1) + 1 .. Len(c) : j \in n + 1 .. Len(c)
          BY <1>3
        <5>. QED
          BY <3>3, <5>1
      <4>5. GetIn(pad, UpstreamAt[bn], b, k) = GetIn(pad, UpstreamAt[bn], c, k)
        BY <1>3, <1>4, <1>18, <4>4, CutGet
      <4>. QED
        BY <4>3, <4>5
    <3>. QED
      BY <1>4, <1>10, <3>2, <3>3
  <2>2. Then(b).view = Now(c).view
    BY <2>1 DEF Then, Now, StateIn, ViewIn
  <2>. QED
    BY <1>19, <2>2
<1>21. ASSUME NEW tx \in TxHashes PROVE IsPrefix(HandleStates'[d].logs[tx], HandleStates[d].logs[tx])
  <2>1. PICK L \in Nat : L = Len(c) /\ n + 1 \in 0 .. L
    BY <1>3, <1>4
  <2>2. PICK f : f = [j \in 1 .. L |-> txLogs[c[j]][tx]]
    OBVIOUS
  <2>3. \A j \in 1 .. L : f[j] \in Seq(LogIds)
    BY <1>0, <1>3, <2>1, <2>2 DEF TypeOK
  <2>4. Now(c).logs[tx] = Flat(f, L)
    <3>1. \A j \in 1 .. Len(c) : f[j] = txLogs[c[j]][tx]
      BY <2>1, <2>2
    <3>2. LogsIn(txLogs, c, tx) = Flat(f, L)
      BY <2>1, <3>1, LogsFlat
    <3>. QED
      BY <3>2 DEF Now, StateIn
  <2>5. Then(b).logs[tx] = Flat(f, n + 1)
    <3>1. \A j \in 1 .. Len(b) : f[j] = txLogs[b[j]][tx]
      <4>1. \A j \in 1 .. Len(b) : j \in 1 .. L /\ j \in 1 .. n + 1
        BY <1>3, <1>19, <2>1
      <4>. QED
        BY <1>19, <2>2, <4>1
    <3>2. LogsIn(txLogs, b, tx) = Flat(f, n + 1)
      BY <1>19, <3>1, LogsFlat
    <3>3. Now(b).logs[tx] = LogsIn(txLogs, b, tx)
      BY DEF Now, StateIn
    <3>4. Then(b).logs = Now(b).logs
      BY <1>19, KeptState
    <3>. QED
      BY <3>2, <3>3, <3>4
  <2>6. PICK m : m = n + 1
    OBVIOUS
  <2>7. m \in 0 .. L /\ L \in Nat /\ \A j \in 1 .. L : f[j] \in Seq(LogIds)
    BY <2>1, <2>3, <2>6
  <2>8. IsPrefix(Flat(f, m), Flat(f, L))
    BY ONLY <2>7, FlatMore, Zenon
  <2>. QED
    BY <1>19, <2>4, <2>5, <2>6, <2>8
<1>22. HandleStates'[d].receipts \subseteq HandleStates[d].receipts
  <2>1. Then(b).receipts = Now(b).receipts
    BY <1>19, KeptState
  <2>2. \A j \in 2 .. Len(b) : j \in 2 .. Len(c) /\ b[j] = c[j]
    BY <1>2, <1>3, <1>19
  <2>3. Now(b).receipts = ReceiptsIn(receipts, b) /\ Now(c).receipts = ReceiptsIn(receipts, c)
    BY DEF Now, StateIn
  <2>4. ReceiptsIn(receipts, b) \subseteq ReceiptsIn(receipts, c)
    BY <2>2 DEF ReceiptsIn
  <2>. QED
    BY <1>19, <2>1, <2>3, <2>4
<1>23. \A s, t : Contract!IsPrefix(s, t) <=> IsPrefix(s, t)
  BY DEF IsPrefix, Contract!IsPrefix
<1>24. \A s, t : Mixed(s, t, w, Keys) => Contract!Mixes(s, t, HandleStates[d].view)
  BY DEF Mixed, w
<1>25. DOMAIN HandleStates = Open /\ i \in DOMAIN SavedStates[d]
  BY <1>0, HandleMaps
<1>26. Contract!Merge(d, i)
  <2>1. \A tx \in TxHashes : Contract!IsPrefix(HandleStates'[d].logs[tx], HandleStates[d].logs[tx])
    BY <1>21, <1>23
  <2>. QED
    BY <1>15, <1>16, <1>17, <1>20, <1>22, <1>24, <1>25, <2>1 DEF Contract!Merge, Contract!Seeps
<1>. QED
  BY <1>2, <1>25, <1>26

-----------------------------------------------------------------------------
(* InitState. *)

\* The path of one layer over the root.
LEMMA RootAppend ==
    ASSUME NEW r, r = <<Root>>, NEW l \in Layers PROVE Last(r) = Root /\ Append(r, l) = <<Root, l>>
<1>1. Len(r) = 1 /\ r[1] = Root /\ r \in Seq(Layers)
  BY LayersAssumption
<1>2. PICK a, b : a = Append(r, l) /\ b = <<Root, l>>
  OBVIOUS
<1>3. a \in Seq(Layers) /\ Len(a) = 2 /\ a[1] = Root /\ a[2] = l
  <2>1. a \in Seq(Layers) /\ Len(a) = Len(r) + 1 /\ a[Len(r) + 1] = l /\ \A i \in 1 .. Len(r) : a[i] = r[i]
    BY <1>1, <1>2, AppendProperties
  <2>2. Len(r) + 1 = 2 /\ 1 \in 1 .. Len(r)
    BY <1>1
  <2>. QED
    BY <1>1, <2>1, <2>2
<1>4. b \in Seq(Layers) /\ Len(b) = 2 /\ b[1] = Root /\ b[2] = l
  BY <1>2, LayersAssumption
<1>5. \A i \in 1 .. 2 : a[i] = b[i]
  BY <1>3, <1>4
<1>6. a = b
  BY <1>3, <1>4, <1>5, SeqEqual
<1>. QED
  BY <1>1, <1>2, <1>6 DEF Last

\* Main starts again from the root; the layers above the root that others
\* hold stay as they are.
LEMMA RebaseIs ==
    ASSUME LayersInv, LayersInv', NEW l \in Layers, NEW p \in PadMaps, NEW outcome,
           outcome \notin PanicOutcomes, Rebase(l, p, outcome),
           \A x \in Layers \ {Root} : p[x] = pad[x]
    PROVE  /\ Open' = Open /\ Main \in Open /\ pad'[Root] = p[Root]
           /\ HandleStates'[Main] = Contract!Pristine(ForkState') /\ SavedStates'[Main] = <<>>
           /\ \A e \in Open \ {Main} :
                /\ chain'[e] = chain[e] /\ held'[e] = held[e] /\ Kept(chain[e])
                /\ \A i \in 2 .. Len(chain[e]) : pad'[chain[e][i]] = pad[chain[e][i]]
           /\ \A e \in DBs \ Open : SavedStates'[e] = SavedStates[e]
<1>. DEFINE rest == [chain EXCEPT ![Main] = <<Root>>]
<1>0. /\ HandlesInv /\ HandlesInv' /\ TypeOK /\ TypeOK' /\ RootBlank' /\ RootBlank
      /\ chain \in [DBs -> Seq(Layers)] /\ held \in [DBs -> Seq(Nat)] /\ chain' \in [DBs -> Seq(Layers)]
      /\ Main \in DBs /\ chain[Main] # <<>> /\ Root \in Layers
  BY DBsAssumption, LayersAssumption DEF LayersInv, OwnInv, HandlesInv
<1>1. /\ l \in FreeLayers(rest) /\ chain' = [chain EXCEPT ![Main] = <<Root, l>>]
      /\ held' = [held EXCEPT ![Main] = <<>>]
  BY DEF Rebase, Restarted
<1>2. /\ chain'[Main] = <<Root, l>> /\ held'[Main] = <<>>
      /\ \A e \in DBs \ {Main} : chain'[e] = chain[e] /\ held'[e] = held[e] /\ rest[e] = chain[e]
      /\ rest \in [DBs -> Seq(Layers)]
  BY <1>0, <1>1
<1>3. l # Root
  BY <1>1, FreeIsNotRoot
<1>. HIDE DEF rest
<1>4. \A e \in DBs \ {Main} : \A i \in 1 .. Len(chain[e]) : chain[e][i] # l
  <2>1. \A e \in DBs : \A i \in 1 .. Len(rest[e]) : rest[e][i] # l
    BY <1>1, <1>2, FreeIsNotOnPath
  <2>. QED
    BY <1>2, <2>1
<1>5. ASSUME NEW x \in Layers, x = Root \/ x \in LiveLayers(chain')
      PROVE  /\ pad'[x] = [p EXCEPT ![l] = EmptyPad][x]
             /\ txLogs'[x] = [txLogs EXCEPT ![l] = NoLogs][x]
             /\ receipts'[x] = [receipts EXCEPT ![l] = {}][x]
             /\ txHash'[x] = [txHash EXCEPT ![l] = txHash[Root]][x]
  BY <1>5 DEF Rebase, Collect
<1>6. /\ p \in [Layers -> Pads] /\ txLogs \in [Layers -> [TxHashes -> Seq(LogIds)]]
      /\ receipts \in [Layers -> SUBSET TxHashes] /\ txHash \in [Layers -> TxHashes]
  BY <1>0 DEF TypeOK, PadMaps
<1>7. ASSUME NEW x \in Layers, x = Root \/ x \in LiveLayers(chain'), x # l
      PROVE  pad'[x] = p[x] /\ txLogs'[x] = txLogs[x] /\ receipts'[x] = receipts[x] /\ txHash'[x] = txHash[x]
  BY <1>5, <1>6, <1>7
<1>8. Open' = Open /\ Main \in Open
  <2>1. chain'[Main] # <<>>
    BY <1>2
  <2>. QED
    BY <1>0, <1>2, <2>1 DEF Open
<1>9. pad'[Root] = p[Root] /\ txHash'[Root] = txHash[Root]
  BY <1>0, <1>3, <1>7
<1>10. pad'[l] = EmptyPad /\ txLogs'[l] = NoLogs /\ receipts'[l] = {} /\ txHash'[l] = txHash[Root]
  <2>1. l \in LiveLayers(chain')
    <3>1. PICK ch \in [DBs -> Seq(Layers)] : ch = chain'
      BY <1>0
    <3>2. 2 \in 1 .. Len(ch[Main]) /\ ch[Main][2] = l
      <4>1. ch[Main] = <<Root, l>>
        BY <1>2, <3>1
      <4>2. Len(<<Root, l>>) = 2 /\ <<Root, l>>[2] = l
        OBVIOUS
      <4>. QED
        BY ONLY <4>1, <4>2
    <3>3. ch[Main][2] \in LiveLayers(ch)
      BY <1>0, <3>2, OnPath
    <3>. QED
      BY <3>1, <3>2, <3>3
  <2>. QED
    BY <1>5, <1>6, <2>1
<1>11. HandleStates'[Main] = Contract!Pristine(ForkState')
  <2>1. PICK r : r = <<Root>>
    OBVIOUS
  <2>2. Rooted(r) /\ Then(r) = Contract!Pristine(ForkState')
    BY <1>0, <2>1, RootState
  <2>3. Last(r) = Root /\ Append(r, l) = <<Root, l>>
    BY <2>1, RootAppend
  <2>4. l \in Layers \ {Root} /\ txHash'[l] = txHash'[Last(r)]
    BY <1>3, <1>9, <1>10, <2>3
  <2>5. Then(Append(r, l)) = Then(r)
    BY <1>0, <1>10, <2>2, <2>4, GrowThen
  <2>6. HandleStates'[Main] = Then(chain'[Main])
    BY <1>8, HandleMaps
  <2>. QED
    BY <1>2, <2>2, <2>3, <2>5, <2>6
<1>12. SavedStates'[Main] = <<>>
  <2>1. DOMAIN held'[Main] = {}
    BY <1>2
  <2>2. SavedStates'[Main] = [i \in {} |-> SavedStates'[Main][i]]
    BY <1>0, <2>1, SavedSeq
  <2>. QED
    BY <2>2
<1>13. ASSUME NEW e \in Open \ {Main}
       PROVE  /\ chain'[e] = chain[e] /\ held'[e] = held[e] /\ Kept(chain[e])
              /\ \A i \in 2 .. Len(chain[e]) : pad'[chain[e][i]] = pad[chain[e][i]]
  <2>1. /\ e \in DBs \ {Main} /\ chain'[e] = chain[e] /\ held'[e] = held[e]
        /\ Rooted(chain[e]) /\ chain[e] \in Seq(Layers) /\ Len(chain[e]) \in Nat
    BY <1>0, <1>2, PathsRooted DEF Open
  <2>2. ASSUME NEW i \in 1 .. Len(chain[e])
        PROVE  chain[e][i] \in Layers /\ chain[e][i] \in LiveLayers(chain') /\ chain[e][i] # l
    <3>1. PICK ch \in [DBs -> Seq(Layers)] : ch = chain'
      BY <1>0
    <3>2. i \in 1 .. Len(ch[e]) /\ ch[e][i] = chain[e][i]
      BY <2>1, <3>1
    <3>3. ch[e][i] \in LiveLayers(ch)
      BY <2>1, <3>2, OnPath
    <3>. QED
      BY <1>4, <2>1, <3>1, <3>2, <3>3
  <2>3. Kept(chain[e])
    BY <1>7, <2>2 DEF Kept
  <2>4. ASSUME NEW i \in 2 .. Len(chain[e]) PROVE pad'[chain[e][i]] = pad[chain[e][i]]
    <3>1. i \in 1 .. Len(chain[e]) /\ chain[e][i] # Root
      BY <2>1 DEF Rooted
    <3>2. chain[e][i] \in Layers \ {Root} /\ pad'[chain[e][i]] = p[chain[e][i]]
      BY <1>7, <2>2, <3>1
    <3>. QED
      BY <3>2
  <2>. QED
    BY <2>1, <2>3, <2>4
<1>14. ASSUME NEW e \in DBs \ Open PROVE SavedStates'[e] = SavedStates[e]
  <2>1. held'[e] = held[e]
    BY <1>2, <1>8
  <2>. QED
    BY <1>0, <2>1, ClosedHandle
<1>. QED
  BY <1>8, <1>9, <1>11, <1>12, <1>13, <1>14

\* What upstream holds completes the root to a state.
LEMMA ForkType ==
    ASSUME NEW p, NEW n \in BlockNumbers, p[Root] \in Pads
    PROVE  ForkIn(p, UpstreamAt[n]) \in [Keys -> Values]
<1>1. UpstreamAt[n] \in [Keys -> Values]
  BY UpstreamAssumption DEF Views
<1>2. ASSUME NEW k \in Keys PROVE ForkIn(p, UpstreamAt[n])[k] \in Values
  BY <1>1, ForkIs DEF Pads
<1>3. ForkIn(p, UpstreamAt[n]) = [k \in Keys |-> ForkIn(p, UpstreamAt[n])[k]]
  BY DEF ForkIn, ViewIn
<1>. QED
  BY <1>2, <1>3

\* InitState with a fetch.
LEMMA ReforkedIs ==
    ASSUME LayersInv, LayersInv', NEW l \in Layers, NEW p \in PadMaps, NEW outcome,
           outcome \notin PanicOutcomes, Rebase(l, p, outcome),
           \A x \in Layers \ {Root} : p[x] = pad[x]
    PROVE  Contract!Refork
<1>0. /\ Open' = Open /\ Main \in Open
      /\ HandleStates'[Main] = Contract!Pristine(ForkState') /\ SavedStates'[Main] = <<>>
      /\ \A e \in Open \ {Main} :
           /\ chain'[e] = chain[e] /\ held'[e] = held[e] /\ Kept(chain[e])
           /\ \A i \in 2 .. Len(chain[e]) : pad'[chain[e][i]] = pad[chain[e][i]]
  BY RebaseIs
<1>1. origin' = [x \in DBs |-> origin[x] \ {Main}]
  BY DEF Rebase
<1>2. HandlesInv /\ TypeOK'
  BY DEF LayersInv, OwnInv
<1>3. PICK w : w = ForkState'
  OBVIOUS
<1>4. ASSUME NEW e \in Open \ {Main}
      PROVE  /\ Mixed(HandleStates[e], HandleStates'[e], w, Keys)
             /\ DOMAIN SavedStates'[e] = DOMAIN SavedStates[e]
             /\ \A i \in DOMAIN SavedStates[e] : Mixed(SavedStates[e][i], SavedStates'[e][i], w, Keys)
  <2>1. Mixing(chain[e], w, Keys)
    BY <1>0, <1>3 DEF Mixing
  <2>. QED
    BY <1>0, <1>2, <2>1, MixHandle
<1>5. DOMAIN HandleStates = Open /\ DOMAIN HandleStates' = Open'
  BY HandleMaps
<1>6. ForkState' \in [Keys -> Values]
  <2>1. bn' \in BlockNumbers /\ pad'[Root] \in Pads
    BY <1>2, LayersAssumption DEF TypeOK
  <2>. QED
    BY <2>1, ForkType, ForkMap
<1>7. \A s, t : Mixed(s, t, w, Keys) => Contract!Mixes(s, t, ForkState')
  BY <1>3 DEF Mixed
<1>8. \A e \in Open \ {Main} :
        /\ Contract!Mixes(HandleStates[e], HandleStates'[e], ForkState')
        /\ DOMAIN SavedStates'[e] = DOMAIN SavedStates[e]
        /\ \A i \in DOMAIN SavedStates[e] : Contract!Mixes(SavedStates[e][i], SavedStates'[e][i], ForkState')
  BY <1>4, <1>7
<1>. QED
  BY <1>0, <1>1, <1>5, <1>6, <1>8 DEF Contract!Refork

\* ResetToRoot.
LEMMA InitStateKeepIs ==
    ASSUME LayersInv, LayersInv', NEW l \in Layers, InitStateKeep(l)
    PROVE  Contract!ResetToFork
<1>0. pad \in PadMaps /\ TypeOK /\ HandlesInv
  BY DEF LayersInv, OwnInv, TypeOK, PadMaps
<1>1. "ok" \notin PanicOutcomes /\ Rebase(l, pad, "ok") /\ bn' = bn
  BY DEF PanicOutcomes, InitStateKeep
<1>2. /\ Open' = Open /\ Main \in Open /\ pad'[Root] = pad[Root]
      /\ HandleStates'[Main] = Contract!Pristine(ForkState') /\ SavedStates'[Main] = <<>>
      /\ \A e \in Open \ {Main} :
           /\ chain'[e] = chain[e] /\ held'[e] = held[e] /\ Kept(chain[e])
           /\ \A i \in 2 .. Len(chain[e]) : pad'[chain[e][i]] = pad[chain[e][i]]
      /\ \A e \in DBs \ Open : SavedStates'[e] = SavedStates[e]
  BY <1>0, <1>1, RebaseIs
<1>3. ForkState' = ForkState
  BY <1>0, <1>1, <1>2, CacheFork
<1>4. ASSUME NEW e \in Open \ {Main} PROVE HandleStates'[e] = HandleStates[e] /\ SavedStates'[e] = SavedStates[e]
  <2>1. Mixing(chain[e], <<>>, {})
    BY <1>2, <1>3 DEF Mixing
  <2>. QED
    BY <1>0, <1>2, <2>1, SameHandle
<1>5. HandleStates' = [HandleStates EXCEPT ![Main] = Contract!Pristine(ForkState)]
  <2>1. PICK v : v = Contract!Pristine(ForkState)
    OBVIOUS
  <2>2. HandleStates'[Main] = v
    BY <1>2, <1>3, <2>1
  <2>3. HandleStates' = [HandleStates EXCEPT ![Main] = v]
    BY <1>2, <1>4, <2>2, StatesExcept
  <2>. QED
    BY <2>1, <2>3
<1>6. SavedStates' = [SavedStates EXCEPT ![Main] = <<>>]
  <2>1. \A e \in DBs \ {Main} : SavedStates'[e] = SavedStates[e]
    BY <1>2, <1>4
  <2>. QED
    BY <1>2, <2>1, SavedExcept, DBsAssumption
<1>7. origin' = [x \in DBs |-> origin[x] \ {Main}]
  BY <1>1 DEF Rebase
<1>. QED
  BY <1>3, <1>5, <1>6, <1>7 DEF Contract!ResetToFork

\* ClearKeyCache.
LEMMA InitStateClearIs ==
    ASSUME NoPanic, LayersInv, LayersInv', NEW l \in Layers, NEW outcome \in FetchOutcomes,
           InitStateClear(l, outcome)
    PROVE  Contract!Refork
<1>0. TypeOK
  BY DEF LayersInv, OwnInv
<1>1. outcome = "ok" /\ outcome \notin PanicOutcomes
  BY DEF NoPanic, PanicOutcomes, InitStateClear
<1>2. PICK p : p = [pad EXCEPT ![Root] = EmptyPad]
  OBVIOUS
<1>3. Rebase(l, p, outcome)
  BY <1>1, <1>2 DEF InitStateClear
<1>4. p \in PadMaps /\ \A x \in Layers \ {Root} : p[x] = pad[x]
  BY <1>0, <1>2, EmptyTypes, LayersAssumption DEF TypeOK, PadMaps
<1>. QED
  BY <1>1, <1>3, <1>4, ReforkedIs

\* Prepare and traceBlocks.
LEMMA ReforkIs ==
    ASSUME NoPanic, LayersInv, LayersInv', NEW n \in BlockNumbers, NEW l \in Layers,
           NEW outcome \in FetchOutcomes, NEW ks \in KeyLines, NEW zs,
           Refork(n, l, outcome, ks, zs)
    PROVE  Contract!Refork
<1>0. TypeOK
  BY DEF LayersInv, OwnInv
<1>1. outcome \notin PanicOutcomes
  BY DEF NoPanic
<1>2. PICK acc : Rebase(l, [pad EXCEPT ![Root] = Prefetched(n, ks, acc, outcome, zs)], outcome)
  BY DEF Refork
<1>3. PICK p : p = [pad EXCEPT ![Root] = Prefetched(n, ks, acc, outcome, zs)]
  OBVIOUS
<1>4. p \in PadMaps
  BY <1>0, <1>3, PrefetchedType
<1>5. \A x \in Layers \ {Root} : p[x] = pad[x]
  BY <1>0, <1>3 DEF TypeOK
<1>6. Rebase(l, p, outcome)
  BY <1>2, <1>3
<1>. QED
  BY <1>1, <1>4, <1>5, <1>6, ReforkedIs

-----------------------------------------------------------------------------
(* The layers implement the contract. *)

\* NewOverlayStateDB shows the fork state through Main.
LEMMA InitIs == Init => Contract!Init
<1>. SUFFICES ASSUME Init PROVE Contract!Init
  OBVIOUS
<1>1. /\ bn \in BlockNumbers /\ pad = [l \in Layers |-> EmptyPad] /\ txLogs = [l \in Layers |-> NoLogs]
      /\ receipts = [l \in Layers |-> {}] /\ txHash = [l \in Layers |-> ZeroHash]
      /\ held = [d \in DBs |-> <<>>] /\ origin = [d \in DBs |-> {}] /\ Root \in Layers /\ Main \in DBs
  BY LayersAssumption, DBsAssumption DEF Init
<1>2. PICK l \in Layers \ {Root} : chain = [d \in DBs |-> IF d = Main THEN <<Root, l>> ELSE <<>>]
  BY DEF Init
<1>3. TypeOK
  BY TypeInit
<1>4. ForkState \in [Keys -> Values]
  <2>1. pad[Root] \in Pads
    BY <1>3, LayersAssumption DEF TypeOK
  <2>. QED
    BY <1>1, <2>1, ForkType, ForkMap
<1>5. Open = {Main} /\ chain[Main] = <<Root, l>>
  <2>1. chain[Main] = <<Root, l>> /\ \A d \in DBs \ {Main} : chain[d] = <<>>
    BY <1>1, <1>2
  <2>2. chain[Main] # <<>>
    BY <2>1
  <2>. QED
    BY <1>1, <2>1, <2>2 DEF Open
<1>6. PICK r : r = <<Root>>
  OBVIOUS
<1>7. Rooted(r) /\ Now(r) = Contract!Pristine(ForkState)
  <2>1. RootBlank
    BY <1>1 DEF RootBlank
  <2>. QED
    BY <1>6, <2>1, RootState
<1>8. Last(r) = Root /\ Append(r, l) = <<Root, l>>
  BY <1>6, <1>1, RootAppend
<1>9. Now(Append(r, l)) = Now(r)
  <2>1. pad[l] = EmptyPad /\ txLogs[l] = NoLogs /\ receipts[l] = {} /\ txHash[l] = txHash[Last(r)]
    BY <1>1, <1>8
  <2>2. \A x \in Layers, tx \in TxHashes : txLogs[x][tx] \in Seq(LogIds)
    BY <1>3 DEF TypeOK
  <2>. QED
    BY <1>7, <2>1, <2>2, GrowState DEF Now
<1>10. HandleStates = [d \in {Main} |-> Contract!Pristine(ForkState)]
  <2>1. HandleStates = [d \in {Main} |-> Now(chain[d])]
    BY <1>5, StateMap
  <2>2. Now(chain[Main]) = Contract!Pristine(ForkState)
    BY <1>5, <1>7, <1>8, <1>9
  <2>. QED
    BY <2>1, <2>2
<1>11. SavedStates = [d \in DBs |-> <<>>]
  <2>1. SavedStates = [d \in DBs |-> SavedStates[d]]
    BY SavedMap
  <2>2. ASSUME NEW d \in DBs PROVE SavedStates[d] = <<>>
    <3>1. DOMAIN held[d] = {}
      BY <1>1
    <3>2. SavedStates[d] = [i \in {} |-> Now(Pre(chain[d], held[d][i]))]
      BY <3>1, SavedMap
    <3>. QED
      BY <3>2
  <2>. QED
    BY <2>1, <2>2
<1>12. lapsed = {}
  BY DEF Init
<1>. QED
  BY <1>1, <1>4, <1>10, <1>11, <1>12 DEF Contract!Init

\* A step that changes nothing the users see.
LEMMA UnseenIs ==
    ASSUME UNCHANGED <<bn, pad, notes, chain, held, origin>>
    PROVE  UNCHANGED <<ForkState, HandleStates, SavedStates, origin>>
<1>1. /\ bn' = bn /\ pad' = pad /\ txLogs' = txLogs /\ receipts' = receipts /\ txHash' = txHash
      /\ chain' = chain /\ held' = held /\ origin' = origin
  BY DEF notes
<1>2. ForkState' = ForkState
  BY <1>1, ForkMap
<1>3. \A c : Then(c) = Now(c)
  BY <1>1 DEF Then, Now
<1>4. HandleStates' = HandleStates
  <2>1. Open' = Open
    BY <1>1 DEF Open
  <2>. QED
    BY <1>1, <1>3, <2>1, StateMap
<1>5. SavedStates' = SavedStates
  BY <1>1, <1>3, SavedMap
<1>. QED
  BY <1>1, <1>2, <1>4, <1>5

\* A step that changes nothing at all.
LEMMA StutterIs == ASSUME UNCHANGED vars PROVE UNCHANGED Contract!vars
<1>1. UNCHANGED <<bn, pad, notes, chain, held, origin>> /\ lapsed' = lapsed
  BY DEF vars
<1>2. UNCHANGED <<ForkState, HandleStates, SavedStates, origin>>
  BY <1>1, UnseenIs
<1>. QED
  BY <1>1, <1>2 DEF Contract!vars

\* Every step of the layers is a step of the contract or changes nothing of it.
LEMMA RefinementStep ==
    ASSUME NoPanic, LayersInv, LayersInv', [Next]_vars PROVE [Contract!Next]_(Contract!vars)
<1>0. DOMAIN HandleStates = Open
  BY HandleMaps
<1>a. ASSUME Contract!Steady, lapsed' = lapsed PROVE Contract!Next
  BY <1>a DEF Contract!Next
<1>b. /\ HandlesInv /\ Main \in DBs /\ 0 \in 0 .. Len(held[Main]) /\ held[Main] \in Seq(Nat)
      /\ \A i \in DOMAIN held[Main] : i \in 0 .. Len(held[Main])
  BY DBsAssumption DEF LayersInv, OwnInv, HandlesInv
<1>1. CASE UNCHANGED vars
  BY <1>1, StutterIs
<1>2. CASE InitState
  <2>1. ASSUME NEW l \in Layers, InitStateKeep(l) PROVE Contract!Next
    <3>1. Contract!ResetToFork
      BY <2>1, InitStateKeepIs
    <3>2. Contract!Overtakes(0)
      BY <1>b, <2>1, OvertakesIs DEF InitStateKeep, Rebase
    <3>. QED
      BY <3>1, <3>2 DEF Contract!Next
  <2>2. ASSUME NEW l \in Layers, NEW o \in FetchOutcomes, InitStateClear(l, o) PROVE Contract!Next
    <3>1. Contract!Refork
      BY <2>2, InitStateClearIs
    <3>2. Contract!Overtakes(0)
      BY <1>b, <2>2, OvertakesIs DEF InitStateClear, Rebase
    <3>. QED
      BY <3>1, <3>2 DEF Contract!Next
  <2>3. ASSUME NEW n \in BlockNumbers, NEW l \in Layers, NEW o \in FetchOutcomes,
               NEW ks \in KeyLines, NEW zs \in SUBSET Keys, Refork(n, l, o, ks, zs)
        PROVE  Contract!Next
    <3>1. Contract!Refork
      BY <2>3, ReforkIs
    <3>2. Contract!Overtakes(0)
      BY <1>b, <2>3, OvertakesIs DEF Refork, Rebase
    <3>. QED
      BY <3>1, <3>2 DEF Contract!Next
  <2>4. ASSUME InitFakeAccounts PROVE Contract!Next
    <3>1. Contract!Steady
      BY <2>4, InitFakeAccountsIs DEF Contract!Steady
    <3>. QED
      BY <1>a, <2>4, <3>1 DEF InitFakeAccounts
  <2>. QED
    BY <1>2, <2>1, <2>2, <2>3, <2>4 DEF InitState
<1>3. ASSUME NEW d \in DBs, Access(d) PROVE Contract!Next \/ UNCHANGED Contract!vars
  <2>1. ASSUME NEW k \in Keys, NEW v \in Values, Set(d, k, v) PROVE Contract!Next
    <3>1. d \in DOMAIN HandleStates /\ Contract!Write(d, {k})
      BY <1>0, <2>1, SetIs
    <3>2. Contract!Steady
      BY <3>1 DEF Contract!Steady
    <3>. QED
      BY <1>a, <2>1, <3>2 DEF Set
  <2>2. ASSUME NEW k \in Keys, Read(d, k) PROVE UNCHANGED Contract!vars
    BY <2>2, ReadIs
  <2>3. ASSUME NEW a \in Accounts, NEW delta \in -MaxValue .. MaxValue, AddBalance(d, a, delta) PROVE Contract!Next
    <3>1. d \in DOMAIN HandleStates /\ \E k \in Keys : Contract!Write(d, {k})
      BY <1>0, <2>3, AddBalanceIs
    <3>2. Contract!Steady
      BY <3>1 DEF Contract!Steady
    <3>. QED
      BY <1>a, <2>3, <3>2 DEF AddBalance
  <2>. QED
    BY <1>3, <2>1, <2>2, <2>3 DEF Access
<1>4. ASSUME NEW d \in DBs, Revision(d) PROVE Contract!Next
  <2>1. ASSUME NEW l \in Layers, Snapshot(d, l) PROVE Contract!Next
    <3>1. d \in DOMAIN HandleStates /\ Contract!Snapshot(d)
      BY <1>0, <2>1, SnapshotIs
    <3>2. Contract!Steady
      BY <3>1 DEF Contract!Steady
    <3>. QED
      BY <1>a, <2>1, <3>2 DEF Snapshot
  <2>2. ASSUME NEW i \in DOMAIN held[d], RevertToSnapshot(d, i) PROVE Contract!Next
    <3>1. d \in DOMAIN HandleStates /\ i \in DOMAIN SavedStates[d] /\ Contract!Revert(d, i)
      BY <1>0, <2>2, RevertIs
    <3>2. lapsed' = Overtaken(d, i)
      BY <2>2 DEF RevertToSnapshot
    <3>3. CASE d = Main
      <4>1. Contract!Overtakes(i)
        BY <1>b, <3>2, <3>3, OvertakesIs
      <4>. QED
        BY <3>1, <3>3, <4>1 DEF Contract!Next
    <3>4. CASE d # Main
      <4>1. lapsed' = lapsed
        BY <3>2, <3>4 DEF Overtaken
      <4>2. Contract!Steady
        BY <3>1, <3>4 DEF Contract!Steady
      <4>. QED
        BY <1>a, <4>1, <4>2
    <3>. QED
      BY <3>3, <3>4
  <2>3. ASSUME FrameReturns(d) PROVE Contract!Next
    <3>1. d \in DOMAIN HandleStates /\ Contract!Forget(d)
      BY <1>0, <2>3, FrameReturnsIs
    <3>2. Contract!Steady
      BY <3>1 DEF Contract!Steady
    <3>. QED
      BY <1>a, <2>3, <3>2 DEF FrameReturns
  <2>4. ASSUME NEW i \in DOMAIN held[d], MergeTo(d, i) PROVE Contract!Next
    <3>1. d \in DOMAIN HandleStates /\ i \in DOMAIN SavedStates[d] /\ Contract!Merge(d, i)
      BY <1>0, <2>4, MergeIs
    <3>2. lapsed' = Overtaken(d, i)
      BY <2>4 DEF MergeTo
    <3>3. CASE d = Main
      <4>1. Contract!Overtakes(i)
        BY <1>b, <3>2, <3>3, OvertakesIs
      <4>. QED
        BY <3>1, <3>3, <4>1 DEF Contract!Next
    <3>4. CASE d # Main
      <4>1. lapsed' = lapsed
        BY <3>2, <3>4 DEF Overtaken
      <4>2. Contract!Steady
        BY <3>1, <3>4 DEF Contract!Steady
      <4>. QED
        BY <1>a, <4>1, <4>2
    <3>. QED
      BY <3>3, <3>4
  <2>. QED
    BY <1>4, <2>1, <2>2, <2>3, <2>4 DEF Revision
<1>5. ASSUME NEW d \in DBs, Handle(d) PROVE Contract!Next
  <2>1. ASSUME NEW e \in DBs, NEW l \in Layers, Clone(d, e, l) PROVE Contract!Next
    <3>1. d \in DOMAIN HandleStates /\ Contract!Clone(d, e)
      BY <1>0, <2>1, CloneIs
    <3>2. Contract!Steady
      BY <3>1 DEF Contract!Steady
    <3>. QED
      BY <1>a, <2>1, <3>2 DEF Clone, OpenAs
  <2>2. ASSUME NEW e \in DBs, NEW l \in Layers, CloneFromRoot(d, e, l) PROVE Contract!Next
    <3>1. d \in DOMAIN HandleStates /\ Contract!CloneFromRoot(e)
      BY <1>0, <2>2, CloneFromRootIs
    <3>2. Contract!Steady
      BY <3>1 DEF Contract!Steady
    <3>. QED
      BY <1>a, <2>2, <3>2 DEF CloneFromRoot, OpenAs
  <2>3. ASSUME Drop(d) PROVE Contract!Next
    <3>1. d \in DOMAIN HandleStates /\ Contract!Drop(d)
      BY <1>0, <2>3, DropIs
    <3>2. Contract!Steady
      BY <3>1 DEF Contract!Steady
    <3>. QED
      BY <1>a, <2>3, <3>2 DEF Drop
  <2>. QED
    BY <1>5, <2>1, <2>2, <2>3 DEF Handle
<1>6. ASSUME NEW d \in DBs, Record(d) PROVE Contract!Next
  <2>1. ASSUME NEW tx \in TxHashes, StartLogCollection(d, tx) PROVE Contract!Next
    <3>1. d \in DOMAIN HandleStates /\ Contract!StartLogCollection(d, tx)
      BY <1>0, <2>1, StartLogCollectionIs
    <3>2. Contract!Steady
      BY <3>1 DEF Contract!Steady
    <3>. QED
      BY <1>a, <2>1, <3>2 DEF StartLogCollection
  <2>2. ASSUME NEW log \in LogIds, AddLog(d, log) PROVE Contract!Next
    <3>1. d \in DOMAIN HandleStates /\ Contract!AddLog(d, log)
      BY <1>0, <2>2, AddLogIs
    <3>2. Contract!Steady
      BY <3>1 DEF Contract!Steady
    <3>. QED
      BY <1>a, <2>2, <3>2 DEF AddLog
  <2>3. ASSUME NEW tx \in TxHashes, AddReceipt(d, tx) PROVE Contract!Next
    <3>1. d \in DOMAIN HandleStates /\ Contract!AddReceipt(d, tx)
      BY <1>0, <2>3, AddReceiptIs
    <3>2. Contract!Steady
      BY <3>1 DEF Contract!Steady
    <3>. QED
      BY <1>a, <2>3, <3>2 DEF AddReceipt
  <2>. QED
    BY <1>6, <2>1, <2>2, <2>3 DEF Record
<1>7. CASE Overlap
  <2>1. ASSUME NEW id \in lapsed, NEW j, RevertLapsed(id, j) PROVE Contract!Next
    BY <2>1, StrayIs DEF Contract!Next
  <2>2. ASSUME NEW id \in lapsed, RevertRunsOff(id) \/ LapsedReturns(id) PROVE Contract!Next
    <3>1. UNCHANGED <<ForkState, HandleStates, SavedStates, origin>>
      BY <2>2, UnseenIs DEF RevertRunsOff, LapsedReturns
    <3>2. (lapsed # {}) /\ (lapsed # {})' \in BOOLEAN
      OBVIOUS
    <3>3. Contract!Ends
      BY <3>1, <3>2 DEF Contract!Ends
    <3>. QED
      BY <3>3 DEF Contract!Next
  <2>. QED
    BY <1>7, <2>1, <2>2 DEF Overlap
<1>. QED
  BY <1>1, <1>2, <1>3, <1>4, <1>5, <1>6, <1>7 DEF Next

\* The layers implement the contract: whatever the EVM and the requests do
\* through the handles, the values, logs, receipts and revisions they see
\* change only as StateDBSpec allows.  Without a panic in resetScratchPad,
\* which leaves Main on the root itself.
THEOREM Refinement == ASSUME NoPanic PROVE Spec => ImplementsContract
<1>1. Init => Contract!Init
  BY InitIs
<1>2. LayersInv /\ LayersInv' /\ [Next]_vars => [Contract!Next]_(Contract!vars)
  BY RefinementStep
<1>3. Spec => []LayersInv
  BY LayersAlways
<1>. QED
  BY <1>1, <1>2, <1>3, PTL DEF Spec, ImplementsContract, Contract!Spec
=============================================================================
