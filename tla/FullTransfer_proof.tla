-------------------------- MODULE FullTransfer_proof -------------------------
(***************************************************************************)
(* Proofs about the chunked transfer, for any number of leaves, tiers and  *)
(* chunks up to the 32 a mask can name.  TakenWhole rests on got_mask      *)
(* telling the truth about the spool file, and that on every chunk being   *)
(* inside its photo (RunInv).                                              *)
(***************************************************************************)
EXTENDS FullTransfer, FiniteSetTheorems, TLAPS

(* The part of TypeOK that the argument needs.                             *)
GatherType == asm \in Assembly \cup {None} /\ leaf \in [Leaf -> Run]
              /\ want \in [Leaf -> Tier \cup {None}]

TransferInv == GatherType /\ RunInv /\ MaskIsTheSpool /\ TakenWhole

(* The indices of a photo are finitely many, one per chunk.                *)
LEMMA IndexFacts ==
    ASSUME NEW l \in Leaf, NEW t \in Tier
    PROVE  /\ Chunks[l][t] \in 1 .. 32
           /\ Index(l, t) \subseteq 0 .. 31
           /\ IsFiniteSet(Index(l, t))
           /\ Cardinality(Index(l, t)) = Chunks[l][t]
<1>1. Chunks[l][t] \in 1 .. 32
  BY TransferAssumption
<1> DEFINE n == Chunks[l][t]
<1>2. n - 1 \in Int /\ ~ (0 > n - 1) /\ (n - 1) - 0 + 1 = n
  BY <1>1
<1>3. /\ IsFiniteSet(0 .. n - 1)
      /\ Cardinality(0 .. n - 1) = IF 0 > n - 1 THEN 0 ELSE (n - 1) - 0 + 1
  <2> HIDE DEF n
  <2> QED BY <1>2, FS_Interval
<1>4. Index(l, t) = 0 .. n - 1
  BY DEF Index
<1>5. \A j \in 0 .. n - 1 : j \in 0 .. 31
  BY <1>1
<1> HIDE DEF n
<1> QED BY <1>1, <1>2, <1>3, <1>4, <1>5 DEF n

(* A mask with as many bits as the photo has chunks has all of them.       *)
LEMMA FullMask ==
    ASSUME NEW l \in Leaf, NEW t \in Tier, NEW m \in SUBSET Index(l, t),
           Cardinality(m) = Chunks[l][t]
    PROVE  m = Index(l, t)
BY IndexFacts, FS_Subset

(* What an assembly is made of.                                            *)
LEMMA NoneIsNoAssembly == \A a \in Assembly : a.ev \in Leaf /\ a.tier \in Tier
                                    /\ a.mask \subseteq Index(a.ev, a.tier)
BY DEF Assembly

(* With nothing gathered and nothing taken the invariant holds.            *)
LEMMA InitTransfer == Init => TransferInv
<1> SUFFICES ASSUME Init PROVE TransferInv
  OBVIOUS
<1>1. Idle \in Run
  BY DEF Idle, Run
<1> QED BY <1>1 DEF Init, TransferInv, GatherType, RunInv, MaskIsTheSpool,
                    TakenWhole, Pc, Idle

-----------------------------------------------------------------------------
(* What the gateway does with a chunk.                                     *)

Gathered == asm' \in Assembly \cup {None} /\ MaskIsTheSpool' /\ TakenWhole'

(* Resetting the assembly leaves mask and spool in agreement.              *)
LEMMA ResetGathers ==
    ASSUME TransferInv, AsmReset, UNCHANGED taken
    PROVE  Gathered
BY DEF AsmReset, Gathered, TransferInv, MaskIsTheSpool, TakenWhole

(* Storing or dropping a chunk keeps mask and spool in agreement, and      *)
(* takes custody of whole photos only.                                     *)
LEMMA ChunkGathers ==
    ASSUME TransferInv, NEW l \in Leaf, NEW t \in Tier, NEW i \in Index(l, t),
           HandleChunk(l, t, i)
    PROVE  Gathered
<1>c. Chunks[l][t] \in 1 .. 32
  BY IndexFacts
<1>w. TakenWhole /\ MaskIsTheSpool /\ asm \in Assembly \cup {None}
  BY DEF TransferInv, GatherType
<1>1. CASE Chunks[l][t] = 1
  <2> DEFINE p == [ev |-> l, tier |-> t,
                   file |-> [j \in {0} |-> [ev |-> l, tier |-> t]]]
  <2>1. taken' = taken \cup {p} /\ asm' = asm /\ part' = part
    BY <1>1 DEF HandleChunk, Single, Complete
  <2>2. Index(l, t) = {0}
    BY <1>1 DEF Index
  <2>3. p.file = [j \in Index(p.ev, p.tier) |-> [ev |-> p.ev, tier |-> p.tier]]
    BY <2>2
  <2> HIDE DEF p
  <2> QED BY <1>w, <2>1, <2>3 DEF Gathered, MaskIsTheSpool, TakenWhole
<1>2. CASE Chunks[l][t] # 1
  <2> DEFINE held == IF Gathers(l, t) THEN asm.mask ELSE {}
             mask == held \cup {i}
             old  == IF Gathers(l, t) THEN part ELSE Empty
             file == [j \in DOMAIN old \cup {i} |->
                         IF j = i THEN [ev |-> l, tier |-> t] ELSE old[j]]
             p == [ev |-> l, tier |-> t, file |-> file]
  <2>1. held \subseteq Index(l, t)
    BY <1>w, NoneIsNoAssembly DEF Gathers
  <2>2. old = [j \in held |-> [ev |-> l, tier |-> t]]
    BY <1>w DEF Gathers, MaskIsTheSpool, Empty
  <2> HIDE DEF held, old
  <2>3. file = [j \in mask |-> [ev |-> l, tier |-> t]]
    BY <2>2
  <2>4. IF Cardinality(mask) = Chunks[l][t]
        THEN AsmReset /\ Complete(l, p)
        ELSE /\ asm' = [ev |-> l, tier |-> t, mask |-> mask]
             /\ part' = file
             /\ UNCHANGED <<have, queue, taken>>
    BY <1>2 DEF HandleChunk, Stored, held, old
  <2>5. mask \subseteq Index(l, t)
    BY <2>1
  <2> HIDE DEF mask, file
  <2>6. CASE Cardinality(mask) = Chunks[l][t]
    <3>1. mask = Index(l, t)
      BY <2>5, <2>6, FullMask
    <3>2. asm' = None /\ part' = Empty /\ taken' = taken \cup {p}
      BY <2>4, <2>6 DEF AsmReset, Complete
    <3>3. p.file = [j \in Index(p.ev, p.tier) |->
                       [ev |-> p.ev, tier |-> p.tier]]
      BY <2>3, <3>1
    <3> HIDE DEF p
    <3> QED BY <1>w, <3>2, <3>3 DEF Gathered, MaskIsTheSpool, TakenWhole
  <2>7. CASE Cardinality(mask) # Chunks[l][t]
    <3>1. /\ asm' = [ev |-> l, tier |-> t, mask |-> mask]
          /\ part' = file /\ taken' = taken
      BY <2>4, <2>7
    <3>2. asm' \in Assembly
      BY <2>5, <3>1, IndexFacts DEF Assembly
    <3>3. asm' # None
      BY <3>1, <3>2, NoneAssembly
    <3> QED BY <1>w, <2>3, <3>1, <3>2, <3>3
            DEF Gathered, MaskIsTheSpool, TakenWhole
  <2> QED BY <2>6, <2>7
<1> QED BY <1>1, <1>2

-----------------------------------------------------------------------------
(* A leaf's own state.                                                     *)

(* What is known of a run of send_full that is under way.                  *)
LEMMA RunFacts ==
    ASSUME TransferInv, NEW l \in Leaf, ~ Pc(l, "idle")
    PROVE  /\ leaf[l].tier \in Tier /\ Chunks[l][leaf[l].tier] \in 1 .. 32
           /\ Here(l) \in 0 .. Chunks[l][leaf[l].tier]
           /\ More(l) => Here(l) \in Index(l, leaf[l].tier)
           /\ Pc(l, "failed") \/ Pc(l, "resend") => More(l)
<1>1. /\ leaf[l].tier \in Tier /\ Here(l) <= Chunks[l][leaf[l].tier]
      /\ Pc(l, "failed") \/ Pc(l, "resend") => More(l)
  BY DEF TransferInv, RunInv
<1>2. Chunks[l][leaf[l].tier] \in 1 .. 32
  BY <1>1, IndexFacts
<1>3. Here(l) \in 0 .. 32
  BY DEF TransferInv, GatherType, Run, Here
<1> QED BY <1>1, <1>2, <1>3 DEF More, Index

(* One leaf's new state is well formed: the others' are as they were.      *)
LEMMA Becomes ==
    ASSUME TransferInv, NEW l \in Leaf, NEW r \in Run, Become(l, r),
           want' \in [Leaf -> Tier \cup {None}],
           r.pc # "idle" => /\ r.tier \in Tier
                            /\ r.i <= Chunks[l][r.tier]
                            /\ r.pc \in {"failed", "resend"}
                                  => r.i < Chunks[l][r.tier],
           Gathered
    PROVE  TransferInv'
<1>1. leaf' = [leaf EXCEPT ![l] = r] /\ leaf \in [Leaf -> Run]
  BY DEF Become, TransferInv, GatherType
<1>2. leaf' \in [Leaf -> Run]
  BY <1>1
<1>3. leaf'[l] = r /\ \A m \in Leaf \ {l} : leaf'[m] = leaf[m]
  BY <1>1
<1>4. RunInv'
  <2> SUFFICES ASSUME NEW m \in Leaf, leaf'[m].pc # "idle"
               PROVE  /\ leaf'[m].tier \in Tier
                      /\ leaf'[m].i <= Chunks[m][leaf'[m].tier]
                      /\ leaf'[m].pc \in {"failed", "resend"}
                            => leaf'[m].i < Chunks[m][leaf'[m].tier]
    BY DEF RunInv, Pc, Here, More
  <2>1. CASE m = l
    BY <2>1, <1>3
  <2>2. CASE m # l
    BY <2>2, <1>3 DEF TransferInv, RunInv, Pc, Here, More
  <2> QED BY <2>1, <2>2
<1> QED BY <1>2, <1>4 DEF TransferInv, GatherType, Gathered

(* Nothing of the gateway's changed.                                       *)
LEMMA SameGathers ==
    ASSUME TransferInv, UNCHANGED <<asm, part, taken>>
    PROVE  Gathered
BY DEF Gathered, TransferInv, GatherType, MaskIsTheSpool, TakenWhole

(* The leaves left alone keep their runs well formed.                      *)
LEMMA SameLeaves ==
    ASSUME TransferInv, UNCHANGED leaf, Gathered,
           want' \in [Leaf -> Tier \cup {None}]
    PROVE  TransferInv'
BY DEF TransferInv, GatherType, RunInv, Gathered, Pc, Here, More

(* Where a run of send_full may go from here.                              *)
LEMMA RunMoves ==
    ASSUME TransferInv, NEW l \in Leaf, NEW m \in SUBSET (0 .. 31),
           NEW t \in Tier \cup {None}, NEW b \in BOOLEAN
    PROVE  /\ Idle \in Run
           /\ leaf[l] \in Run
           /\ ~ Pc(l, "idle") /\ More(l) =>
                 /\ [leaf[l] EXCEPT !.pc = "send", !.i = @ + 1] \in Run
                 /\ [leaf[l] EXCEPT !.mask = m, !.of = t, !.blind = b,
                                    !.pc = "send", !.i = @ + 1] \in Run
                 /\ Here(l) + 1 <= Chunks[l][leaf[l].tier]
           /\ [leaf[l] EXCEPT !.mask = m, !.of = t, !.blind = b,
                              !.pc = "resend"] \in Run
           /\ [leaf[l] EXCEPT !.pc = "send", !.mask = m, !.of = t] \in Run
           /\ [leaf[l] EXCEPT !.pc = "send", !.blind = b] \in Run
           /\ [leaf[l] EXCEPT !.pc = "resend", !.blind = b] \in Run
           /\ [leaf[l] EXCEPT !.pc = "failed"] \in Run
<1>1. Idle \in Run
  BY DEF Idle, Run
<1>2. leaf[l] \in Run
  BY DEF TransferInv, GatherType
<1>3. ~ Pc(l, "idle") /\ More(l) =>
        leaf[l].i + 1 \in 0 .. 32 /\ Here(l) + 1 <= Chunks[l][leaf[l].tier]
  BY <1>2, RunFacts DEF More, Here, Index
<1> QED BY <1>1, <1>2, <1>3 DEF Run

(* The gateway answers with a mask, whatever it is gathering.              *)
LEMMA Answer ==
    ASSUME TransferInv, NEW l \in Leaf
    PROVE  MaskFor(l) \in SUBSET (0 .. 31) /\ TierFor(l) \in Tier \cup {None}
BY IndexFacts DEF TransferInv, GatherType, Assembly, MaskFor, TierFor

-----------------------------------------------------------------------------
(* Every step keeps the invariant.                                         *)

(* The steps of a leaf keep the invariant.                                 *)
LEMMA LeafKeeps ==
    ASSUME TransferInv, NEW l \in Leaf,
           Fetch(l) \/ LeafStep(l) \/ Unanswered(l) \/ SendFails(l)
             \/ ReUnanswered(l) \/ Abort(l)
    PROVE  TransferInv'
<1> USE DEF gwVars
<1>w. want \in [Leaf -> Tier \cup {None}]
  BY DEF TransferInv, GatherType
<1>i. Idle \in Run /\ Idle.pc = "idle"
  BY RunMoves DEF Idle
<1>g. ASSUME Received(l), ~ Pc(l, "idle"), More(l) PROVE Gathered
  <2>1. leaf[l].tier \in Tier /\ Here(l) \in Index(l, leaf[l].tier)
    BY <1>g, RunFacts
  <2> QED BY <1>g, <2>1, ChunkGathers, ResetGathers DEF Received, Dropped
<1>a. ASSUME Advance(l), Gathered, ~ Pc(l, "idle"), More(l), want' = want
      PROVE  TransferInv'
  <2> DEFINE r == [leaf[l] EXCEPT !.pc = "send", !.i = @ + 1]
  <2>1. r \in Run /\ Here(l) + 1 <= Chunks[l][leaf[l].tier]
        /\ leaf[l].tier \in Tier /\ leaf[l] \in Run
    BY <1>a, RunMoves, RunFacts
  <2>2. r.pc = "send" /\ r.i = Here(l) + 1 /\ r.tier = leaf[l].tier
    BY <2>1 DEF Run, Here
  <2>3. Become(l, r)
    BY <1>a DEF Advance
  <2> HIDE DEF r
  <2> QED BY <1>a, <1>w, <2>1, <2>2, <2>3, Becomes
<1>s. ASSUME Succeed(l), Gathered, want' = want PROVE TransferInv'
  BY <1>s, <1>w, <1>i, Becomes DEF Succeed
<1>1. CASE Fetch(l)
  <2> DEFINE r == [Idle EXCEPT !.pc = "ask", !.tier = want[l]]
  <2>1. Become(l, r) /\ want' = want /\ want[l] \in Tier /\ Gathered
    BY <1>1, <1>w, SameGathers DEF Fetch
  <2>2. Idle \in Run /\ Idle.i = 0
    BY <1>i DEF Idle
  <2>4. r \in Run
    BY <2>1, <2>2 DEF Run
  <2>5. r.tier \in Tier /\ r.pc = "ask" /\ r.i = 0
    BY <2>1, <2>2 DEF Run
  <2> HIDE DEF r
  <2>3. 0 <= Chunks[l][r.tier]
    BY <2>5, IndexFacts
  <2> QED BY <1>w, <2>1, <2>3, <2>4, <2>5, Becomes
<1>2. CASE Answered(l)
  <2>1. want' = want /\ Gathered /\ Pc(l, "ask")
    BY <1>2, SameGathers DEF Answered
  <2>2. CASE Succeed(l)
    BY <1>s, <2>1, <2>2
  <2>3. CASE ~ Succeed(l)
    <3> DEFINE r == [leaf[l] EXCEPT !.pc = "send", !.mask = MaskFor(l),
                                    !.of = TierFor(l)]
    <3>1. Become(l, r)
      BY <1>2, <2>3 DEF Answered
    <3>2. r \in Run /\ leaf[l] \in Run
      BY Answer, RunMoves
    <3>3. /\ leaf[l].tier \in Tier
          /\ Here(l) <= Chunks[l][leaf[l].tier]
      BY <2>1, RunFacts DEF Pc
    <3>4. r.pc = "send" /\ r.i = Here(l) /\ r.tier = leaf[l].tier
      BY <3>2 DEF Run, Here
    <3> HIDE DEF r
    <3> QED BY <1>w, <2>1, <3>1, <3>2, <3>3, <3>4, Becomes
  <2> QED BY <2>2, <2>3
<1>3. CASE Skip(l)
  <2>1. Advance(l) /\ Gathered /\ want' = want /\ ~ Pc(l, "idle") /\ More(l)
    BY <1>3, SameGathers DEF Skip, Pc
  <2> QED BY <1>a, <2>1
<1>4. CASE SendOk(l)
  <2>1. Advance(l) /\ Received(l) /\ want' = want /\ ~ Pc(l, "idle")
        /\ More(l)
    BY <1>4 DEF SendOk, Sending, Pc
  <2> QED BY <1>a, <1>g, <2>1
<1>5. CASE ReAnswered(l)
  <2>1. want' = want /\ Gathered /\ ~ Pc(l, "idle") /\ More(l)
    BY <1>5, SameGathers, RunFacts DEF ReAnswered, Pc
  <2>2. CASE Succeed(l)
    BY <1>s, <2>1, <2>2
  <2>3. CASE ~ Succeed(l)
    <3> DEFINE m == MaskFor(l)
               t == TierFor(l)
               skip == [leaf[l] EXCEPT !.mask = m, !.of = t, !.blind = FALSE,
                                       !.pc = "send", !.i = @ + 1]
               again == [leaf[l] EXCEPT !.mask = m, !.of = t, !.blind = FALSE,
                                        !.pc = "resend"]
    <3>1. m \in SUBSET (0 .. 31) /\ t \in Tier \cup {None}
      BY Answer
    <3>2. leaf[l] \in Run
      BY RunMoves
    <3>3. Become(l, skip) \/ Become(l, again)
      BY <1>5, <2>3, <3>2 DEF ReAnswered, Run, Become
    <3> HIDE DEF m, t
    <3>4. skip \in Run /\ again \in Run
          /\ Here(l) + 1 <= Chunks[l][leaf[l].tier]
      BY <2>1, <3>1, RunMoves
    <3>5. /\ leaf[l].tier \in Tier /\ Here(l) < Chunks[l][leaf[l].tier]
          /\ Here(l) <= Chunks[l][leaf[l].tier]
      BY <2>1, RunFacts DEF More
    <3>6. /\ skip.pc = "send" /\ skip.i = Here(l) + 1
          /\ skip.tier = leaf[l].tier
          /\ again.pc = "resend" /\ again.i = Here(l)
          /\ again.tier = leaf[l].tier
      BY <3>2 DEF Run, Here
    <3> HIDE DEF skip, again
    <3>7. CASE Become(l, skip)
      BY <1>w, <2>1, <3>4, <3>5, <3>6, <3>7, Becomes
    <3>8. CASE Become(l, again)
      BY <1>w, <2>1, <3>4, <3>5, <3>6, <3>8, Becomes
    <3> QED BY <3>3, <3>7, <3>8
  <2> QED BY <2>2, <2>3
<1>6. CASE ResendOk(l)
  <2>1. Advance(l) /\ Received(l) /\ want' = want /\ ~ Pc(l, "idle")
        /\ More(l)
    BY <1>6, RunFacts DEF ResendOk, Pc
  <2> QED BY <1>a, <1>g, <2>1
<1>7. CASE Finish(l)
  <2>1. Succeed(l) /\ want' = want /\ Gathered
    BY <1>7, SameGathers DEF Finish
  <2> QED BY <1>s, <2>1
<1>8. CASE Unanswered(l) \/ ReUnanswered(l) \/ SendFails(l)
  <2> DEFINE r1 == [leaf[l] EXCEPT !.pc = "send", !.blind = TRUE]
             r2 == [leaf[l] EXCEPT !.pc = "resend", !.blind = TRUE]
             r3 == [leaf[l] EXCEPT !.pc = "failed"]
  <2>1. r1 \in Run /\ r2 \in Run /\ r3 \in Run /\ leaf[l] \in Run
    BY RunMoves
  <2>2. /\ r1.pc = "send" /\ r1.i = Here(l) /\ r1.tier = leaf[l].tier
        /\ r2.pc = "resend" /\ r2.i = Here(l) /\ r2.tier = leaf[l].tier
        /\ r3.pc = "failed" /\ r3.i = Here(l) /\ r3.tier = leaf[l].tier
    BY <2>1 DEF Run, Here
  <2>3. want' = want /\ ~ Pc(l, "idle")
    BY <1>8 DEF Unanswered, ReUnanswered, SendFails, Sending, Pc
  <2>4. /\ leaf[l].tier \in Tier /\ Here(l) <= Chunks[l][leaf[l].tier]
        /\ More(l) => Here(l) < Chunks[l][leaf[l].tier]
    BY <2>3, RunFacts DEF More
  <2> HIDE DEF r1, r2, r3
  <2>5. CASE Unanswered(l)
    <3>1. Become(l, r1) /\ Gathered
      BY <2>5, SameGathers DEF Unanswered, r1
    <3> QED BY <1>w, <2>1, <2>2, <2>3, <2>4, <3>1, Becomes
  <2>6. CASE ReUnanswered(l)
    <3>1. Become(l, r2) /\ Gathered /\ More(l)
      BY <2>6, <2>3, SameGathers, RunFacts DEF ReUnanswered, r2
    <3> QED BY <1>w, <2>1, <2>2, <2>3, <2>4, <3>1, Becomes
  <2>7. CASE SendFails(l)
    <3>1. Become(l, r3) /\ More(l)
      BY <2>7 DEF SendFails, Sending, r3
    <3>2. Here(l) \in Index(l, leaf[l].tier)
      BY <2>3, <3>1, RunFacts
    <3>3. Gathered
      BY <2>4, <2>7, <3>2, SameGathers, ChunkGathers DEF SendFails
    <3> QED BY <1>w, <2>1, <2>2, <2>3, <2>4, <3>1, <3>3, Becomes
  <2> QED BY <1>8, <2>5, <2>6, <2>7
<1>9. CASE Abort(l)
  <2>1. Become(l, Idle) /\ want' = want /\ ~ Pc(l, "idle")
    BY <1>9 DEF Abort
  <2>2. Gathered
    <3>1. CASE UNCHANGED gwVars
      BY <3>1, SameGathers
    <3>2. CASE Pc(l, "resend") /\ HandleChunk(l, leaf[l].tier, Here(l))
      BY <2>1, <3>2, RunFacts, ChunkGathers
    <3> QED BY <1>9, <3>1, <3>2 DEF Abort
  <2> QED BY <1>w, <1>i, <2>1, <2>2, Becomes
<1> QED
  BY <1>1, <1>2, <1>3, <1>4, <1>5, <1>6, <1>7, <1>8, <1>9 DEF LeafStep

(* The invariant is inductive.                                             *)
LEMMA TransferStep == TransferInv /\ [Next]_vars => TransferInv'
<1> SUFFICES ASSUME TransferInv, [Next]_vars PROVE TransferInv'
  OBVIOUS
<1> USE DEF gwVars
<1>w. want \in [Leaf -> Tier \cup {None}]
  BY DEF TransferInv, GatherType
<1>1. CASE UNCHANGED vars
  BY <1>1, <1>w, SameGathers, SameLeaves DEF vars
<1>2. ASSUME NEW l \in Leaf,
             Fetch(l) \/ LeafStep(l) \/ Unanswered(l) \/ SendFails(l)
               \/ ReUnanswered(l) \/ Abort(l)
      PROVE  TransferInv'
  BY <1>2, LeafKeeps
<1>3. ASSUME NEW l \in Leaf, Upload(l) \/ GiveUp(l) \/ ClaimAges(l)
      PROVE  TransferInv'
  <2>1. UNCHANGED <<asm, part, taken, leaf>>
        /\ want' \in [Leaf -> Tier \cup {None}]
    BY <1>3, <1>w DEF Upload, GiveUp, ClaimAges
  <2> QED BY <2>1, SameGathers, SameLeaves
<1>4. ASSUME NEW l \in Leaf, NEW t \in Tier, Ask(l, t) PROVE TransferInv'
  <2>1. UNCHANGED <<asm, part, taken, leaf>>
        /\ want' \in [Leaf -> Tier \cup {None}]
    BY <1>4, <1>w DEF Ask
  <2> QED BY <2>1, SameGathers, SameLeaves
<1>5. CASE Stall \/ GatewayReboots
  <2>1. AsmReset /\ taken' = taken /\ leaf' = leaf /\ want' = want
    BY <1>5 DEF Stall, GatewayReboots
  <2> QED BY <1>w, <2>1, ResetGathers, SameLeaves
<1> QED BY <1>1, <1>2, <1>3, <1>4, <1>5 DEF Next

(* The invariant holds in every behaviour.                                 *)
LEMMA TransferAlways == Spec => []TransferInv
<1> QED BY InitTransfer, TransferStep, PTL DEF Spec

(* Custody is of whole photos: however chunks of two leaves and two tiers  *)
(* interleave, are lost, repeated or fail to be written, a file that       *)
(* handle_chunk promotes has every chunk of one photo in one tier.         *)
THEOREM CustodyOfWholes == Spec => []TakenWhole
<1> QED BY TransferAlways, PTL DEF TransferInv

(* The mask a leaf is answered is what the spool file holds.               *)
THEOREM MaskTruthful == Spec => []MaskIsTheSpool
<1> QED BY TransferAlways, PTL DEF TransferInv

-----------------------------------------------------------------------------
(* The rest of the type invariant: the ring, the queue and the bounds.     *)
Rest == /\ have \subseteq Leaf /\ queue \subseteq Leaf
        /\ asks \in 0 .. MaxAsks /\ faults \in 0 .. MaxFaults

(* What is noted and queued for a chunk is its leaf's.                     *)
LEMMA ChunkNotes ==
    ASSUME Rest, NEW l \in Leaf, NEW t \in Tier, NEW i,
           HandleChunk(l, t, i) \/ Dropped(l, t, i)
    PROVE  have' \subseteq Leaf /\ queue' \subseteq Leaf
BY DEF Rest, HandleChunk, Single, Stored, Complete, Dropped

(* A fault is counted within its bound.                                    *)
LEMMA FaultCounted ==
    ASSUME Rest, Fault \/ NoFault PROVE faults' \in 0 .. MaxFaults
BY TransferAssumption DEF Rest, Fault, NoFault

(* Every action keeps the rest of the type.                                *)
LEMMA RestStep == TransferInv /\ Rest /\ [Next]_vars => Rest'
<1> SUFFICES ASSUME TransferInv, Rest, [Next]_vars PROVE Rest'
  OBVIOUS
<1>1. CASE UNCHANGED vars
  BY <1>1 DEF vars, gwVars, Rest
<1>2. ASSUME NEW l \in Leaf,
             \/ Fetch(l) \/ Answered(l) \/ Skip(l) \/ ReAnswered(l)
             \/ Finish(l) \/ Unanswered(l) \/ ReUnanswered(l)
      PROVE  Rest'
  <2>1. UNCHANGED <<have, queue, asks>> /\ (Fault \/ NoFault)
    BY <1>2 DEF Fetch, Answered, Skip, ReAnswered, Finish, Unanswered,
                ReUnanswered, gwVars
  <2> QED BY <2>1, FaultCounted DEF Rest
<1>3. ASSUME NEW l \in Leaf, SendOk(l) \/ ResendOk(l) \/ SendFails(l) \/ Abort(l)
      PROVE  Rest'
  <2>1. CASE UNCHANGED gwVars /\ Fault /\ UNCHANGED asks
    BY <2>1, FaultCounted DEF Rest, gwVars
  <2>2. CASE /\ ~ Pc(l, "idle") /\ UNCHANGED asks /\ (Fault \/ NoFault)
             /\ \/ HandleChunk(l, leaf[l].tier, Here(l))
                \/ Dropped(l, leaf[l].tier, Here(l))
    <3>1. leaf[l].tier \in Tier
      BY <2>2, RunFacts
    <3> QED BY <2>2, <3>1, ChunkNotes, FaultCounted DEF Rest
  <2> QED BY <1>3, <2>1, <2>2
          DEF SendOk, ResendOk, SendFails, Abort, Received, Sending, Pc
<1>4. ASSUME NEW l \in Leaf, Upload(l) \/ GiveUp(l) \/ ClaimAges(l)
      PROVE  Rest'
  <2>1. have' \subseteq Leaf /\ queue' \subseteq Leaf /\ asks' = asks
        /\ (Fault \/ NoFault)
    BY <1>4 DEF Upload, GiveUp, ClaimAges, Rest
  <2> QED BY <2>1, FaultCounted DEF Rest
<1>5. ASSUME NEW l \in Leaf, NEW t \in Tier, Ask(l, t) PROVE Rest'
  BY <1>5, TransferAssumption DEF Ask, Rest, NoFault, gwVars
<1>6. CASE Stall /\ (Fault \/ (Quiet /\ NoFault))
  <2>1. UNCHANGED <<have, queue, asks>> /\ (Fault \/ NoFault)
    BY <1>6 DEF Stall
  <2> QED BY <2>1, FaultCounted DEF Rest
<1>7. CASE GatewayReboots
  <2>1. have' = {} /\ queue' \subseteq Leaf /\ asks' = asks /\ Fault
    BY <1>7 DEF GatewayReboots, Rest
  <2> QED BY <2>1, FaultCounted DEF Rest
<1> QED BY <1>1, <1>2, <1>3, <1>4, <1>5, <1>6, <1>7 DEF Next, LeafStep

(* The spool file is a function from chunk numbers to chunks.              *)
LEMMA SpoolType == TransferInv => \E D \in SUBSET (0 .. 31) : part \in [D -> Chunk]
<1> SUFFICES ASSUME TransferInv
             PROVE  \E D \in SUBSET (0 .. 31) : part \in [D -> Chunk]
  OBVIOUS
<1>1. CASE asm = None
  <2>1. part \in [{} -> Chunk]
    BY <1>1 DEF TransferInv, MaskIsTheSpool, Empty
  <2> QED BY <2>1
<1>2. CASE asm # None
  <2>1. asm \in Assembly
    BY <1>2 DEF TransferInv, GatherType
  <2>2. asm.mask \in SUBSET (0 .. 31) /\ [ev |-> asm.ev, tier |-> asm.tier] \in Chunk
    BY <2>1 DEF Assembly, Chunk
  <2>3. part \in [asm.mask -> Chunk]
    BY <1>2, <2>2 DEF TransferInv, MaskIsTheSpool
  <2> QED BY <2>2, <2>3
<1> QED BY <1>1, <1>2

(* Every variable keeps its type, for any leaves, tiers and bounds.        *)
THEOREM TypeCorrect == Spec => []TypeOK
<1>1. Init => Rest
  BY TransferAssumption DEF Init, Rest
<1>2. Spec => []Rest
  BY <1>1, TransferAlways, RestStep, PTL DEF Spec
<1>3. TransferInv /\ Rest => TypeOK
  BY SpoolType DEF TransferInv, GatherType, Rest, TypeOK
<1> QED BY <1>2, <1>3, TransferAlways, PTL

-----------------------------------------------------------------------------
(* No waste.                                                               *)

(* A leaf that had its answer knows of every chunk the gateway has gathered *)
(* of the photo it sends: it was told, or has gone past it since.           *)
Knows(l) ==
    Gathers(l, leaf[l].tier) => asm.mask \subseteq leaf[l].mask \cup 0 .. Here(l) - 1

KnowsInv ==
    \A l \in Leaf :
        ~ leaf[l].blind =>
            /\ Pc(l, "send") \/ Pc(l, "resend") => Knows(l)
            /\ Pc(l, "resend") => Here(l) \notin leaf[l].mask

(* A chunk changes nothing, ends the assembly, or leaves one of its own     *)
(* photo with that chunk added to what was gathered of it.                  *)
LEMMA ChunkGains ==
    ASSUME NEW l, NEW t, NEW i, HandleChunk(l, t, i) \/ Dropped(l, t, i)
    PROVE  \/ asm' = asm
           \/ asm' = None
           \/ asm' = [ev |-> l, tier |-> t,
                      mask |-> (IF Gathers(l, t) THEN asm.mask ELSE {}) \cup {i}]
BY DEF HandleChunk, Single, Stored, Complete, AsmReset, Dropped

(* What a step of a leaf brings about, as far as knowledge goes: it ends or *)
(* fails its run, sends with no answer, hears the mask, or moves past the   *)
(* chunk it is at.                                                          *)
LEMMA LeafLearns ==
    ASSUME TransferInv, KnowsInv, NEW l \in Leaf,
           Fetch(l) \/ LeafStep(l) \/ Unanswered(l) \/ SendFails(l)
             \/ ReUnanswered(l) \/ Abort(l)
    PROVE  /\ \A m \in Leaf \ {l} : leaf'[m] = leaf[m]
           /\ \/ leaf'[l].pc \in {"idle", "ask", "failed"} \/ leaf'[l].blind
              \/ /\ UNCHANGED asm /\ leaf'[l].mask = MaskFor(l)
                 /\ leaf'[l].i \in {Here(l), Here(l) + 1}
                 /\ leaf'[l].pc = "resend" => leaf'[l].i \notin MaskFor(l)
              \/ /\ Pc(l, "send") \/ Pc(l, "resend")
                 /\ leaf'[l] = [leaf[l] EXCEPT !.pc = "send", !.i = @ + 1]
                 /\ \/ UNCHANGED asm
                    \/ HandleChunk(l, leaf[l].tier, Here(l))
                    \/ Dropped(l, leaf[l].tier, Here(l))
<1> USE DEF gwVars
<1>1. leaf \in [Leaf -> Run] /\ leaf[l] \in Run
  BY DEF TransferInv, GatherType
<1>2. \A r : Become(l, r) => leaf'[l] = r /\ \A m \in Leaf \ {l} : leaf'[m] = leaf[m]
  BY <1>1 DEF Become
<1>i. Idle.pc = "idle"
  BY DEF Idle
<1>3. CASE Fetch(l)
  <2>1. [Idle EXCEPT !.pc = "ask", !.tier = want[l]].pc = "ask"
    BY DEF Idle
  <2> QED BY <1>2, <1>3, <2>1 DEF Fetch
<1>4. CASE Answered(l)
  <2> DEFINE r == [leaf[l] EXCEPT !.pc = "send", !.mask = MaskFor(l), !.of = TierFor(l)]
  <2>1. r.pc = "send" /\ r.mask = MaskFor(l) /\ r.i = Here(l)
    BY <1>1 DEF Run, Here
  <2>2. UNCHANGED asm /\ (Become(l, Idle) \/ Become(l, r))
    BY <1>4 DEF Answered, Succeed
  <2> HIDE DEF r
  <2> QED BY <1>2, <1>i, <2>1, <2>2
<1>5. CASE Unanswered(l) \/ ReUnanswered(l)
  <2>1. /\ [leaf[l] EXCEPT !.pc = "send", !.blind = TRUE].blind
        /\ [leaf[l] EXCEPT !.pc = "resend", !.blind = TRUE].blind
    BY <1>1 DEF Run
  <2> QED BY <1>2, <1>5, <2>1 DEF Unanswered, ReUnanswered
<1>6. CASE SendFails(l)
  <2>1. [leaf[l] EXCEPT !.pc = "failed"].pc = "failed"
    BY <1>1 DEF Run
  <2> QED BY <1>2, <1>6, <2>1 DEF SendFails
<1>7. CASE Abort(l) \/ Finish(l)
  BY <1>2, <1>7, <1>i DEF Abort, Finish, Succeed
<1>8. CASE Skip(l) \/ SendOk(l) \/ ResendOk(l)
  <2>1. Pc(l, "send") \/ Pc(l, "resend")
    BY <1>8 DEF Skip, SendOk, Sending, ResendOk
  <2>2. Become(l, [leaf[l] EXCEPT !.pc = "send", !.i = @ + 1])
    BY <1>8 DEF Skip, SendOk, ResendOk, Advance
  <2>3. \/ UNCHANGED asm
        \/ HandleChunk(l, leaf[l].tier, Here(l))
        \/ Dropped(l, leaf[l].tier, Here(l))
    BY <1>8 DEF Skip, SendOk, ResendOk, Received
  <2> QED BY <1>2, <2>1, <2>2, <2>3
<1>9. CASE ReAnswered(l)
  <2> DEFINE r == [leaf[l] EXCEPT !.mask = MaskFor(l), !.of = TierFor(l), !.blind = FALSE]
             skip == [r EXCEPT !.pc = "send", !.i = @ + 1]
             again == [r EXCEPT !.pc = "resend"]
  <2>1. /\ skip.pc = "send" /\ skip.mask = MaskFor(l) /\ skip.i = Here(l) + 1
        /\ again.pc = "resend" /\ again.mask = MaskFor(l) /\ again.i = Here(l)
    BY <1>1 DEF Run, Here
  <2>2. /\ UNCHANGED asm
        /\ \/ Become(l, Idle)
           \/ Become(l, skip)
           \/ Become(l, again) /\ Here(l) \notin MaskFor(l)
    BY <1>9 DEF ReAnswered, Succeed
  <2> HIDE DEF skip, again
  <2> QED BY <1>2, <1>i, <2>1, <2>2
<1> QED BY <1>3, <1>4, <1>5, <1>6, <1>7, <1>8, <1>9 DEF LeafStep

(* Knowledge is kept: whoever changes the assembly ends it, or makes it     *)
(* that of its own photo and moves past the chunk.                          *)
LEMMA KnowsStep ==
    ASSUME TransferInv, KnowsInv, [Next]_vars
    PROVE  KnowsInv'
<1> USE DEF gwVars
<1>t. leaf \in [Leaf -> Run] /\ asm \in Assembly \cup {None}
  BY DEF TransferInv, GatherType
<1>same. ASSUME NEW m \in Leaf, leaf'[m] = leaf[m],
                asm' = asm \/ asm' = None \/ asm'.ev # m,
                ~ leaf'[m].blind
         PROVE  /\ Pc(m, "send")' \/ Pc(m, "resend")' => Knows(m)'
                /\ Pc(m, "resend")' => (Here(m) \notin leaf[m].mask)'
  BY <1>same DEF KnowsInv, Knows, Pc, Here, Gathers
<1>1. CASE UNCHANGED leaf /\ (asm' = asm \/ asm' = None)
  BY <1>1, <1>same DEF KnowsInv
<1>2. ASSUME NEW l \in Leaf,
             Fetch(l) \/ LeafStep(l) \/ Unanswered(l) \/ SendFails(l)
               \/ ReUnanswered(l) \/ Abort(l)
      PROVE  KnowsInv'
  <2>1. asm' = asm \/ asm' = None \/ asm'.ev = l
    <3>1. \/ UNCHANGED asm
          \/ HandleChunk(l, leaf[l].tier, Here(l))
          \/ Dropped(l, leaf[l].tier, Here(l))
      BY <1>2 DEF Fetch, LeafStep, Answered, Skip, SendOk, Received, ReAnswered,
                  ResendOk, Finish, Unanswered, SendFails, ReUnanswered, Abort
    <3>2. ASSUME HandleChunk(l, leaf[l].tier, Here(l)) \/ Dropped(l, leaf[l].tier, Here(l))
          PROVE  asm' = asm \/ asm' = None \/ asm'.ev = l
      BY <3>2, ChunkGains
    <3> QED BY <3>1, <3>2
  <2>3. ASSUME NEW m \in Leaf \ {l}, ~ leaf'[m].blind
        PROVE  /\ Pc(m, "send")' \/ Pc(m, "resend")' => Knows(m)'
               /\ Pc(m, "resend")' => (Here(m) \notin leaf[m].mask)'
    BY <1>2, <1>same, <2>1, <2>3, LeafLearns
  <2>2. SUFFICES ASSUME ~ leaf'[l].blind
                 PROVE  /\ Pc(l, "send")' \/ Pc(l, "resend")' => Knows(l)'
                        /\ Pc(l, "resend")' => (Here(l) \notin leaf[l].mask)'
    BY <2>3 DEF KnowsInv
  <2>4. CASE leaf'[l].pc \in {"idle", "ask", "failed"}
    BY <2>4 DEF Pc
  <2>5. CASE /\ UNCHANGED asm /\ leaf'[l].mask = MaskFor(l)
             /\ leaf'[l].pc = "resend" => leaf'[l].i \notin MaskFor(l)
    BY <2>5 DEF Knows, Pc, Here, Gathers, MaskFor
  <2>6. CASE /\ Pc(l, "send") \/ Pc(l, "resend")
             /\ leaf'[l] = [leaf[l] EXCEPT !.pc = "send", !.i = @ + 1]
             /\ \/ UNCHANGED asm
                \/ HandleChunk(l, leaf[l].tier, Here(l))
                \/ Dropped(l, leaf[l].tier, Here(l))
    <3>1. leaf[l] \in Run /\ Here(l) \in Nat
      BY <1>t DEF Run, Here
    <3>2. /\ leaf'[l].pc = "send" /\ leaf'[l].i = Here(l) + 1
          /\ leaf'[l].mask = leaf[l].mask /\ leaf'[l].tier = leaf[l].tier
          /\ leaf'[l].blind = leaf[l].blind
      BY <2>6, <3>1 DEF Run, Here
    <3>3. Knows(l)
      <4>1. ~ leaf[l].blind
        BY <2>2, <3>2
      <4> QED BY <2>6, <4>1 DEF KnowsInv
    <3>4. \A j \in 0 .. Here(l) - 1 : j \in 0 .. Here(l)
      BY <3>1
    <3>5. Here(l)' - 1 = Here(l) /\ Here(l) \in 0 .. Here(l)
      BY <3>1, <3>2 DEF Here
    <3>6. \/ asm' = asm
          \/ asm' = None
          \/ asm' = [ev |-> l, tier |-> leaf[l].tier,
                     mask |-> (IF Gathers(l, leaf[l].tier) THEN asm.mask ELSE {}) \cup {Here(l)}]
      BY <2>6, ChunkGains
    <3>7. Knows(l)'
      <4>1. CASE asm' = asm
        BY <3>2, <3>3, <3>4, <3>5, <4>1 DEF Knows, Gathers
      <4>2. CASE asm' = None
        BY <4>2 DEF Knows, Gathers
      <4>3. CASE asm' = [ev |-> l, tier |-> leaf[l].tier,
                         mask |-> (IF Gathers(l, leaf[l].tier) THEN asm.mask ELSE {})
                                    \cup {Here(l)}]
        BY <3>2, <3>3, <3>4, <3>5, <4>3 DEF Knows
      <4> QED BY <3>6, <4>1, <4>2, <4>3
    <3>8. ~ Pc(l, "resend")'
      BY <3>2 DEF Pc
    <3> QED BY <3>7, <3>8
  <2> QED BY <1>2, <2>2, <2>4, <2>5, <2>6, LeafLearns
<1>3. CASE UNCHANGED vars \/ Stall \/ GatewayReboots
  BY <1>1, <1>3 DEF vars, Stall, GatewayReboots, AsmReset
<1>4. ASSUME NEW l \in Leaf,
             Upload(l) \/ GiveUp(l) \/ ClaimAges(l) \/ \E t \in Tier : Ask(l, t)
      PROVE  KnowsInv'
  BY <1>1, <1>4 DEF Upload, GiveUp, ClaimAges, Ask
<1> QED BY <1>2, <1>3, <1>4 DEF Next

(* A chunk the gateway has gathered is sent again only by a leaf that got  *)
(* no answer to "have?".                                                   *)
THEOREM NothingSentTwice == Spec => NoWaste
<1>1. Init => KnowsInv
  BY DEF Init, KnowsInv, Pc, Idle
<1>2. TransferInv /\ KnowsInv /\ [Next]_vars => (TransferInv /\ KnowsInv)'
  BY TransferStep, KnowsStep
<1>3. ASSUME TransferInv, KnowsInv, NEW l \in Leaf, Resends(l)
      PROVE  leaf[l].blind
  <2>1. Here(l) \in 0 .. 32
    BY <1>3 DEF TransferInv, GatherType, Run, Here
  <2>2. Here(l) \notin 0 .. Here(l) - 1
    BY <2>1
  <2> QED BY <1>3, <2>2 DEF Resends, Sending, KnowsInv, Knows
<1>4. TransferInv /\ KnowsInv /\ [Next]_vars
        => [\A l \in Leaf : Resends(l) => leaf[l].blind]_vars
  BY <1>3
<1> QED BY <1>1, <1>2, <1>4, InitTransfer, PTL DEF Spec, NoWaste
=============================================================================
