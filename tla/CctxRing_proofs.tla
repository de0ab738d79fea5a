--------------------------- MODULE CctxRing_proofs ---------------------------
(***************************************************************************)
(* Proofs about CctxRing, for any number of slots, requests, contexts and  *)
(* parameter sets.                                                         *)
(***************************************************************************)
EXTENDS CctxRing, FiniteSetTheorems, TLAPS

\* The empty ring and fresh requests satisfy the invariant.
LEMMA InitIInv == Init => IInv
<1> SUFFICES ASSUME Init PROVE IInv
  OBVIOUS
<1>1. TypeOK
  BY NullAssumption
     DEF Init, TypeOK, Slot, Ctx, NoCtx, EmptySlot, Phases
<1>2. Lifecycle
  BY DEF Init, Lifecycle, NoCtx
<1>3. Ownership
  BY NullAssumption DEF Init, Ownership, NoCtx, EmptySlot
<1>4. Contents
  BY DEF Init, Contents, EmptySlot
<1> QED
  BY <1>1, <1>2, <1>3, <1>4 DEF IInv

-----------------------------------------------------------------------------
(* Steps that touch neither the ring nor libzstd *)

\* A request admitted by the header filter owns nothing yet.
LEMMA OpenIInv ==
  ASSUME NEW r \in Requests, NEW p \in Profiles, IInv, Open(r, p)
  PROVE  IInv'
<1> USE NullAssumption
<1>1. TypeOK'
  BY DEF IInv, Open, TypeOK, Phases, libVars
<1>2. Lifecycle'
  BY DEF IInv, Open, TypeOK, Lifecycle, libVars
<1>3. Ownership'
  BY DEF IInv, Open, TypeOK, Lifecycle, Ownership, libVars, NoCtx
<1>4. Contents'
  BY DEF IInv, Open, TypeOK, Lifecycle, Contents, libVars
<1> QED
  BY <1>1, <1>2, <1>3, <1>4 DEF IInv

\* Entering a callback only names the running request.
LEMMA EnterIInv ==
  ASSUME NEW r \in Requests, IInv, Enter(r)
  PROVE  IInv'
<1> USE NullAssumption
<1>1. TypeOK'
  BY DEF IInv, Enter, TypeOK, libVars
<1>2. Lifecycle'
  BY DEF IInv, Enter, TypeOK, Lifecycle, libVars
<1>3. Ownership'
  BY DEF IInv, Enter, Ownership, libVars
<1>4. Contents'
  BY DEF IInv, Enter, Contents, libVars
<1> QED
  BY <1>1, <1>2, <1>3, <1>4 DEF IInv

\* Both failures of acquire_cctx() leave the ring as it was.
LEMMA AcquireFailsIInv ==
  ASSUME NEW r \in Requests, IInv, CleanupFails(r) \/ CreateFails(r)
  PROVE  IInv'
<1> USE NullAssumption
<1>1. TypeOK'
  BY DEF IInv, CleanupFails, CreateFails, Register, TypeOK, Phases, libVars
<1>2. Lifecycle'
  BY DEF IInv, CleanupFails, CreateFails, Register, TypeOK, Lifecycle, libVars
<1>3. Ownership'
  BY DEF IInv, CleanupFails, CreateFails, Ownership, libVars
<1>4. Contents'
  <2>1. UNCHANGED <<slots, ctx, libVars, exited>>
    BY DEF CleanupFails, CreateFails
  <2>2. \A q \in Requests : phase'[q] = "streaming" => phase[q] = "streaming"
    BY DEF IInv, TypeOK, CleanupFails, CreateFails
  <2> QED
    BY <2>1, <2>2 DEF IInv, Contents, libVars
<1> QED
  BY <1>1, <1>2, <1>3, <1>4 DEF IInv

-----------------------------------------------------------------------------
(* Acquisition *)

\* Lending the first idle slot with the request's key keeps ownership exclusive.
LEMMA BorrowIInv ==
  ASSUME NEW r \in Requests, IInv, Borrow(r)
  PROVE  IInv'
<1> USE NullAssumption, CacheableAssumption
<1>0. PICK s \in Slots :
        /\ IsFirst(s, Matching(Key(profile[r])))
        /\ slots' = [slots EXCEPT ![s].busy = TRUE]
        /\ ctx' = [ctx EXCEPT ![r] = [cctx |-> slots[s].cctx, lender |-> s]]
  BY DEF Borrow
<1>a. /\ ~slots[s].busy /\ slots[s].cctx # NULL
      /\ slots[s].profile = Key(profile[r])
  BY <1>0 DEF IsFirst, Matching
<1>b. slots[s].profile = profile[r]
  BY <1>a DEF Key, IInv, TypeOK, Slot
<1>c. slots' \in [Slots -> Slot]
  <2>1. slots[s] \in Slot
    BY DEF IInv, TypeOK
  <2>2. [slots[s] EXCEPT !.busy = TRUE] \in Slot
    BY <2>1 DEF Slot
  <2> QED
    BY <1>0, <2>2 DEF IInv, TypeOK
<1>d. \A t \in Slots :
        /\ slots'[t].cctx = slots[t].cctx
        /\ slots'[t].profile = slots[t].profile
        /\ ~slots'[t].busy => ~slots[t].busy
  BY <1>0 DEF IInv, TypeOK, Slot
<1>1. TypeOK'
  <2>1. ctx' \in [Requests -> Ctx]
    BY <1>0 DEF IInv, TypeOK, Slot, Ctx
  <2> QED
    BY <2>1, <1>c DEF IInv, Borrow, TypeOK, Phases, libVars, Register
<1>2. Lifecycle'
  BY <1>0, <1>a DEF IInv, Borrow, TypeOK, Lifecycle, libVars, Register, Ctx
<1>3. Ownership'
  BY <1>0, <1>a, <1>b
     DEF IInv, Borrow, TypeOK, Lifecycle, Ownership, libVars, NoCtx, Slot, Ctx
<1>4. Contents'
  <2>1. UNCHANGED <<libVars, exited>>
    BY DEF Borrow
  <2>2. \A q \in Requests :
          phase'[q] = "streaming" => phase[q] = "streaming" /\ ctx'[q] = ctx[q]
    BY <1>0 DEF IInv, TypeOK, Borrow
  <2>3. \A q \in Requests : ctx[q].cctx # NULL => ctx'[q] = ctx[q]
    BY <1>0 DEF IInv, TypeOK, Borrow, Lifecycle, NoCtx
  <2>4. \A t \in Slots :
          slots'[t].cctx # NULL =>
            /\ footprint[slots'[t].cctx] \subseteq {slots'[t].profile}
            /\ ~slots'[t].busy => session[slots'[t].cctx] = NULL
    BY <1>d DEF IInv, Contents
  <2>5. ~exited =>
          \A c \in live : \/ \E t \in Slots : slots'[t].cctx = c
                          \/ \E q \in Requests : ctx'[q].cctx = c
    BY <1>d, <2>3 DEF IInv, TypeOK, Contents
  <2> QED
    BY <2>1, <2>2, <2>4, <2>5 DEF IInv, Contents, libVars
<1> QED
  BY <1>1, <1>2, <1>3, <1>4 DEF IInv

\* A new context is in no slot and held by nobody, so seeding or keeping it
\* private keeps ownership exclusive.
LEMMA CreateIInv ==
  ASSUME NEW r \in Requests, NEW c \in Contexts, IInv, Create(r, c)
  PROVE  IInv'
<1> USE NullAssumption, CacheableAssumption
<1>a. ctx[r] = NoCtx /\ profile[r] \in Profiles /\ c # NULL /\ ~exited
  BY DEF IInv, Create, Lifecycle
<1>b. \A s \in Slots : slots[s].cctx # c
  BY <1>a DEF IInv, Create, Ownership
<1>c. \A q \in Requests : ctx[q].cctx # c
  BY <1>a DEF IInv, Create, Ownership, TypeOK, Ctx, Lifecycle
<1>1. CASE SeedSlot(r, c)
  <2>0. PICK s \in Slots :
          /\ Key(profile[r]) # INVALID
          /\ IsFirst(s, Seedable)
          /\ slots' = [slots EXCEPT ![s] = [cctx    |-> c,
                                            profile |-> Key(profile[r]),
                                            busy    |-> TRUE]]
          /\ ctx' = [ctx EXCEPT ![r] = [cctx |-> c, lender |-> s]]
    BY <1>1 DEF SeedSlot
  <2>a. ~slots[s].busy /\ slots[s].cctx = NULL
    BY <2>0 DEF IsFirst, Seedable
  <2>b. Key(profile[r]) = profile[r] /\ profile[r] \in Cacheable
    BY <2>0 DEF Key
  <2>1. TypeOK'
    <3>1. ctx' \in [Requests -> Ctx] /\ slots' \in [Slots -> Slot]
      BY <2>0, <2>b DEF IInv, TypeOK, Slot, Ctx
    <3> QED
      BY <3>1 DEF IInv, Create, TypeOK, Phases, Register
  <2>2. Lifecycle'
    BY <2>0, <1>a DEF IInv, Create, TypeOK, Lifecycle, Register, Ctx
  <2>3. Ownership'
    BY <2>0, <2>a, <2>b, <1>a, <1>b, <1>c
       DEF IInv, Create, TypeOK, Lifecycle, Ownership, NoCtx, Slot, Ctx
  <2>4. Contents'
    BY <2>0, <2>a, <1>a, <1>b, <1>c
       DEF IInv, Create, TypeOK, Lifecycle, Contents, NoCtx, Slot, Ctx
  <2> QED
    BY <2>1, <2>2, <2>3, <2>4 DEF IInv
<1>2. CASE KeepPrivate(r, c)
  <2>0. /\ ctx' = [ctx EXCEPT ![r] = [cctx |-> c, lender |-> NULL]]
        /\ slots' = slots
    BY <1>2 DEF KeepPrivate
  <2>1. TypeOK'
    <3>1. ctx' \in [Requests -> Ctx]
      BY <2>0 DEF IInv, TypeOK, Ctx
    <3> QED
      BY <3>1, <2>0 DEF IInv, Create, TypeOK, Phases, Register
  <2>2. Lifecycle'
    BY <2>0, <1>a DEF IInv, Create, TypeOK, Lifecycle, Register, Ctx
  <2>3. Ownership'
    BY <2>0, <1>a, <1>b, <1>c
       DEF IInv, Create, TypeOK, Lifecycle, Ownership, NoCtx, Slot, Ctx
  <2>4. Contents'
    BY <2>0, <1>a, <1>b, <1>c
       DEF IInv, Create, TypeOK, Lifecycle, Contents, NoCtx, Slot, Ctx
  <2> QED
    BY <2>1, <2>2, <2>3, <2>4 DEF IInv
<1> QED
  BY <1>1, <1>2 DEF Create

-----------------------------------------------------------------------------
(* Use of a held context *)

\* A request inside its callback holds an allocated context that no other
\* request holds, and that is in no slot but its lender's.
LEMMA HeldContext ==
  ASSUME NEW r \in Requests, IInv, worker = r,
         phase[r] \in {"acquired", "streaming", "finishing"}
  PROVE  /\ ~exited
         /\ ctx[r].cctx \in Contexts \cap live
         /\ \A q \in Requests : q # r => ctx[q].cctx # ctx[r].cctx
         /\ \A s \in Slots :
              slots[s].cctx = ctx[r].cctx =>
                /\ ctx[r].lender = s
                /\ slots[s].busy
                /\ slots[s].profile = profile[r]
<1> USE NullAssumption
<1>1. ~exited /\ ctx[r].cctx # NULL
  BY DEF IInv, Lifecycle
<1>2. ctx[r].cctx \in Contexts /\ ctx[r].lender \in Slots \cup {NULL}
  BY <1>1 DEF IInv, TypeOK, Ctx
<1>3. ctx[r].cctx \in live
  BY <1>1, <1>2 DEF IInv, Ownership
<1>4. \A q \in Requests : q # r => ctx[q].cctx # ctx[r].cctx
  BY <1>1 DEF IInv, Ownership
<1>5. \A s \in Slots :
        slots[s].cctx = ctx[r].cctx =>
          /\ ctx[r].lender = s
          /\ slots[s].busy
          /\ slots[s].profile = profile[r]
  BY <1>1 DEF IInv, Ownership
<1> QED
  BY <1>1, <1>2, <1>3, <1>4, <1>5

\* Configuration and compression change only the held context's contents:
\* what they must establish for the invariant to carry over.
LEMMA UseIInv ==
  ASSUME NEW r \in Requests, IInv, worker = r,
         phase[r] \in {"acquired", "streaming"},
         UNCHANGED <<slots, ctx, profile, cleanup, live, exited>>,
         TypeOK',
         touched' = (touched \/ ctx[r].cctx \notin live) \/ touched' = touched,
         phase'[r] \in {"streaming", "failing", "finishing"},
         \A q \in Requests : q # r => phase'[q] = phase[q],
         \A c \in Contexts :
           c # ctx[r].cctx =>
             /\ params'[c] = params[c]
             /\ session'[c] = session[c]
             /\ footprint'[c] = footprint[c],
         footprint'[ctx[r].cctx] \subseteq
           footprint[ctx[r].cctx] \cup {profile[r]},
         phase'[r] = "streaming" =>
           /\ params'[ctx[r].cctx] = r
           /\ session'[ctx[r].cctx] \in {r, NULL}
  PROVE  IInv'
<1> USE NullAssumption
<1>0. /\ ~exited
      /\ ctx[r].cctx \in Contexts \cap live
      /\ \A q \in Requests : q # r => ctx[q].cctx # ctx[r].cctx
      /\ \A s \in Slots :
           slots[s].cctx = ctx[r].cctx =>
             /\ ctx[r].lender = s
             /\ slots[s].busy
             /\ slots[s].profile = profile[r]
  BY HeldContext
<1>a. ctx[r].cctx # NULL /\ profile[r] \in Profiles
  BY DEF IInv, Lifecycle
<1>b. ~touched'
  BY <1>0 DEF IInv, Contents
<1>2. Lifecycle'
  BY <1>a, <1>0 DEF IInv, Lifecycle
<1>3. Ownership'
  BY DEF IInv, Ownership
<1>4. Contents'
  <2>1. \A s \in Slots :
          slots[s].cctx # NULL =>
            /\ footprint'[slots[s].cctx] \subseteq {slots[s].profile}
            /\ ~slots[s].busy => session'[slots[s].cctx] = NULL
    <3> TAKE s \in Slots
    <3> HAVE slots[s].cctx # NULL
    <3>1. slots[s].cctx \in Contexts
      BY DEF IInv, TypeOK, Slot
    <3>2. CASE slots[s].cctx = ctx[r].cctx
      BY <3>1, <3>2, <1>0 DEF IInv, Contents
    <3>3. CASE slots[s].cctx # ctx[r].cctx
      BY <3>1, <3>3 DEF IInv, Contents
    <3> QED
      BY <3>2, <3>3
  <2>2. \A q \in Requests :
          phase'[q] = "streaming" =>
            /\ params'[ctx[q].cctx] = q
            /\ session'[ctx[q].cctx] \in {q, NULL}
    <3> TAKE q \in Requests
    <3> HAVE phase'[q] = "streaming"
    <3>1. CASE q = r
      BY <3>1
    <3>2. CASE q # r
      <4>1. phase[q] = "streaming" /\ ctx[q].cctx # NULL
        BY <3>2 DEF IInv, Lifecycle
      <4>2. ctx[q].cctx \in Contexts /\ ctx[q].cctx # ctx[r].cctx
        BY <4>1, <3>2, <1>0 DEF IInv, TypeOK, Ctx
      <4> QED
        BY <4>1, <4>2, <1>0 DEF IInv, Contents
    <3> QED
      BY <3>1, <3>2
  <2> QED
    BY <2>1, <2>2, <1>b DEF IInv, Contents
<1> QED
  BY <1>2, <1>3, <1>4 DEF IInv

\* init_cctx() changes only the contents of the running request's context.
LEMMA ConfigureIInv ==
  ASSUME NEW r \in Requests, IInv, Configure(r) \/ ConfigureFails(r)
  PROVE  IInv'
<1> USE NullAssumption
<1>0. ctx[r].cctx \in Contexts
  BY HeldContext DEF Configure, ConfigureFails
<1>1. TypeOK'
  <2>1. touched' \in BOOLEAN
    BY DEF Configure, ConfigureFails, Touch
  <2>2. phase' \in [Requests -> Phases]
    BY DEF IInv, TypeOK, Configure, ConfigureFails, Phases
  <2>3. /\ params' \in [Contexts -> Requests \cup {NULL}]
        /\ session' \in [Contexts -> Requests \cup {NULL}]
    BY <1>0 DEF IInv, TypeOK, Configure, ConfigureFails
  <2> QED
    BY <2>1, <2>2, <2>3 DEF IInv, TypeOK, Configure, ConfigureFails
<1> QED
  BY <1>0, <1>1, UseIInv DEF IInv, TypeOK, Configure, ConfigureFails, Touch

\* A compress call changes only the contents of the running request's context.
LEMMA CompressIInv ==
  ASSUME NEW r \in Requests, IInv,
         Compress(r) \/ CompressLast(r) \/ CompressFails(r)
  PROVE  IInv'
<1> USE NullAssumption
<1>0. ctx[r].cctx \in Contexts /\ profile[r] \in Profiles
  BY HeldContext
     DEF Compress, CompressLast, CompressFails, IInv, Lifecycle
<1>1. TypeOK'
  <2>1. touched' \in BOOLEAN
    BY DEF IInv, TypeOK, Compress, CompressLast, CompressFails, Touch
  <2>2. /\ phase' \in [Requests -> Phases]
        /\ worker' \in Requests \cup {NULL}
    BY DEF IInv, TypeOK, Compress, CompressLast, CompressFails, Phases
  <2>3. session' \in [Contexts -> Requests \cup {NULL}]
    BY <1>0 DEF IInv, TypeOK, Compress, CompressLast, CompressFails
  <2>4. footprint' \in [Contexts -> SUBSET Profiles]
    BY <1>0 DEF IInv, TypeOK, Compress, CompressLast, CompressFails
  <2> QED
    BY <2>1, <2>2, <2>3, <2>4
       DEF IInv, TypeOK, Compress, CompressLast, CompressFails
<1>2. phase[r] = "streaming" /\ worker = r /\ params[ctx[r].cctx] = r
  BY HeldContext
     DEF IInv, Contents, Compress, CompressLast, CompressFails
<1>3. CASE Compress(r)
  BY <1>0, <1>1, <1>2, <1>3, UseIInv DEF IInv, TypeOK, Compress, Touch
<1>4. CASE CompressLast(r)
  BY <1>0, <1>1, <1>2, <1>4, UseIInv DEF IInv, TypeOK, CompressLast, Touch
<1>5. CASE CompressFails(r)
  BY <1>0, <1>1, <1>2, <1>5, UseIInv DEF IInv, TypeOK, CompressFails, Touch
<1> QED
  BY <1>3, <1>4, <1>5

-----------------------------------------------------------------------------
(* Return and exit *)

\* return_cctx() on its own, from either of its callers.
LEMMA ReturnEffect ==
  ASSUME NEW r \in Requests, IInv, ReturnCctx(r)
  PROVE  /\ ctx' = [ctx EXCEPT ![r] = NoCtx]
         /\ slots' \in [Slots -> Slot]
         /\ live' \subseteq live
         /\ live \subseteq live' \cup {ctx[r].cctx}
         /\ ctx[r].lender # NULL => live' = live
         /\ ctx[r].cctx = NULL => live' = live
         /\ touched' = FALSE
         /\ params' \in [Contexts -> Requests \cup {NULL}]
         /\ session' \in [Contexts -> Requests \cup {NULL}]
         /\ footprint' \in [Contexts -> SUBSET Profiles]
         /\ \A s \in Slots :
              /\ slots'[s].cctx = slots[s].cctx
              /\ slots'[s].profile = slots[s].profile
              /\ ctx[r].lender # s => slots'[s].busy = slots[s].busy
              /\ ctx[r].lender = s /\ ~exited => slots'[s].busy = FALSE
         /\ \A c \in Contexts :
              c # ctx[r].cctx =>
                /\ params'[c] = params[c]
                /\ session'[c] = session[c]
                /\ footprint'[c] = footprint[c]
         /\ ctx[r].lender # NULL /\ ~exited => session'[ctx[r].cctx] = NULL
         /\ \A c \in Contexts : footprint'[c] \subseteq footprint[c]
<1> USE NullAssumption
<1>t. /\ ctx[r].cctx \in Contexts \cup {NULL}
      /\ ctx[r].lender \in Slots \cup {NULL}
      /\ slots \in [Slots -> Slot]
      /\ touched = FALSE
  BY DEF IInv, TypeOK, Ctx, Contents
<1>p. /\ params \in [Contexts -> Requests \cup {NULL}]
      /\ session \in [Contexts -> Requests \cup {NULL}]
      /\ footprint \in [Contexts -> SUBSET Profiles]
  BY DEF IInv, TypeOK
<1>1. CASE ctx[r].cctx = NULL
  <2>1. ctx[r].lender = NULL
    BY <1>1 DEF IInv, Lifecycle
  <2> QED
    BY <1>1, <2>1, <1>t, <1>p DEF ReturnCctx, libVars
<1>2. CASE ctx[r].cctx # NULL /\ ctx[r].lender = NULL
  <2>1. ctx[r].cctx \in live
    BY <1>2 DEF IInv, Ownership
  <2>2. ctx' = [ctx EXCEPT ![r] = NoCtx] /\ slots' = slots /\ Free(ctx[r].cctx)
    BY <1>2 DEF ReturnCctx
  <2>3. touched' = FALSE
    BY <2>1, <2>2, <1>t DEF Free, Touch
  <2> QED
    BY <1>2, <2>2, <2>3, <1>t, <1>p DEF Free
<1>3. CASE ctx[r].cctx # NULL /\ ctx[r].lender # NULL
  <2> DEFINE s == ctx[r].lender
  <2>1. s \in Slots /\ ctx' = [ctx EXCEPT ![r] = NoCtx]
    BY <1>3, <1>t DEF ReturnCctx
  <2>2. CASE slots[s].cctx # NULL
    <3>1. ~exited
      BY <2>1, <2>2 DEF IInv, Ownership
    <3>2. slots[s].cctx = ctx[r].cctx /\ ctx[r].cctx \in live
      BY <1>3, <2>1, <2>2, <3>1 DEF IInv, Ownership
    <3>3. ResetSession(ctx[r].cctx) /\ slots' = [slots EXCEPT ![s].busy = FALSE]
      BY <1>3, <2>2 DEF ReturnCctx
    <3>4. touched' = FALSE
      BY <3>2, <3>3, <1>t DEF ResetSession, Touch
    <3>5. slots' \in [Slots -> Slot]
      <4>1. [slots[s] EXCEPT !.busy = FALSE] \in Slot
        BY <2>1, <1>t DEF Slot
      <4> QED
        BY <4>1, <3>3, <1>t
    <3>6. \A q \in Slots :
            /\ slots'[q].cctx = slots[q].cctx
            /\ slots'[q].profile = slots[q].profile
            /\ ctx[r].lender # q => slots'[q].busy = slots[q].busy
            /\ ctx[r].lender = q => slots'[q].busy = FALSE
      BY <3>3, <2>1, <1>t DEF Slot
    <3> QED
      BY <1>3, <2>1, <3>1, <3>3, <3>4, <3>5, <3>6, <1>t, <1>p DEF ResetSession
  <2>3. CASE slots[s].cctx = NULL
    <3>1. exited
      BY <1>3, <2>1, <2>3 DEF IInv, Ownership
    <3>2. UNCHANGED <<slots, libVars>>
      BY <1>3, <2>3 DEF ReturnCctx
    <3> QED
      BY <1>3, <2>1, <3>1, <3>2, <1>t, <1>p DEF libVars
  <2> QED
    BY <2>2, <2>3
<1> QED
  BY <1>1, <1>2, <1>3

\* A request that gives its context back, at the end of a callback or with
\* its pool, preserves the invariant.
LEMMA GiveBackIInv ==
  ASSUME NEW r \in Requests, IInv, ReturnCctx(r), TypeOK',
         worker' = NULL, exited' = exited,
         phase'[r] \in {"free", "done"},
         phase'[r] = "done" => profile'[r] \in Profiles,
         \A q \in Requests :
           q # r => /\ phase'[q] = phase[q]
                    /\ profile'[q] = profile[q]
                    /\ cleanup'[q] = cleanup[q]
  PROVE  IInv'
<1> USE NullAssumption
<1>1. /\ ctx' = [ctx EXCEPT ![r] = NoCtx]
      /\ live' \subseteq live
      /\ live \subseteq live' \cup {ctx[r].cctx}
      /\ ctx[r].lender # NULL => live' = live
      /\ ctx[r].cctx = NULL => live' = live
  BY ReturnEffect
<1>2. \A q \in Slots :
        /\ slots'[q].cctx = slots[q].cctx
        /\ slots'[q].profile = slots[q].profile
        /\ ctx[r].lender # q => slots'[q].busy = slots[q].busy
        /\ ctx[r].lender = q /\ ~exited => slots'[q].busy = FALSE
  BY ReturnEffect
<1>3. /\ ctx'[r] = NoCtx
      /\ \A q \in Requests : q # r => ctx'[q] = ctx[q]
  BY <1>1 DEF IInv, TypeOK
<1>4. \A q \in Requests :
        /\ ctx[q].cctx \in Contexts \cup {NULL}
        /\ ctx[q].lender \in Slots \cup {NULL}
        /\ ctx[q].lender # NULL => ctx[q].cctx # NULL
  BY DEF IInv, TypeOK, Ctx, Lifecycle
<1>5. \A q \in Slots :
        slots[q].cctx # NULL /\ slots[q].cctx = ctx[r].cctx /\ ~exited =>
          ctx[r].lender = q
  BY DEF IInv, Ownership
<1>6. Lifecycle'
  BY <1>3 DEF IInv, Lifecycle, NoCtx
<1>7. Ownership'
  <2>1. \A x, y \in Requests :
          x # y /\ ctx'[x].cctx # NULL => ctx'[x].cctx # ctx'[y].cctx
    BY <1>3 DEF IInv, Ownership, NoCtx
  <2>2. \A x \in Requests :
          ctx'[x].cctx # NULL /\ ctx'[x].lender = NULL => ctx'[x].cctx \in live'
    BY <1>1, <1>3 DEF IInv, Ownership, NoCtx
  <2>3. ~exited =>
          \A s \in Slots :
            /\ slots'[s].cctx # NULL => slots'[s].cctx \in live'
            /\ slots'[s].busy => \E q \in Requests : ctx'[q].lender = s
    BY <1>1, <1>2, <1>3, <1>4, <1>5 DEF IInv, Ownership
  <2>4. ~exited =>
          \A x \in Requests, s \in Slots :
            /\ ctx'[x].lender = s =>
                 /\ slots'[s].busy
                 /\ slots'[s].cctx = ctx'[x].cctx
                 /\ slots'[s].profile = profile'[x]
            /\ ctx'[x].cctx # NULL /\ ctx'[x].lender # s =>
                 ctx'[x].cctx # slots'[s].cctx
    <3> SUFFICES ASSUME ~exited, NEW x \in Requests, NEW s \in Slots
                 PROVE  /\ ctx'[x].lender = s =>
                             /\ slots'[s].busy
                             /\ slots'[s].cctx = ctx'[x].cctx
                             /\ slots'[s].profile = profile'[x]
                        /\ ctx'[x].cctx # NULL /\ ctx'[x].lender # s =>
                             ctx'[x].cctx # slots'[s].cctx
      OBVIOUS
    <3>1. CASE x = r
      BY <3>1, <1>3 DEF NoCtx
    <3>2. CASE x # r
      <4>1. ctx'[x] = ctx[x] /\ profile'[x] = profile[x]
        BY <3>2, <1>3
      <4>2. ctx[x].lender = s => ctx[r].lender # s
        BY <3>2, <1>4 DEF IInv, Ownership
      <4> QED
        BY <4>1, <4>2, <1>2 DEF IInv, Ownership
    <3> QED
      BY <3>1, <3>2
  <2> QED
    BY <2>1, <2>2, <2>3, <2>4, <1>2 DEF IInv, Ownership
<1>8. Contents'
  <2>1. ~touched'
    BY ReturnEffect
  <2>2. /\ \A c \in Contexts : footprint'[c] \subseteq footprint[c]
        /\ \A c \in Contexts :
             c # ctx[r].cctx => /\ params'[c] = params[c]
                                /\ session'[c] = session[c]
        /\ ctx[r].lender # NULL /\ ~exited => session'[ctx[r].cctx] = NULL
    BY ReturnEffect
  <2>3. \A s \in Slots :
          slots'[s].cctx # NULL =>
            /\ footprint'[slots'[s].cctx] \subseteq {slots'[s].profile}
            /\ ~slots'[s].busy => session'[slots'[s].cctx] = NULL
    <3> SUFFICES ASSUME NEW s \in Slots, slots[s].cctx # NULL
                 PROVE  /\ footprint'[slots[s].cctx] \subseteq {slots[s].profile}
                        /\ ~slots'[s].busy => session'[slots[s].cctx] = NULL
      BY <1>2
    <3>1. slots[s].cctx \in Contexts /\ ~exited
      BY DEF IInv, TypeOK, Slot, Ownership
    <3>2. footprint'[slots[s].cctx] \subseteq {slots[s].profile}
      BY <3>1, <2>2 DEF IInv, Contents
    <3>3. CASE slots[s].cctx = ctx[r].cctx
      BY <3>1, <3>2, <3>3, <2>2, <1>5
    <3>4. CASE slots[s].cctx # ctx[r].cctx
      <4>1. ctx[r].lender # s
        BY <3>1, <3>4 DEF IInv, Ownership
      <4> QED
        BY <4>1, <3>1, <3>2, <3>4, <2>2, <1>2 DEF IInv, Contents
    <3> QED
      BY <3>3, <3>4
  <2>4. \A q \in Requests :
          phase'[q] = "streaming" /\ ~exited =>
            /\ params'[ctx'[q].cctx] = q
            /\ session'[ctx'[q].cctx] \in {q, NULL}
    <3> SUFFICES ASSUME NEW q \in Requests, phase'[q] = "streaming", ~exited
                 PROVE  /\ params'[ctx'[q].cctx] = q
                        /\ session'[ctx'[q].cctx] \in {q, NULL}
      OBVIOUS
    <3>1. q # r /\ phase[q] = "streaming" /\ ctx'[q] = ctx[q]
      BY <1>3
    <3>2. ctx[q].cctx \in Contexts /\ ctx[q].cctx # ctx[r].cctx
      BY <3>1, <1>4 DEF IInv, Lifecycle, Ownership
    <3> QED
      BY <3>1, <3>2, <2>2 DEF IInv, Contents
  <2>5. ~exited =>
          \A c \in live' : \/ \E s \in Slots : slots'[s].cctx = c
                           \/ \E q \in Requests : ctx'[q].cctx = c
    <3> SUFFICES ASSUME ~exited, NEW c \in live'
                 PROVE  \/ \E s \in Slots : slots'[s].cctx = c
                        \/ \E q \in Requests : ctx'[q].cctx = c
      OBVIOUS
    <3>1. c \in live /\ c # NULL
      BY <1>1 DEF IInv, TypeOK
    <3>2. \/ \E s \in Slots : slots[s].cctx = c
          \/ \E q \in Requests : ctx[q].cctx = c
      BY <3>1 DEF IInv, Contents
    <3>3. c # ctx[r].cctx \/ ctx[r].lender # NULL
      BY ReturnEffect, <3>1 DEF IInv, ReturnCctx, Free
    <3>4. c = ctx[r].cctx => \E s \in Slots : slots[s].cctx = c
      BY <3>1, <3>3, <1>4 DEF IInv, Ownership
    <3> QED
      BY <3>2, <3>4, <1>2, <1>3
  <2> QED
    BY <2>1, <2>3, <2>4, <2>5 DEF Contents
<1> QED
  BY <1>6, <1>7, <1>8 DEF IInv

\* The early return at completion or failure preserves the invariant.
LEMMA LeaveIInv ==
  ASSUME NEW r \in Requests, IInv, Leave(r)
  PROVE  IInv'
<1>1. ReturnCctx(r) /\ phase[r] # "free"
  BY DEF Leave
<1>2. TypeOK'
  <2>1. ctx' \in [Requests -> Ctx]
    <3>1. NoCtx \in Ctx
      BY DEF NoCtx, Ctx
    <3> QED
      BY ReturnEffect, <1>1, <3>1 DEF IInv, TypeOK
  <2> QED
    BY ReturnEffect, <1>1, <2>1 DEF IInv, TypeOK, Leave, Phases
<1> QED
  BY <1>1, <1>2, GiveBackIInv DEF IInv, TypeOK, Lifecycle, Leave

\* The pool cleanup preserves the invariant, with or without exit_process().
LEMMA DestroyPoolIInv ==
  ASSUME NEW r \in Requests, IInv, DestroyPool(r)
  PROVE  IInv'
<1>1. ReturnCctx(r)
  <2>1. CASE cleanup[r]
    BY <2>1 DEF DestroyPool
  <2>2. CASE ~cleanup[r]
    <3>1. ctx[r].cctx = NULL
      BY <2>2 DEF IInv, Lifecycle
    <3> QED
      BY <2>2, <3>1 DEF DestroyPool, ReturnCctx
  <2> QED
    BY <2>1, <2>2
<1>2. TypeOK'
  <2>1. ctx' \in [Requests -> Ctx]
    <3>1. NoCtx \in Ctx
      BY DEF NoCtx, Ctx
    <3> QED
      BY ReturnEffect, <1>1, <3>1 DEF IInv, TypeOK
  <2> QED
    BY ReturnEffect, <1>1, <2>1 DEF IInv, TypeOK, DestroyPool, Phases
<1> QED
  BY <1>1, <1>2, GiveBackIInv DEF IInv, TypeOK, DestroyPool

\* exit_process() empties every slot; loans become dangling but unused.
LEMMA ExitProcessIInv ==
  ASSUME IInv, ExitProcess
  PROVE  IInv'
<1> USE NullAssumption
<1>0. \A s \in Slots : slots'[s].cctx = NULL /\ slots'[s].busy = FALSE
  BY DEF ExitProcess
<1>1. TypeOK'
  <2>1. slots' \in [Slots -> Slot]
    BY DEF IInv, TypeOK, Slot, ExitProcess
  <2>2. live' \subseteq Contexts /\ touched' \in BOOLEAN /\ exited' \in BOOLEAN
    BY DEF IInv, TypeOK, ExitProcess
  <2> QED
    BY <2>1, <2>2 DEF IInv, TypeOK, ExitProcess, reqVars
<1>2. Lifecycle'
  BY DEF IInv, Lifecycle, ExitProcess, reqVars
<1>3. Ownership'
  <2>1. \A x \in Requests :
          ctx[x].cctx # NULL /\ ctx[x].lender = NULL => ctx[x].cctx \in live'
    <3> TAKE x \in Requests
    <3> HAVE ctx[x].cctx # NULL /\ ctx[x].lender = NULL
    <3>1. \A s \in Slots : ctx[x].cctx # slots[s].cctx
      BY DEF IInv, Ownership, ExitProcess
    <3> QED
      BY <3>1 DEF IInv, Ownership, ExitProcess
  <2> QED
    BY <1>0, <2>1 DEF IInv, Ownership, ExitProcess
<1>4. Contents'
  <2>1. ~touched'
    BY DEF IInv, Ownership, Contents, ExitProcess
  <2> QED
    BY <1>0, <2>1 DEF Contents, ExitProcess
<1> QED
  BY <1>1, <1>2, <1>3, <1>4 DEF IInv

-----------------------------------------------------------------------------
(* The theorems *)

\* Every step preserves the invariant.
LEMMA NextIInv == IInv /\ [Next]_vars => IInv'
<1> SUFFICES ASSUME IInv, [Next]_vars PROVE IInv'
  OBVIOUS
<1>1. ASSUME NEW r \in Requests, NEW p \in Profiles, Open(r, p) PROVE IInv'
  BY <1>1, OpenIInv
<1>2. ASSUME NEW r \in Requests, Enter(r) PROVE IInv'
  BY <1>2, EnterIInv
<1>3. ASSUME NEW r \in Requests, Callback(r) PROVE IInv'
  BY <1>3, AcquireFailsIInv, BorrowIInv, CreateIInv, ConfigureIInv,
     CompressIInv, LeaveIInv
     DEF Callback
<1>4. ASSUME NEW r \in Requests, DestroyPool(r) PROVE IInv'
  BY <1>4, DestroyPoolIInv
<1>5. CASE ExitProcess
  BY <1>5, ExitProcessIInv
<1>6. CASE UNCHANGED vars
  BY <1>6 DEF IInv, TypeOK, Lifecycle, Ownership, Contents, vars
<1> QED
  BY <1>1, <1>2, <1>3, <1>4, <1>5, <1>6 DEF Next

\* The inductive invariant holds in every state of every behaviour.
THEOREM InvariantHolds == Spec => []IInv
BY InitIInv, NextIInv, PTL DEF Spec

\* Type correctness: in particular no slot is keyed by the INVALID sentinel.
THEOREM TypeCorrect == Spec => []TypeOK
BY InvariantHolds, PTL DEF IInv

\* acquire_cctx() never lends one context to two requests.
THEOREM LoansAreExclusive == Spec => []ExclusiveLoan
<1>1. IInv => ExclusiveLoan
  BY DEF IInv, Ownership, ExclusiveLoan
<1> QED
  BY <1>1, InvariantHolds, PTL

\* busy is set exactly while a request holds the slot's own context.
THEOREM BusyIsALoan == Spec => []BusyMeansLent
<1>1. IInv => BusyMeansLent
  BY DEF IInv, Ownership, BusyMeansLent
<1> QED
  BY <1>1, InvariantHolds, PTL

\* No order of early return, pool cleanup and exit_process() touches a freed
\* context.
THEOREM MemorySafe == Spec => []NoUseAfterFree
<1>1. IInv => NoUseAfterFree
  BY DEF IInv, Contents, NoUseAfterFree
<1> QED
  BY <1>1, InvariantHolds, PTL

\* A streaming request's context carries its own parameters and frame.
THEOREM ParametersAreOwn == Spec => []OwnParameters
<1>1. IInv => OwnParameters
  BY DEF IInv, Contents, OwnParameters
<1> QED
  BY <1>1, InvariantHolds, PTL

\* A cached workspace is never grown beyond its slot's parameter set.
THEOREM FootprintIsVetted == Spec => []FootprintVetted
<1>1. IInv => FootprintVetted
  BY DEF IInv, Contents, FootprintVetted
<1> QED
  BY <1>1, InvariantHolds, PTL

\* Every allocated context is reachable from the ring or a cleanup record.
THEOREM NothingStranded == Spec => []NoStrandedContext
<1>1. IInv => NoStrandedContext
  BY NullAssumption DEF IInv, TypeOK, Lifecycle, Contents, NoStrandedContext
<1> QED
  BY <1>1, InvariantHolds, PTL

\* An idle cached context holds no request's unfinished frame.
THEOREM IdleIsClean == Spec => []IdleContextsClean
<1>1. IInv => IdleContextsClean
  BY DEF IInv, Contents, IdleContextsClean
<1> QED
  BY <1>1, InvariantHolds, PTL

\* No step before exit_process() evicts, re-seeds or re-keys a seeded slot.
THEOREM SlotsAreStable == Spec => SlotNeverRebuilt
<1> DEFINE Stable ==
      \A s \in Slots :
        slots[s].cctx # NULL /\ ~exited' =>
          /\ slots'[s].cctx = slots[s].cctx
          /\ slots'[s].profile = slots[s].profile
<1>1. ASSUME IInv, Next PROVE Stable
  <2>1. ASSUME NEW r \in Requests, ReturnCctx(r) PROVE Stable
    BY <2>1, <1>1, ReturnEffect
  <2>2. ASSUME NEW r \in Requests, NEW c \in Contexts, Create(r, c) PROVE Stable
    <3>1. CASE SeedSlot(r, c)
      BY <3>1, <1>1 DEF SeedSlot, IsFirst, Seedable, IInv, TypeOK
    <3>2. CASE KeepPrivate(r, c)
      BY <3>2 DEF KeepPrivate
    <3> QED
      BY <3>1, <3>2, <2>2 DEF Create
  <2>3. ASSUME NEW r \in Requests, Borrow(r) PROVE Stable
    BY <2>3, <1>1 DEF Borrow, IInv, TypeOK, Slot
  <2>4. ASSUME NEW r \in Requests, Callback(r) PROVE Stable
    BY <2>1, <2>2, <2>3, <2>4
       DEF Callback, CleanupFails, CreateFails, Configure, ConfigureFails,
           Compress, CompressLast, CompressFails, Leave
  <2>5. ASSUME NEW r \in Requests, DestroyPool(r) PROVE Stable
    BY <2>1, <2>5 DEF DestroyPool
  <2>6. CASE ExitProcess
    BY <2>6 DEF ExitProcess
  <2> QED
    BY <1>1, <2>4, <2>5, <2>6 DEF Next, Open, Enter
<1>2. IInv /\ [Next]_vars => [Stable]_vars
  BY <1>1
<1> QED
  BY <1>2, InvariantHolds, PTL DEF Spec, SlotNeverRebuilt

-----------------------------------------------------------------------------
(* The ring implements CctxLending *)

\* At most one lease is kept per slot, whatever the slots hold.
LEMMA IdleBound ==
  ASSUME NEW f, NEW S \in SUBSET Slots
  PROVE  Cardinality({<<f[s].cctx, f[s].profile>> : s \in S}) <= NumSlots
<1> DEFINE I == {<<f[s].cctx, f[s].profile>> : s \in S}
           g == [s \in S |-> <<f[s].cctx, f[s].profile>>]
<1>1. NumSlots \in Nat /\ Slots = 1 .. NumSlots
  BY SlotsAssumption DEF Slots
<1>2. IsFiniteSet(1 .. NumSlots) /\ Cardinality(1 .. NumSlots) = NumSlots
  BY <1>1, FS_Interval
<1>3. IsFiniteSet(S) /\ Cardinality(S) <= NumSlots
  BY <1>1, <1>2, FS_Subset
<1>4. g \in Surjection(S, I)
  BY DEF Surjection
<1>5. IsFiniteSet(I) /\ Cardinality(I) <= Cardinality(S)
  BY <1>3, <1>4, FS_Surjection
<1>6. Cardinality(I) \in Nat /\ Cardinality(S) \in Nat
  BY <1>3, <1>5, FS_CardinalityType
<1> HIDE DEF I
<1>7. Cardinality(I) <= NumSlots
  BY <1>1, <1>3, <1>5, <1>6
<1> QED
  BY <1>7 DEF I

\* A step that changes neither the pointers nor the ring is a stutter.
LEMMA QuietStep ==
  ASSUME IInv, UNCHANGED <<slots, ctx>>,
         \A r \in Requests : ctx[r].cctx # NULL => profile'[r] = profile[r]
  PROVE  UNCHANGED <<HeldLeases, IdleLeases>>
BY DEF HeldLeases, IdleLeases, Idle

\* Borrowing a slot is a Grant of the idle lease it holds.
LEMMA BorrowGrants ==
  ASSUME NEW r \in Requests, IInv, Borrow(r)
  PROVE  \E l \in Lending!Leases : Lending!Grant(r, l)
<1> USE NullAssumption, CacheableAssumption
<1>0. PICK s \in Slots :
        /\ IsFirst(s, Matching(Key(profile[r])))
        /\ slots' = [slots EXCEPT ![s].busy = TRUE]
        /\ ctx' = [ctx EXCEPT ![r] = [cctx |-> slots[s].cctx, lender |-> s]]
  BY DEF Borrow
<1> DEFINE l == <<slots[s].cctx, profile[r]>>
<1>1. /\ ~slots[s].busy /\ slots[s].cctx \in Contexts
      /\ slots[s].profile = Key(profile[r])
      /\ profile' = profile /\ ~exited
  BY <1>0 DEF IsFirst, Matching, IInv, TypeOK, Slot, Borrow, Lifecycle
<1>2. slots[s].profile = profile[r]
  BY <1>1 DEF Key, IInv, TypeOK, Slot
<1>3. profile[r] \in Profiles /\ ctx[r] = NoCtx
  BY DEF IInv, Borrow, Lifecycle
<1>4. s \in Idle /\ l \in IdleLeases /\ l \in Lending!Leases
  BY <1>1, <1>2, <1>3 DEF Idle, IdleLeases, Lending!Leases
<1>5. HeldLeases[r] = NULL
  BY <1>3 DEF HeldLeases, NoCtx
<1>6. \A q \in Requests : HeldLeases[q] # NULL => HeldLeases[q][1] # l[1]
  <2> TAKE q \in Requests
  <2> HAVE HeldLeases[q] # NULL
  <2>1. ctx[q].cctx # NULL /\ HeldLeases[q][1] = ctx[q].cctx
    BY DEF HeldLeases
  <2>2. ctx[q].lender # s
    BY <1>1 DEF IInv, Ownership
  <2>3. ctx[q].cctx # slots[s].cctx
    BY <2>1, <2>2, <1>1 DEF IInv, Ownership
  <2> QED
    BY <2>1, <2>3
<1>7. HeldLeases' = [HeldLeases EXCEPT ![r] = l]
  BY <1>0, <1>1 DEF HeldLeases, IInv, TypeOK
<1>8. Idle' = Idle \ {s}
  BY <1>0, <1>1 DEF Idle, IInv, TypeOK, Slot
<1>9. IdleLeases' = IdleLeases \ {l}
  <2>1. \A t \in Slots : /\ slots'[t].cctx = slots[t].cctx
                         /\ slots'[t].profile = slots[t].profile
    BY <1>0 DEF IInv, TypeOK, Slot
  <2>2. \A t \in Idle : t # s => slots[t].cctx # slots[s].cctx
    BY <1>1 DEF IInv, Ownership, Idle
  <2> QED
    BY <1>2, <1>4, <1>8, <2>1, <2>2 DEF IdleLeases, Idle
<1>10. Lending!Grant(r, l)
  BY <1>4, <1>5, <1>6, <1>7, <1>9 DEF Lending!Grant
<1> QED
  BY <1>4, <1>10

\* Creating a context is a Grant of a context nobody owns or keeps.
LEMMA CreateGrants ==
  ASSUME NEW r \in Requests, NEW c \in Contexts, IInv, Create(r, c)
  PROVE  \E l \in Lending!Leases : Lending!Grant(r, l)
<1> USE NullAssumption
<1> DEFINE l == <<c, profile[r]>>
<1>1. /\ profile[r] \in Profiles /\ ctx[r] = NoCtx /\ profile' = profile
      /\ c \notin live /\ ~exited
  BY DEF IInv, Create, Lifecycle
<1>2. l \in Lending!Leases
  BY <1>1 DEF Lending!Leases
<1>3. HeldLeases[r] = NULL
  BY <1>1 DEF HeldLeases, NoCtx
<1>4. \A q \in Requests : HeldLeases[q] # NULL => HeldLeases[q][1] # l[1]
  <2> TAKE q \in Requests
  <2> HAVE HeldLeases[q] # NULL
  <2>1. ctx[q].cctx # NULL /\ HeldLeases[q][1] = ctx[q].cctx
    BY DEF HeldLeases
  <2>2. ctx[q].lender \in Slots \cup {NULL}
    BY DEF IInv, TypeOK, Ctx
  <2>3. ctx[q].cctx \in live
    BY <2>1, <2>2, <1>1 DEF IInv, Ownership
  <2> QED
    BY <2>1, <2>3, <1>1
<1>5. \A m \in IdleLeases : m[1] # l[1]
  BY <1>1 DEF IdleLeases, Idle, IInv, Ownership
<1>6. HeldLeases' = [HeldLeases EXCEPT ![r] = l]
  <2>1. ctx'[r].cctx = c /\ \A q \in Requests : q # r => ctx'[q] = ctx[q]
    BY DEF Create, SeedSlot, KeepPrivate, IInv, TypeOK
  <2> QED
    BY <1>1, <2>1 DEF HeldLeases
<1>7. IdleLeases' = IdleLeases
  <2>1. CASE SeedSlot(r, c)
    <3>1. Idle' = Idle /\ \A t \in Idle : slots'[t] = slots[t]
      BY <2>1 DEF SeedSlot, IsFirst, Seedable, Idle, IInv, TypeOK
    <3> QED
      BY <3>1 DEF IdleLeases
  <2>2. CASE KeepPrivate(r, c)
    BY <2>2 DEF KeepPrivate, IdleLeases, Idle
  <2> QED
    BY <2>1, <2>2 DEF Create
<1>8. l \notin IdleLeases
  BY <1>5
<1>9. Lending!Grant(r, l)
  BY <1>3, <1>4, <1>5, <1>6, <1>7, <1>8 DEF Lending!Grant
<1> QED
  BY <1>2, <1>9

\* Returning a context is GiveBack, or a stutter when there is none.
LEMMA ReturnGivesBack ==
  ASSUME NEW r \in Requests, IInv, ReturnCctx(r),
         exited' = exited,
         \A q \in Requests : q # r => profile'[q] = profile[q]
  PROVE  Lending!GiveBack(r) \/ UNCHANGED <<HeldLeases, IdleLeases>>
<1> USE NullAssumption
<1>1. ctx'[r] = NoCtx /\ \A q \in Requests : q # r => ctx'[q] = ctx[q]
  BY DEF ReturnCctx, IInv, TypeOK
<1>2. \A s \in Slots :
        /\ slots'[s].cctx = slots[s].cctx
        /\ slots'[s].profile = slots[s].profile
        /\ ctx[r].lender # s => slots'[s].busy = slots[s].busy
        /\ ctx[r].lender = s /\ ~exited => slots'[s].busy = FALSE
  BY ReturnEffect
<1>3. \A s \in Slots : slots[s].cctx # NULL => ~exited
  BY DEF IInv, Ownership
<1>4. CASE ctx[r].cctx = NULL
  <2>1. ctx[r].lender = NULL
    BY <1>4 DEF IInv, Lifecycle
  <2>2. HeldLeases' = HeldLeases
    BY <1>1, <1>4 DEF HeldLeases, NoCtx
  <2>3. Idle' = Idle
    BY <1>2, <2>1 DEF Idle
  <2>4. IdleLeases' = IdleLeases
    BY <1>2, <2>3 DEF IdleLeases, Idle
  <2> QED
    BY <2>2, <2>4
<1>5. CASE ctx[r].cctx # NULL
  <2>1. HeldLeases[r] = <<ctx[r].cctx, profile[r]>> /\ HeldLeases[r] # NULL
    <3>1. ctx[r].cctx \in Contexts /\ profile[r] \in Profiles
      <4>1. phase[r] # "free"
        BY <1>5 DEF IInv, Lifecycle, NoCtx
      <4> QED
        BY <1>5, <4>1 DEF IInv, TypeOK, Ctx, Lifecycle
    <3> QED
      BY <1>5, <3>1 DEF HeldLeases
  <2>2. HeldLeases' = [HeldLeases EXCEPT ![r] = NULL]
    <3>1. \A q \in Requests : q # r => HeldLeases'[q] = HeldLeases[q]
      BY <1>1 DEF HeldLeases
    <3>2. HeldLeases'[r] = NULL
      BY <1>1 DEF HeldLeases, NoCtx
    <3> QED
      BY <3>1, <3>2 DEF HeldLeases
  <2>3. Cardinality(IdleLeases') <= NumSlots
    <3>1. Idle' \in SUBSET Slots
      BY DEF Idle
    <3> QED
      BY <3>1, IdleBound DEF IdleLeases
  <2>4. IdleLeases' \in {IdleLeases, IdleLeases \cup {HeldLeases[r]}}
    <3>1. CASE ctx[r].lender = NULL \/ exited
      <4>1. Idle' = Idle
        BY <1>2, <1>3, <3>1 DEF Idle
      <4> QED
        BY <4>1, <1>2 DEF IdleLeases, Idle
    <3>2. CASE ctx[r].lender # NULL /\ ~exited
      <4>1. PICK s \in Slots : ctx[r].lender = s
        BY <3>2 DEF IInv, TypeOK, Ctx
      <4>2. slots[s].cctx = ctx[r].cctx /\ slots[s].profile = profile[r]
        BY <3>2, <4>1 DEF IInv, Ownership
      <4>3. Idle' = Idle \cup {s}
        BY <1>2, <1>5, <3>2, <4>1, <4>2 DEF Idle
      <4> QED
        BY <4>2, <4>3, <1>2, <2>1 DEF IdleLeases, Idle
    <3> QED
      BY <3>1, <3>2
  <2>5. Lending!GiveBack(r)
    BY <2>1, <2>2, <2>3, <2>4, Zenon
       DEF Lending!GiveBack, Lending!Cardinality, Cardinality
  <2> QED
    BY <2>5
<1> QED
  BY <1>4, <1>5

\* The ring implements the abstract lending service: initial states map to
\* initial states and every step to a Grant, a GiveBack, a Shutdown or a
\* stutter.
THEOREM RingImplementsLending == Spec => LendingRefined
<1>1. Init => Lending!Init
  BY DEF Init, Lending!Init, HeldLeases, IdleLeases, Idle, NoCtx, EmptySlot
<1>2. ASSUME IInv, IInv', [Next]_vars PROVE [Lending!Next]_(Lending!lendVars)
  <2>1. ASSUME NEW r \in Requests, ReturnCctx(r), exited' = exited,
               \A q \in Requests : q # r => profile'[q] = profile[q]
        PROVE  [Lending!Next]_(Lending!lendVars)
    BY <1>2, <2>1, ReturnGivesBack DEF IInv, Lending!Next, Lending!lendVars
  <2>2. ASSUME NEW r \in Requests, Borrow(r) \/ \E c \in Contexts : Create(r, c)
        PROVE  [Lending!Next]_(Lending!lendVars)
    BY <1>2, <2>2, BorrowGrants, CreateGrants DEF Lending!Next
  <2>3. ASSUME UNCHANGED <<slots, ctx>>,
               \A r \in Requests : ctx[r].cctx # NULL => profile'[r] = profile[r]
        PROVE  [Lending!Next]_(Lending!lendVars)
    BY <1>2, <2>3, QuietStep DEF Lending!lendVars
  <2>4. ASSUME NEW r \in Requests, NEW p \in Profiles, Open(r, p)
        PROVE  [Lending!Next]_(Lending!lendVars)
    <3>1. ctx[r].cctx = NULL
      BY <1>2, <2>4 DEF Open, IInv, Lifecycle, NoCtx
    <3> QED
      BY <1>2, <2>3, <2>4, <3>1 DEF Open, IInv, TypeOK
  <2>5. ASSUME NEW r \in Requests, Callback(r)
        PROVE  [Lending!Next]_(Lending!lendVars)
    <3>1. CASE Leave(r)
      BY <3>1, <2>1 DEF Leave
    <3>2. CASE Borrow(r) \/ \E c \in Contexts : Create(r, c)
      BY <3>2, <2>2
    <3> QED
      BY <2>3, <2>5, <3>1, <3>2
         DEF Callback, CleanupFails, CreateFails, Configure, ConfigureFails,
             Compress, CompressLast, CompressFails
  <2>6. ASSUME NEW r \in Requests, DestroyPool(r)
        PROVE  [Lending!Next]_(Lending!lendVars)
    <3>1. ReturnCctx(r)
      <4>1. ~cleanup[r] => ctx[r].cctx = NULL
        BY <1>2 DEF IInv, Lifecycle
      <4> QED
        BY <2>6, <4>1 DEF DestroyPool, ReturnCctx
    <3> QED
      BY <1>2, <2>1, <2>6, <3>1 DEF DestroyPool, IInv, TypeOK
  <2>7. CASE ExitProcess
    <3>1. HeldLeases' = HeldLeases
      BY <2>7 DEF ExitProcess, reqVars, HeldLeases
    <3>2. IdleLeases' = {}
      BY <2>7 DEF ExitProcess, IdleLeases, Idle
    <3> QED
      BY <3>1, <3>2 DEF Lending!Next, Lending!Shutdown
  <2>8. CASE UNCHANGED vars
    BY <2>3, <2>8 DEF vars
  <2>9. ASSUME NEW r \in Requests, Enter(r)
        PROVE  [Lending!Next]_(Lending!lendVars)
    BY <2>3, <2>9 DEF Enter
  <2> QED
    BY <1>2, <2>4, <2>5, <2>6, <2>7, <2>8, <2>9 DEF Next
<1> QED
  BY <1>1, <1>2, InvariantHolds, PTL DEF Spec, LendingRefined, Lending!Spec
=============================================================================
