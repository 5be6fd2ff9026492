--------------------------- MODULE DeliveryProofs ---------------------------
(***************************************************************************)
(* Proofs about what happens to a change between the pipeline and its      *)
(* destination: the delivery through composites and dead letters, the      *)
(* confirmations of the stream sink, and what each driver leaves at its    *)
(* destination.  They hold for every layout of the sinks and every number  *)
(* of attempts, for every number of callers, and for every number of       *)
(* items, contents and polls.                                              *)
(***************************************************************************)
EXTENDS Delivery, StreamConfirm, Sinks, TLAPS

\* The provers of a leaf that names none, in turn; the translation for Z3 may give up.
USE Z3T(30), ZenonT(20), SMTT(30), Z3T(31), SMTT(31)

-----------------------------------------------------------------------------
(* Delivery *)

DeliverFrames == [fn : {"Deliver"}, sink : Sink, pc : {"loop", "publish", "dlq"},
                  attempt : Nat, env : BOOLEAN]
PublishFrames == [fn : {"Publish"}, sink : Sink, next : Nat, dropped : BOOLEAN, env : BOOLEAN]
Frames == DeliverFrames \cup PublishFrames

\* A layout of sinks, valid or not.
AnyLayout == [children : [Sink -> Seq(Sink)], deadLetter : [Sink -> Sink \cup {NoSink}]]

DeliveryTypeOK ==
  /\ children \in [Sink -> Seq(Sink)] /\ deadLetter \in [Sink -> Sink \cup {NoSink}]
  /\ root \in Sink /\ held \subseteq Sink
  /\ stack \in Seq(Frames)

\* The sink whose Publish a Deliver calls.
Called(f) == IF f.pc = "dlq" THEN deadLetter[f.sink] ELSE f.sink

\* Frames are the calls the code makes: Deliver of the root at the bottom, Publish of a
\* composite called by a Deliver, Deliver of the current child called by a Publish.
FrameOK(f) ==
  /\ f.fn = "Deliver" /\ f.pc = "dlq" => deadLetter[f.sink] # NoSink
  /\ f.fn = "Publish" => IsComposite(f.sink) /\ f.next >= 1
Calls(f, g) ==
  \/ f.fn = "Deliver" /\ f.pc \in {"publish", "dlq"} /\ g.fn = "Publish" /\ g.sink = Called(f)
  \/ /\ f.fn = "Publish" /\ g.fn = "Deliver" /\ f.next > 1
     /\ f.next - 1 <= Len(children[f.sink]) /\ g.sink = children[f.sink][f.next - 1]

StackOK ==
  /\ stack # <<>> => stack[1].fn = "Deliver" /\ stack[1].sink = root
  /\ \A j \in 1 .. Len(stack) : FrameOK(stack[j])
  /\ \A j \in 1 .. Len(stack) - 1 : Calls(stack[j], stack[j + 1])

\* The children a Publish has gone through are secured unless it reports a drop.
DoneBefore(f, n) ==
  f.fn = "Publish" /\ ~f.dropped =>
    \A i \in 1 .. n - 1 : i <= Len(children[f.sink]) => children[f.sink][i] \in Secured
ChildrenOK ==
  /\ \A j \in 1 .. Len(stack) : DoneBefore(stack[j], stack[j].next - 1)
  /\ stack # <<>> /\ ret = "none" => DoneBefore(Top, Top.next)

\* What a call reports as done is secured.
ReturnOK ==
  /\ stack = <<>> => (ret \in {"success", "dlq"} => root \in Secured)
  /\ stack # <<>> /\ Top.fn = "Deliver" =>
       /\ ret \in {"none", "ok", "error"}
       /\ ret # "none" => Top.pc \in {"publish", "dlq"}
       /\ ret = "ok" => Called(Top) \in Secured
  /\ stack # <<>> /\ Top.fn = "Publish" =>
       /\ ret \in {"none", "success", "dlq", "dropped"}
       /\ ret # "none" => Top.next > 1 /\ Top.next - 1 <= Len(children[Top.sink])
       /\ ret \in {"success", "dlq"} => children[Top.sink][Top.next - 1] \in Secured

DeliveryInv == DeliveryTypeOK /\ StackOK /\ ChildrenOK /\ ReturnOK

-----------------------------------------------------------------------------
\* A stack without its top, with another top, and with a new one on it.
LEMMA PopProperties ==
  ASSUME NEW S, NEW s \in Seq(S), s # <<>>
  PROVE  /\ Len(s) \in Nat /\ Len(s) > 0 /\ Peek(s) = s[Len(s)] /\ Peek(s) \in S
         /\ Pop(s) \in Seq(S) /\ Len(Pop(s)) = Len(s) - 1
         /\ \A j \in 1 .. Len(s) - 1 : Pop(s)[j] = s[j]
<1>1. Len(s) \in Nat /\ Len(s) > 0 /\ Peek(s) = s[Len(s)] /\ Peek(s) \in S
  BY DEF Peek
<1>2. PICK k \in Nat : k = Len(s) - 1
  BY ONLY Z3T(30), ZenonT(20), SMTT(30), <1>1
<1>3. \A i \in 1 .. k : s[i] \in S
  BY <1>1, <1>2
<1>4. k <= Len(s)
  BY ONLY Z3T(30), ZenonT(20), SMTT(30), <1>1, <1>2
<1>5. /\ SubSeq(s, 1, k) \in Seq(S) /\ Len(SubSeq(s, 1, k)) = k
      /\ \A i \in 1 .. k : SubSeq(s, 1, k)[i] = s[i]
  BY ONLY Z3T(30), SMTT(30), <1>1, <1>3, <1>4, s \in Seq(S), k \in Nat
<1> QED
  BY ONLY Z3T(30), ZenonT(20), SMTT(30), <1>1, <1>2, <1>5 DEF Pop

LEMMA PushProperties ==
  ASSUME NEW S, NEW s \in Seq(S), NEW x \in S
  PROVE  /\ Append(s, x) \in Seq(S) /\ Len(Append(s, x)) = Len(s) + 1 /\ Append(s, x) # <<>>
         /\ Append(s, x)[Len(s) + 1] = x
         /\ \A j \in 1 .. Len(s) : Append(s, x)[j] = s[j]
OBVIOUS

LEMMA SetTopProperties ==
  ASSUME NEW S, NEW s \in Seq(S), s # <<>>, NEW x \in S
  PROVE  /\ Append(Pop(s), x) \in Seq(S) /\ Len(Append(Pop(s), x)) = Len(s)
         /\ Append(Pop(s), x) # <<>> /\ Append(Pop(s), x)[Len(s)] = x
         /\ \A j \in 1 .. Len(s) - 1 : Append(Pop(s), x)[j] = s[j]
<1>1. /\ Pop(s) \in Seq(S) /\ Len(Pop(s)) = Len(s) - 1 /\ Len(s) \in Nat /\ Len(s) > 0
      /\ \A j \in 1 .. Len(s) - 1 : Pop(s)[j] = s[j]
  BY PopProperties
<1> QED
  BY <1>1, PushProperties

-----------------------------------------------------------------------------
\* Whatever holds the change is secured, and so is what Secured says should be.
LEMMA SecuredClosed ==
  ASSUME held \subseteq Sink, NEW s \in Sink,
         s \in held \/ (IsComposite(s) /\ Range(children[s]) \subseteq Secured)
                    \/ deadLetter[s] \in Secured
  PROVE  s \in Secured
<1> SUFFICES ASSUME NEW S \in SUBSET Sink, held \subseteq S, ClosedUpward(S) PROVE s \in S
  BY DEF Secured
<1>1. Secured \subseteq S
  BY DEF Secured
<1>2. \/ s \in held \/ (IsComposite(s) /\ Range(children[s]) \subseteq S)
      \/ deadLetter[s] \in S
  BY ZenonT(60), <1>1
<1> QED
  BY ZenonT(60), <1>2 DEF ClosedUpward

\* The more sinks hold the change, the more are secured.
LEMMA SecuredGrows ==
  ASSUME UNCHANGED <<children, deadLetter>>, held \subseteq held'
  PROVE  Secured \subseteq Secured'
<1> SUFFICES ASSUME NEW s \in Secured, NEW S \in SUBSET Sink, held' \subseteq S, ClosedUpward(S)'
             PROVE  s \in S
  BY DEF Secured
<1>1. ClosedUpward(S)
  BY DEF ClosedUpward, IsComposite
<1>2. held \subseteq S
  OBVIOUS
<1> QED
  BY <1>1, <1>2 DEF Secured

\* What is done before a child is done before the one that precedes it.
LEMMA DoneBeforeLess ==
  ASSUME NEW f \in PublishFrames, DoneBefore(f, f.next)
  PROVE  DoneBefore(f, f.next - 1)
<1>1. f.next \in Nat
  BY DEF PublishFrames
<1>2. \A i \in 1 .. f.next - 1 - 1 : i \in 1 .. f.next - 1
  BY <1>1
<1> QED
  BY <1>2 DEF DoneBefore

\* The top of a stack as a frame of it.
LEMMA TopFacts ==
  ASSUME DeliveryInv, stack # <<>>
  PROVE  /\ Len(stack) \in Nat /\ Len(stack) > 0 /\ Len(stack) \in 1 .. Len(stack)
         /\ Top = stack[Len(stack)] /\ Top \in Frames /\ FrameOK(Top)
         /\ \A j \in 1 .. Len(stack) : stack[j] \in Frames
<1>1. stack \in Seq(Frames)
  BY DEF DeliveryInv, DeliveryTypeOK
<1>2. Len(stack) \in Nat /\ Len(stack) > 0 /\ Peek(stack) = stack[Len(stack)] /\ Peek(stack) \in Frames
  BY ONLY Z3T(30), ZenonT(20), SMTT(30), <1>1, PopProperties, stack # <<>>
<1>3. Len(stack) \in 1 .. Len(stack)
  BY ONLY Z3T(30), ZenonT(20), SMTT(30), <1>2
<1>4. \A j \in 1 .. Len(stack) : stack[j] \in Frames
  BY ONLY Z3T(30), ZenonT(20), SMTT(30), <1>1
<1>5. FrameOK(stack[Len(stack)])
  BY <1>3 DEF DeliveryInv, StackOK
<1> QED
  BY <1>2, <1>3, <1>4, <1>5 DEF Top

LEMMA FrameKinds ==
  ASSUME NEW f \in Frames
  PROVE  /\ f.fn = "Deliver" <=> f \in DeliverFrames
         /\ f.fn = "Publish" <=> f \in PublishFrames
         /\ f.fn \in {"Deliver", "Publish"} /\ f.sink \in Sink
BY DEF Frames, DeliverFrames, PublishFrames

\* What a step must establish of the new stack, in the setup and the secured sinks of
\* the old state: neither goes back.
LEMMA Assemble ==
  ASSUME DeliveryInv, UNCHANGED setup, held \subseteq held', held' \subseteq Sink,
         stack' \in Seq(Frames),
         stack' # <<>> => stack'[1].fn = "Deliver" /\ stack'[1].sink = root,
         \A j \in 1 .. Len(stack') : FrameOK(stack'[j]) /\ DoneBefore(stack'[j], stack'[j].next - 1),
         \A j \in 1 .. Len(stack') - 1 : Calls(stack'[j], stack'[j + 1]),
         stack' # <<>> /\ ret' = "none" => DoneBefore(Top', Top'.next)
  PROVE  (DeliveryTypeOK /\ StackOK /\ ChildrenOK)'
<1>0. UNCHANGED <<children, deadLetter, root>>
  BY DEF setup
<1>1. Secured \subseteq Secured'
  BY <1>0, SecuredGrows
<1>2. DeliveryTypeOK'
  BY <1>0 DEF DeliveryTypeOK, DeliveryInv
<1>4. StackOK'
  <2>1. \A j \in 1 .. Len(stack') : FrameOK(stack[j])'
    BY <1>0 DEF FrameOK, IsComposite
  <2>2. \A j \in 1 .. Len(stack') - 1 : Calls(stack[j], stack[j + 1])'
    BY <1>0 DEF Calls, Called
  <2> QED
    BY ZenonT(60), <1>0, <2>1, <2>2 DEF StackOK
<1>5. ChildrenOK'
  <2>1. \A j \in 1 .. Len(stack') : DoneBefore(stack[j], stack[j].next - 1)'
    BY <1>0, <1>1 DEF DoneBefore
  <2>2. stack' # <<>> /\ ret' = "none" => DoneBefore(Top, Top.next)'
    BY <1>0, <1>1 DEF DoneBefore
  <2> QED
    BY <2>1, <2>2 DEF ChildrenOK
<1> QED
  BY <1>2, <1>4, <1>5

-----------------------------------------------------------------------------
\* A frame goes on with its loop: the callers below it see nothing of that.
LEMMA AdvanceTop ==
  ASSUME DeliveryInv, stack # <<>>, NEW g \in Frames, g.fn = Top.fn, g.sink = Top.sink,
         FrameOK(g), DoneBefore(g, g.next), SetTop(g), ret' = "none",
         UNCHANGED <<setup, held>>
  PROVE  DeliveryInv'
<1>0. stack \in Seq(Frames) /\ held \subseteq Sink /\ held' = held /\ UNCHANGED setup
  BY DEF DeliveryInv, DeliveryTypeOK
<1>1. Len(stack) \in Nat /\ Len(stack) > 0 /\ Top = stack[Len(stack)]
  BY TopFacts
<1>2. PICK n \in Nat : n = Len(stack) /\ n > 0
  BY ONLY Z3T(30), ZenonT(20), SMTT(30), <1>1
<1>3. /\ stack' \in Seq(Frames) /\ Len(stack') = n /\ stack' # <<>> /\ stack'[n] = g
      /\ \A j \in 1 .. n - 1 : stack'[j] = stack[j]
  BY ONLY Z3T(30), SMTT(30), <1>0, <1>2, SetTop(g), stack # <<>>, g \in Frames, SetTopProperties DEF SetTop, Rest
<1>4. Top' = g
  BY <1>3 DEF Top, Peek
<1>5. \A j \in 1 .. n : stack'[j].fn = stack[j].fn /\ stack'[j].sink = stack[j].sink
  <2> TAKE j \in 1 .. n
  <2>1. j = n \/ j \in 1 .. n - 1
    BY ONLY Z3T(30), SMTT(30), <1>2, j \in 1 .. n
  <2> QED
    BY <1>1, <1>2, <1>3, <2>1
<1>6. stack'[1].fn = "Deliver" /\ stack'[1].sink = root
  BY <1>2, <1>5 DEF DeliveryInv, StackOK
<1>7. DoneBefore(g, g.next - 1)
  <2>1. CASE g.fn = "Publish"
    BY <2>1, FrameKinds, DoneBeforeLess
  <2>2. CASE g.fn # "Publish"
    BY <2>2 DEF DoneBefore
  <2> QED
    BY <2>1, <2>2
<1>8. \A j \in 1 .. n : FrameOK(stack'[j]) /\ DoneBefore(stack'[j], stack'[j].next - 1)
  <2> TAKE j \in 1 .. n
  <2>1. CASE j = n
    BY <1>3, <1>7, <2>1
  <2>2. CASE j # n
    <3>1. j \in 1 .. n - 1
      BY ONLY Z3T(30), SMTT(30), <1>2, <2>2, j \in 1 .. n
    <3> QED
      BY <1>2, <1>3, <3>1 DEF DeliveryInv, StackOK, ChildrenOK
  <2> QED
    BY <2>1, <2>2
<1>9. \A j \in 1 .. n - 1 : Calls(stack'[j], stack'[j + 1])
  <2> TAKE j \in 1 .. n - 1
  <2>1. Calls(stack[j], stack[j + 1])
    BY <1>2 DEF DeliveryInv, StackOK
  <2>2. j + 1 \in 1 .. n
    BY ONLY Z3T(30), SMTT(30), <1>2, j \in 1 .. n - 1
  <2>3. stack'[j] = stack[j] /\ stack'[j + 1].fn = stack[j + 1].fn
        /\ stack'[j + 1].sink = stack[j + 1].sink
    BY <1>3, <1>5, <2>2
  <2> QED
    BY <2>1, <2>3 DEF Calls
<1>10. (DeliveryTypeOK /\ StackOK /\ ChildrenOK)'
  BY <1>0, <1>3, <1>4, <1>6, <1>8, <1>9, Assemble
<1>11. ReturnOK'
  BY <1>3 DEF ReturnOK
<1> QED
  BY <1>10, <1>11 DEF DeliveryInv

\* A call returns: what remains of the stack is as it was, and its new top waits for
\* the value.
LEMMA PopKeeps ==
  ASSUME DeliveryInv, stack # <<>>, stack' = Rest, ret' # "none", UNCHANGED <<setup, held>>
  PROVE  /\ (DeliveryTypeOK /\ StackOK /\ ChildrenOK)'
         /\ Len(stack) = 1 => stack' = <<>>
         /\ Len(stack) # 1 => /\ stack' # <<>> /\ Top' = stack[Len(stack) - 1]
                              /\ Len(stack) - 1 \in 1 .. Len(stack)
                              /\ Calls(stack[Len(stack) - 1], Top)
<1>0. stack \in Seq(Frames) /\ held \subseteq Sink /\ held' = held /\ UNCHANGED setup
  BY DEF DeliveryInv, DeliveryTypeOK
<1>1. Len(stack) \in Nat /\ Len(stack) > 0 /\ Top = stack[Len(stack)]
  BY TopFacts
<1>2. PICK n \in Nat : n = Len(stack) /\ n > 0
  BY ONLY Z3T(30), ZenonT(20), SMTT(30), <1>1
<1>3. /\ stack' \in Seq(Frames) /\ Len(stack') = n - 1
      /\ \A j \in 1 .. n - 1 : stack'[j] = stack[j]
  BY ONLY Z3T(30), SMTT(30), <1>0, <1>2, stack' = Rest, stack # <<>>, PopProperties DEF Rest
<1>4. n = 1 => stack' = <<>>
  BY ONLY Z3T(30), ZenonT(20), SMTT(30), <1>3
<1>5. n # 1 => n - 1 \in 1 .. n - 1 /\ n - 1 \in 1 .. n /\ 1 \in 1 .. n - 1
  BY ONLY Z3T(30), ZenonT(20), SMTT(30), <1>2
<1>6. n # 1 => stack' # <<>> /\ Top' = stack[n - 1]
  <2> SUFFICES ASSUME n # 1 PROVE stack' # <<>> /\ Top' = stack[n - 1]
    OBVIOUS
  <2>1. stack' # <<>>
    BY ONLY Z3T(30), SMTT(30), <1>2, <1>3, n # 1
  <2> QED
    BY <1>3, <1>5, <2>1 DEF Top, Peek
<1>7. stack' # <<>> => stack'[1].fn = "Deliver" /\ stack'[1].sink = root
  <2> SUFFICES ASSUME stack' # <<>> PROVE stack'[1].fn = "Deliver" /\ stack'[1].sink = root
    OBVIOUS
  <2>1. 1 \in 1 .. n - 1
    BY <1>4, <1>5
  <2> QED
    BY <1>3, <2>1 DEF DeliveryInv, StackOK
<1>8. \A j \in 1 .. n - 1 : FrameOK(stack'[j]) /\ DoneBefore(stack'[j], stack'[j].next - 1)
  <2> TAKE j \in 1 .. n - 1
  <2>1. j \in 1 .. n
    BY ONLY Z3T(30), SMTT(30), <1>2, j \in 1 .. n - 1
  <2> QED
    BY <1>2, <1>3, <2>1 DEF DeliveryInv, StackOK, ChildrenOK
<1>9. \A j \in 1 .. n - 1 - 1 : Calls(stack'[j], stack'[j + 1])
  <2> TAKE j \in 1 .. n - 1 - 1
  <2>1. j \in 1 .. n - 1 /\ j + 1 \in 1 .. n - 1
    BY ONLY Z3T(30), SMTT(30), <1>2, j \in 1 .. n - 1 - 1
  <2> QED
    BY <1>2, <1>3, <2>1 DEF DeliveryInv, StackOK
<1>10. (DeliveryTypeOK /\ StackOK /\ ChildrenOK)'
  BY <1>0, <1>3, <1>7, <1>8, <1>9, Assemble
<1>11. n # 1 => Calls(stack[n - 1], Top)
  <2> SUFFICES ASSUME n # 1 PROVE Calls(stack[n - 1], Top)
    OBVIOUS
  <2>1. n - 1 + 1 = n
    BY ONLY Z3T(30), ZenonT(20), SMTT(30), <1>2
  <2> QED
    BY <1>1, <1>2, <1>5, <2>1 DEF DeliveryInv, StackOK
<1> QED
  BY <1>2, <1>4, <1>5, <1>6, <1>10, <1>11

\* Deliver returns to the composite that called it, or to the pipeline.
LEMMA DeliverReturns ==
  ASSUME DeliveryInv, stack # <<>>, Top.fn = "Deliver",
         NEW v \in {"success", "dlq", "dropped"}, v # "dropped" => Top.sink \in Secured,
         Return(v), UNCHANGED <<setup, held>>
  PROVE  DeliveryInv'
<1>0. stack' = Rest /\ ret' = v /\ v # "none"
  BY DEF Return
<1>1. UNCHANGED <<children, deadLetter, root>> /\ Secured \subseteq Secured'
  BY SecuredGrows DEF setup
<1>2. (DeliveryTypeOK /\ StackOK /\ ChildrenOK)'
  BY <1>0, PopKeeps
<1>3. CASE Len(stack) = 1
  <2>1. stack' = <<>>
    BY <1>0, <1>3, PopKeeps
  <2>2. Top.sink = root
    BY <1>3, TopFacts DEF DeliveryInv, StackOK
  <2>3. ReturnOK'
    BY <1>0, <1>1, <2>1, <2>2 DEF ReturnOK
  <2> QED
    BY <1>2, <2>3 DEF DeliveryInv
<1>4. CASE Len(stack) # 1
  <2> DEFINE f == stack[Len(stack) - 1]
  <2>1. stack' # <<>> /\ Top' = f /\ Calls(f, Top)
    BY <1>0, <1>4, PopKeeps
  <2> HIDE DEF f
  <2>2. /\ f.fn = "Publish" /\ f.next > 1 /\ f.next - 1 <= Len(children[f.sink])
        /\ Top.sink = children[f.sink][f.next - 1]
    BY <2>1 DEF Calls
  <2>3. ReturnOK'
    BY <1>0, <1>1, <2>1, <2>2 DEF ReturnOK
  <2> QED
    BY <1>2, <2>3 DEF DeliveryInv
<1> QED
  BY <1>3, <1>4

\* Do gives up on a frame.
LEMMA GiveUpKeeps ==
  ASSUME DeliveryInv, stack # <<>>, Top.fn = "Deliver", GiveUp(Top), UNCHANGED <<setup, held>>
  PROVE  DeliveryInv'
<1>0. Top \in DeliverFrames
  BY TopFacts, FrameKinds
<1>1. CASE IsComposite(Top.sink) \/ deadLetter[Top.sink] = NoSink
  BY <1>1, DeliverReturns DEF GiveUp
<1>2. CASE ~(IsComposite(Top.sink) \/ deadLetter[Top.sink] = NoSink)
  <2> DEFINE g == [Top EXCEPT !.pc = "dlq"]
  <2>1. g \in DeliverFrames /\ g.fn = "Deliver" /\ g.sink = Top.sink
    BY <1>0 DEF DeliverFrames
  <2>2. SetTop(g) /\ ret' = "none"
    BY <1>2 DEF GiveUp
  <2> HIDE DEF g
  <2>3. g \in Frames /\ FrameOK(g) /\ DoneBefore(g, g.next)
    BY <1>2, <2>1 DEF Frames, FrameOK, DoneBefore
  <2> QED
    BY <2>1, <2>2, <2>3, AdvanceTop
<1> QED
  BY <1>1, <1>2

LEMMA AttemptKeeps ==
  ASSUME DeliveryInv, Attempt
  PROVE  DeliveryInv'
<1>0. stack # <<>> /\ Top.fn = "Deliver" /\ UNCHANGED <<setup, held>> /\ Top \in DeliverFrames
  BY TopFacts, FrameKinds DEF Attempt, InDeliver, Running
<1>1. CASE done
  BY <1>0, <1>1, GiveUpKeeps DEF Attempt
<1>2. CASE ~done
  <2> DEFINE g == [Top EXCEPT !.pc = "publish"]
  <2>1. g \in DeliverFrames /\ g.fn = "Deliver" /\ g.sink = Top.sink /\ g.pc = "publish"
    BY <1>0 DEF DeliverFrames
  <2>2. SetTop(g) /\ ret' = "none"
    BY <1>2 DEF Attempt
  <2> HIDE DEF g
  <2>3. g \in Frames /\ FrameOK(g) /\ DoneBefore(g, g.next)
    BY <2>1 DEF Frames, FrameOK, DoneBefore
  <2> QED
    BY <1>0, <2>1, <2>2, <2>3, AdvanceTop
<1> QED
  BY <1>1, <1>2

LEMMA ConcludeKeeps ==
  ASSUME DeliveryInv, Conclude
  PROVE  DeliveryInv'
<1>0. /\ stack # <<>> /\ Top.fn = "Deliver" /\ UNCHANGED <<setup, held>> /\ Top \in DeliverFrames
      /\ ret \in {"ok", "error"} /\ held \subseteq Sink
  BY TopFacts, FrameKinds DEF Conclude, DeliveryInv, DeliveryTypeOK
<1>1. Top.sink \in Sink /\ Top.pc \in {"publish", "dlq"}
  BY <1>0 DEF DeliveryInv, ReturnOK, DeliverFrames
<1>2. ret = "ok" => Top.sink \in Secured
  <2> SUFFICES ASSUME ret = "ok" PROVE Top.sink \in Secured
    OBVIOUS
  <2>1. Called(Top) \in Secured
    BY <1>0 DEF DeliveryInv, ReturnOK
  <2>2. CASE Top.pc = "dlq"
    BY <1>0, <1>1, <2>1, <2>2, SecuredClosed DEF Called
  <2>3. CASE Top.pc # "dlq"
    BY <2>1, <2>3 DEF Called
  <2> QED
    BY <2>2, <2>3
<1>3. CASE Top.pc = "dlq"
  <2>1. Return(IF ret = "ok" THEN "dlq" ELSE "dropped")
    BY <1>3 DEF Conclude
  <2> QED
    BY <1>0, <1>2, <2>1, DeliverReturns
<1>4. CASE Top.pc = "publish" /\ ret = "ok"
  <2>1. Return("success")
    BY <1>4 DEF Conclude
  <2> QED
    BY <1>0, <1>2, <1>4, <2>1, DeliverReturns
<1>5. CASE Top.pc = "publish" /\ ret = "error"
  <2>1. \/ GiveUp(Top)
        \/ ret' = "none" /\ SetTop([Top EXCEPT !.pc = "loop", !.attempt = @ + 1])
    BY <1>5 DEF Conclude
  <2>2. CASE GiveUp(Top)
    BY <1>0, <2>2, GiveUpKeeps
  <2>3. CASE ret' = "none" /\ SetTop([Top EXCEPT !.pc = "loop", !.attempt = @ + 1])
    <3>0. Top.attempt + 1 \in Nat
      BY <1>0 DEF DeliverFrames
    <3> DEFINE a == Top.attempt + 1
               g == [Top EXCEPT !.pc = "loop", !.attempt = a]
    <3>1. SetTop(g) /\ ret' = "none"
      BY <2>3
    <3> HIDE DEF a
    <3>2. a \in Nat
      BY <3>0 DEF a
    <3>3. g \in DeliverFrames /\ g.fn = "Deliver" /\ g.sink = Top.sink /\ g.pc = "loop"
      BY ZenonT(60), <1>0, <3>2 DEF DeliverFrames
    <3> HIDE DEF g
    <3>4. g \in Frames /\ FrameOK(g) /\ DoneBefore(g, g.next)
      BY <3>3 DEF Frames, FrameOK, DoneBefore
    <3> QED
      BY <1>0, <3>1, <3>3, <3>4, AdvanceTop
  <2> QED
    BY <2>1, <2>2, <2>3
<1> QED
  BY <1>0, <1>1, <1>3, <1>4, <1>5

LEMMA ChildDoneKeeps ==
  ASSUME DeliveryInv, ChildDone
  PROVE  DeliveryInv'
<1> DEFINE g == [Top EXCEPT !.dropped = Dropped(Top, ret)]
<1>0. /\ stack # <<>> /\ Top.fn = "Publish" /\ UNCHANGED <<setup, held>> /\ Top \in PublishFrames
      /\ ret \in {"success", "dlq", "dropped"} /\ SetTop(g) /\ ret' = "none"
  BY TopFacts, FrameKinds DEF ChildDone
<1>1. /\ g \in PublishFrames /\ g.fn = "Publish" /\ g.sink = Top.sink /\ g.next = Top.next
      /\ g.dropped = (Top.dropped \/ ret = "dropped") /\ Top.next \in Nat
  BY ZenonT(60), <1>0 DEF PublishFrames, Dropped
<1> HIDE DEF g
<1>2. g \in Frames /\ FrameOK(g)
  <2>1. FrameOK(Top)
    BY <1>0, TopFacts
  <2>2. FrameOK(g)
    BY ONLY Z3T(30), ZenonT(20), SMTT(30), <1>0, <1>1, <2>1 DEF FrameOK
  <2> QED
    BY <1>1, <2>2 DEF Frames
<1>3. DoneBefore(g, g.next)
  <2> SUFFICES ASSUME ~g.dropped, NEW i \in 1 .. Top.next - 1, i <= Len(children[Top.sink])
               PROVE  children[Top.sink][i] \in Secured
    BY <1>1 DEF DoneBefore
  <2>1. ~Top.dropped /\ ret \in {"success", "dlq"}
    BY ZenonT(60), <1>0, <1>1
  <2>2. DoneBefore(Top, Top.next - 1) /\ children[Top.sink][Top.next - 1] \in Secured
    BY <1>0, <2>1, TopFacts DEF DeliveryInv, ChildrenOK, ReturnOK
  <2>3. i = Top.next - 1 \/ i \in 1 .. Top.next - 1 - 1
    BY ONLY Z3T(30), SMTT(30), <1>1, i \in 1 .. Top.next - 1
  <2> QED
    BY <1>0, <2>1, <2>2, <2>3 DEF DoneBefore
<1> QED
  BY <1>0, <1>1, <1>2, <1>3, AdvanceTop

\* A composite that reports success has had every child delivered.
LEMMA ExitCompositeKeeps ==
  ASSUME DeliveryInv, ExitComposite
  PROVE  DeliveryInv'
<1>0. /\ stack # <<>> /\ Top.fn = "Publish" /\ UNCHANGED <<setup, held>> /\ Top \in PublishFrames
      /\ ret = "none" /\ Top.next > Len(children[Top.sink]) /\ stack' = Rest
      /\ ret' = (IF Top.dropped THEN "error" ELSE "ok") /\ FrameOK(Top)
  BY TopFacts, FrameKinds DEF ExitComposite, Running, Return
<1>1. UNCHANGED <<children, deadLetter, root>> /\ Secured \subseteq Secured'
  BY <1>0, SecuredGrows DEF setup
<1>2. Top.sink \in Sink /\ Top.next \in Nat /\ children[Top.sink] \in Seq(Sink)
      /\ held \subseteq Sink /\ IsComposite(Top.sink)
  BY <1>0 DEF PublishFrames, DeliveryInv, DeliveryTypeOK, FrameOK
<1>3. ~Top.dropped => Top.sink \in Secured
  <2> SUFFICES ASSUME ~Top.dropped PROVE Top.sink \in Secured
    OBVIOUS
  <2>1. DoneBefore(Top, Top.next)
    BY <1>0 DEF DeliveryInv, ChildrenOK
  <2>2. \A i \in 1 .. Len(children[Top.sink]) : i \in 1 .. Top.next - 1 /\ i <= Len(children[Top.sink])
    BY ONLY Z3T(30), SMTT(30), <1>0, <1>2
  <2>3. \A i \in 1 .. Len(children[Top.sink]) : children[Top.sink][i] \in Secured
    BY <1>0, <2>1, <2>2 DEF DoneBefore
  <2>4. DOMAIN children[Top.sink] = 1 .. Len(children[Top.sink])
    BY ONLY Z3T(30), ZenonT(20), SMTT(30), <1>2
  <2>5. Range(children[Top.sink]) \subseteq Secured
    BY <2>3, <2>4 DEF Range
  <2> QED
    BY <1>2, <2>5, SecuredClosed
<1>4. (DeliveryTypeOK /\ StackOK /\ ChildrenOK)'
  BY <1>0, PopKeeps
<1>5. Len(stack) # 1
  BY <1>0, TopFacts DEF DeliveryInv, StackOK
<1>6. ReturnOK'
  <2> DEFINE f == stack[Len(stack) - 1]
  <2>1. stack' # <<>> /\ Top' = f /\ Calls(f, Top)
    BY <1>0, <1>5, PopKeeps
  <2> HIDE DEF f
  <2>2. f.fn = "Deliver" /\ f.pc \in {"publish", "dlq"} /\ Top.sink = Called(f)
    BY <1>0, <2>1 DEF Calls
  <2>3. ret' = "ok" => Called(Top)' \in Secured'
    BY <1>0, <1>1, <1>3, <2>1, <2>2 DEF Called
  <2> QED
    BY <1>0, <2>1, <2>2, <2>3 DEF ReturnOK
<1> QED
  BY <1>4, <1>6 DEF DeliveryInv

LEMMA DriverPublishKeeps ==
  ASSUME DeliveryInv, NEW took \in BOOLEAN, NEW acked \in BOOLEAN, DriverPublish(took, acked)
  PROVE  DeliveryInv'
<1>0. /\ stack # <<>> /\ ret = "none" /\ Top.fn = "Deliver" /\ Top.pc \in {"publish", "dlq"}
      /\ stack' = stack /\ UNCHANGED setup /\ (acked => took)
      /\ held' = (IF took THEN held \cup {Callee} ELSE held)
      /\ ret' = (IF acked THEN "ok" ELSE "error")
  BY DEF DriverPublish, InDeliver, Running
<1>1. /\ Top \in Frames /\ Top.sink \in Sink /\ FrameOK(Top) /\ Callee = Called(Top)
      /\ \A j \in 1 .. Len(stack) : stack[j] \in Frames
  BY <1>0, TopFacts, FrameKinds DEF Callee, Called
<1>2. Callee \in Sink
  <2>1. deadLetter[Top.sink] \in Sink \cup {NoSink}
    BY <1>1 DEF DeliveryInv, DeliveryTypeOK
  <2> QED
    BY <1>0, <1>1, <2>1 DEF Called, FrameOK
<1>3. held \subseteq held' /\ held' \subseteq Sink
  BY <1>0, <1>2 DEF DeliveryInv, DeliveryTypeOK
<1>4. Top' = Top /\ UNCHANGED <<children, deadLetter, root>>
  BY <1>0 DEF Top, setup
<1>5. (DeliveryTypeOK /\ StackOK /\ ChildrenOK)'
  BY <1>0, <1>3, Assemble DEF DeliveryInv, DeliveryTypeOK, StackOK, ChildrenOK
<1>6. acked => Called(Top)' \in Secured'
  <2> SUFFICES ASSUME acked PROVE Called(Top)' \in Secured'
    OBVIOUS
  <2>1. Called(Top)' = Callee /\ Callee \in held'
    BY <1>0, <1>1, <1>4 DEF Called
  <2>2. held' \subseteq Secured'
    BY <1>3 DEF Secured
  <2> QED
    BY <2>1, <2>2
<1>7. ReturnOK'
  BY <1>0, <1>4, <1>6 DEF ReturnOK
<1> QED
  BY <1>5, <1>7 DEF DeliveryInv

\* A call: the new frame has done nothing, the caller waits.
LEMMA EnterCompositeKeeps ==
  ASSUME DeliveryInv, EnterComposite
  PROVE  DeliveryInv'
<1> DEFINE g == PublishFrame(Callee, Envelope)
<1>0. /\ stack # <<>> /\ ret = "none" /\ Top.fn = "Deliver" /\ Top.pc \in {"publish", "dlq"}
      /\ IsComposite(Callee) /\ stack' = Append(stack, g) /\ UNCHANGED <<setup, held, ret>>
  BY DEF EnterComposite, InDeliver, Running
<1>1. /\ stack \in Seq(Frames) /\ held \subseteq Sink /\ held' = held
      /\ Top \in DeliverFrames /\ Top.sink \in Sink /\ FrameOK(Top) /\ Callee = Called(Top)
      /\ Top = stack[Len(stack)] /\ Len(stack) \in Nat /\ Len(stack) > 0
  BY <1>0, TopFacts, FrameKinds DEF Callee, Called, DeliveryInv, DeliveryTypeOK
<1>2. Callee \in Sink
  <2>1. deadLetter[Top.sink] \in Sink \cup {NoSink}
    BY <1>1 DEF DeliveryInv, DeliveryTypeOK
  <2> QED
    BY <1>0, <1>1, <2>1 DEF Called, FrameOK
<1>3. Envelope \in BOOLEAN
  BY <1>1 DEF Envelope, DeliverFrames
<1>4. /\ g \in PublishFrames /\ g.fn = "Publish" /\ g.sink = Callee /\ g.next = 1 /\ ~g.dropped
  BY <1>2, <1>3 DEF PublishFrame, PublishFrames
<1> HIDE DEF g
<1>5. PICK n \in Nat : n = Len(stack) /\ n > 0
  BY ONLY Z3T(30), ZenonT(20), SMTT(30), <1>1
<1>6. g \in Frames
  BY <1>4 DEF Frames
<1>7. /\ stack' \in Seq(Frames) /\ Len(stack') = n + 1 /\ stack' # <<>> /\ stack'[n + 1] = g
      /\ \A j \in 1 .. n : stack'[j] = stack[j]
  BY ONLY Z3T(30), SMTT(30), <1>0, <1>1, <1>5, <1>6, PushProperties
<1>8. Top' = g
  BY <1>7 DEF Top, Peek
<1>9. /\ FrameOK(g) /\ DoneBefore(g, g.next - 1) /\ DoneBefore(g, g.next)
  <2>1. 1 .. 1 - 1 = {} /\ 1 .. 1 - 1 - 1 = {}
    OBVIOUS
  <2> QED
    BY <1>0, <1>4, <2>1 DEF FrameOK, DoneBefore
<1>10. stack'[1].fn = "Deliver" /\ stack'[1].sink = root
  BY <1>0, <1>5, <1>7 DEF DeliveryInv, StackOK
<1>11. \A j \in 1 .. n + 1 : FrameOK(stack'[j]) /\ DoneBefore(stack'[j], stack'[j].next - 1)
  <2> TAKE j \in 1 .. n + 1
  <2>1. j = n + 1 \/ j \in 1 .. n
    BY ONLY Z3T(30), SMTT(30), <1>5, j \in 1 .. n + 1
  <2>2. CASE j = n + 1
    BY <1>7, <1>9, <2>2
  <2>3. CASE j \in 1 .. n
    BY <1>5, <1>7, <2>3 DEF DeliveryInv, StackOK, ChildrenOK
  <2> QED
    BY <2>1, <2>2, <2>3
<1>12. \A j \in 1 .. n + 1 - 1 : Calls(stack'[j], stack'[j + 1])
  <2> TAKE j \in 1 .. n + 1 - 1
  <2>1. j \in 1 .. n /\ (j = n \/ (j \in 1 .. n - 1 /\ j + 1 \in 1 .. n))
    BY ONLY Z3T(30), SMTT(30), <1>5, j \in 1 .. n + 1 - 1
  <2>2. CASE j = n
    <3>1. Calls(Top, g)
      BY <1>0, <1>1, <1>4 DEF Calls
    <3> QED
      BY <1>1, <1>5, <1>7, <2>1, <2>2, <3>1
  <2>3. CASE j \in 1 .. n - 1 /\ j + 1 \in 1 .. n
    BY <1>5, <1>7, <2>1, <2>3 DEF DeliveryInv, StackOK
  <2> QED
    BY <2>1, <2>2, <2>3
<1>13. (DeliveryTypeOK /\ StackOK /\ ChildrenOK)'
  BY <1>0, <1>1, <1>7, <1>8, <1>9, <1>10, <1>11, <1>12, Assemble
<1>14. ReturnOK'
  BY <1>0, <1>4, <1>7, <1>8 DEF ReturnOK
<1> QED
  BY <1>13, <1>14 DEF DeliveryInv

LEMMA NextChildKeeps ==
  ASSUME DeliveryInv, NextChild
  PROVE  DeliveryInv'
<1> DEFINE f == [Top EXCEPT !.next = Following(@)]
           g == DeliverFrame(children[Top.sink][Top.next], Top.env)
           low == Append(Pop(stack), f)
<1>0. /\ stack # <<>> /\ ret = "none" /\ Top.fn = "Publish"
      /\ Top.next <= Len(children[Top.sink]) /\ stack' = Append(Rest \o <<f>>, g)
      /\ UNCHANGED <<setup, held, ret>>
  BY DEF NextChild, Running
<1>1. /\ stack \in Seq(Frames) /\ held \subseteq Sink /\ held' = held
      /\ Top \in PublishFrames /\ Top \in Frames /\ FrameOK(Top)
      /\ Top = stack[Len(stack)] /\ Len(stack) \in Nat /\ Len(stack) > 0
  BY <1>0, TopFacts, FrameKinds DEF DeliveryInv, DeliveryTypeOK
<1>2. Top.sink \in Sink /\ Top.next \in Nat /\ Top.env \in BOOLEAN /\ Top.next >= 1
      /\ children[Top.sink] \in Seq(Sink)
  BY <1>0, <1>1 DEF PublishFrames, FrameOK, DeliveryInv, DeliveryTypeOK
<1>3. children[Top.sink][Top.next] \in Sink
  BY ONLY Z3T(30), SMTT(30), <1>0, <1>2
<1>4. g \in DeliverFrames /\ g.fn = "Deliver" /\ g.sink = children[Top.sink][Top.next] /\ g.pc = "loop"
  BY <1>2, <1>3 DEF DeliverFrame, DeliverFrames
<1>5. PICK m \in Nat : m = Top.next + 1
  BY ONLY Z3T(30), ZenonT(20), SMTT(30), <1>2
<1>6. /\ f \in PublishFrames /\ f.fn = "Publish" /\ f.sink = Top.sink /\ f.next = m
      /\ f.dropped = Top.dropped
  <2>1. f = [Top EXCEPT !.next = m]
    BY <1>5 DEF Following
  <2> HIDE DEF f
  <2> QED
    BY <1>0, <1>1, <2>1 DEF PublishFrames
<1> HIDE DEF f, g
<1>7. PICK n \in Nat : n = Len(stack) /\ n > 0
  BY ONLY Z3T(30), SMTT(30), <1>1
<1>8. f \in Frames /\ g \in Frames
  BY <1>4, <1>6 DEF Frames
<1>9. /\ low \in Seq(Frames) /\ Len(low) = n /\ low[n] = f
      /\ \A j \in 1 .. n - 1 : low[j] = stack[j]
  <2>1. stack \in Seq(Frames) /\ stack # <<>>
    BY <1>0, <1>1
  <2>2. /\ low \in Seq(Frames) /\ Len(low) = Len(stack) /\ low[Len(stack)] = f
        /\ \A j \in 1 .. Len(stack) - 1 : low[j] = stack[j]
    BY ONLY Z3T(30), SMTT(30), <1>8, <2>1, SetTopProperties DEF low
  <2> QED
    BY <1>7, <2>2
<1>10. stack' = Append(low, g)
  <2>1. Pop(stack) \in Seq(Frames)
    BY <1>0, <1>1, PopProperties
  <2>2. Pop(stack) \o <<f>> = Append(Pop(stack), f)
    BY ONLY Z3T(30), ZenonT(20), SMTT(30), <1>8, <2>1
  <2> QED
    BY <1>0, <2>2 DEF Rest
<1> HIDE DEF low
<1>11. /\ stack' \in Seq(Frames) /\ Len(stack') = n + 1 /\ stack' # <<>> /\ stack'[n + 1] = g
       /\ \A j \in 1 .. n : stack'[j] = low[j]
  BY ONLY Z3T(30), ZenonT(20), SMTT(30), <1>8, <1>9, <1>10, <1>7, PushProperties
<1>12. Top' = g
  BY <1>11 DEF Top, Peek
<1>13. \A j \in 1 .. n : low[j].fn = stack[j].fn /\ low[j].sink = stack[j].sink
  <2> TAKE j \in 1 .. n
  <2>1. j = n \/ j \in 1 .. n - 1
    BY ONLY Z3T(30), SMTT(30), <1>7, j \in 1 .. n
  <2> QED
    BY <1>0, <1>1, <1>6, <1>7, <1>9, <2>1
<1>14. stack'[1].fn = "Deliver" /\ stack'[1].sink = root
  <2>1. 1 \in 1 .. n
    BY ONLY Z3T(30), ZenonT(20), SMTT(30), <1>7
  <2>2. stack[1].fn = "Deliver" /\ stack[1].sink = root
    BY <1>0 DEF DeliveryInv, StackOK
  <2> QED
    BY <1>11, <1>13, <2>1, <2>2
<1>15. FrameOK(f) /\ DoneBefore(f, f.next - 1)
  <2>1. DoneBefore(Top, Top.next)
    BY <1>0 DEF DeliveryInv, ChildrenOK
  <2>2. f.next - 1 = Top.next /\ f.next >= 1
    BY ONLY Z3T(30), SMTT(30), <1>2, <1>5, <1>6
  <2>3. FrameOK(f)
    BY ONLY Z3T(30), SMTT(30), <1>0, <1>1, <1>6, <2>2 DEF FrameOK
  <2> QED
    BY <1>0, <1>6, <2>1, <2>2, <2>3 DEF DoneBefore
<1>16. FrameOK(g) /\ DoneBefore(g, g.next - 1) /\ DoneBefore(g, g.next)
  BY <1>4 DEF FrameOK, DoneBefore
<1>17. \A j \in 1 .. n + 1 : FrameOK(stack'[j]) /\ DoneBefore(stack'[j], stack'[j].next - 1)
  <2> TAKE j \in 1 .. n + 1
  <2>1. j = n + 1 \/ j = n \/ j \in 1 .. n - 1
    BY ONLY Z3T(30), SMTT(30), <1>7, j \in 1 .. n + 1
  <2>2. CASE j = n + 1
    BY <1>11, <1>16, <2>2
  <2>3. CASE j = n
    <3>1. n \in 1 .. n
      BY ONLY Z3T(30), SMTT(30), <1>7
    <3> QED
      BY <1>9, <1>11, <1>15, <2>3, <3>1
  <2>4. CASE j \in 1 .. n - 1
    <3>1. j \in 1 .. n
      BY ONLY Z3T(30), SMTT(30), <1>7, <2>4
    <3> QED
      BY <1>7, <1>9, <1>11, <2>4, <3>1 DEF DeliveryInv, StackOK, ChildrenOK
  <2> QED
    BY <2>1, <2>2, <2>3, <2>4
<1>18. \A j \in 1 .. n + 1 - 1 : Calls(stack'[j], stack'[j + 1])
  <2> TAKE j \in 1 .. n + 1 - 1
  <2>1. j \in 1 .. n /\ (j = n \/ (j \in 1 .. n - 1 /\ j + 1 \in 1 .. n))
    BY ONLY Z3T(30), SMTT(30), <1>7, j \in 1 .. n + 1 - 1
  <2>2. CASE j = n
    <3>1. f.next > 1 /\ f.next - 1 = Top.next
      BY ONLY Z3T(30), SMTT(30), <1>2, <1>5, <1>6
    <3>2. Calls(f, g)
      BY <1>0, <1>4, <1>6, <3>1 DEF Calls
    <3> QED
      BY <1>9, <1>11, <2>1, <2>2, <3>2
  <2>3. CASE j \in 1 .. n - 1 /\ j + 1 \in 1 .. n
    <3>1. Calls(stack[j], stack[j + 1])
      BY <1>7, <2>3 DEF DeliveryInv, StackOK
    <3>2. /\ stack'[j] = stack[j] /\ stack'[j + 1].fn = stack[j + 1].fn
          /\ stack'[j + 1].sink = stack[j + 1].sink
      BY <1>9, <1>11, <1>13, <2>1, <2>3
    <3> QED
      BY <3>1, <3>2 DEF Calls
  <2> QED
    BY <2>1, <2>2, <2>3
<1>19. (DeliveryTypeOK /\ StackOK /\ ChildrenOK)'
  BY <1>0, <1>1, <1>11, <1>12, <1>14, <1>16, <1>17, <1>18, Assemble
<1>20. ReturnOK'
  BY <1>0, <1>4, <1>11, <1>12 DEF ReturnOK
<1> QED
  BY <1>19, <1>20 DEF DeliveryInv

-----------------------------------------------------------------------------
LEMMA InitDelivery ==
  ASSUME NEW layouts \in SUBSET AnyLayout, DeliveryInit(layouts)
  PROVE  DeliveryInv
<1> DEFINE g == DeliverFrame(root, FALSE)
<1>1. /\ children \in [Sink -> Seq(Sink)] /\ deadLetter \in [Sink -> Sink \cup {NoSink}]
      /\ root \in Sink /\ held \subseteq Sink /\ stack = <<g>> /\ ret = "none"
  BY DEF DeliveryInit, AnyLayout
<1>2. g \in DeliverFrames /\ g.fn = "Deliver" /\ g.sink = root /\ g.pc = "loop"
  BY <1>1 DEF DeliverFrame, DeliverFrames
<1> HIDE DEF g
<1>3. /\ stack \in Seq(Frames) /\ Len(stack) = 1 /\ stack[1] = g /\ stack # <<>> /\ Top = g
  BY <1>1, <1>2 DEF Frames, Top, Peek
<1>4. DeliveryTypeOK
  BY <1>1, <1>3 DEF DeliveryTypeOK
<1>5. StackOK
  BY <1>2, <1>3 DEF StackOK, FrameOK
<1>6. ChildrenOK
  BY <1>2, <1>3 DEF ChildrenOK, DoneBefore
<1>7. ReturnOK
  BY <1>1, <1>2, <1>3 DEF ReturnOK
<1> QED
  BY <1>4, <1>5, <1>6, <1>7 DEF DeliveryInv

LEMMA NextDelivery ==
  ASSUME DeliveryInv, [DeliveryNext]_deliveryVars
  PROVE  DeliveryInv'
<1>1. CASE DeliveryStep
  BY <1>1, AttemptKeeps, EnterCompositeKeeps, ConcludeKeeps, NextChildKeeps, ChildDoneKeeps,
     ExitCompositeKeeps DEF DeliveryStep
<1>2. CASE DriverReturns
  BY <1>2, DriverPublishKeeps DEF DriverReturns
<1>3. ASSUME UNCHANGED <<setup, stack, ret, held>> PROVE DeliveryInv'
  <2>1. UNCHANGED <<children, deadLetter, root, Top, Secured>>
    BY <1>3 DEF setup, Top, Secured, ClosedUpward, IsComposite
  <2>2. (DeliveryTypeOK /\ StackOK /\ ChildrenOK)'
    <3>1. /\ stack \in Seq(Frames) /\ held \subseteq Sink
          /\ stack # <<>> => stack[1].fn = "Deliver" /\ stack[1].sink = root
          /\ \A j \in 1 .. Len(stack) : FrameOK(stack[j]) /\ DoneBefore(stack[j], stack[j].next - 1)
          /\ \A j \in 1 .. Len(stack) - 1 : Calls(stack[j], stack[j + 1])
          /\ stack # <<>> /\ ret = "none" => DoneBefore(Top, Top.next)
      BY ZenonT(60) DEF DeliveryInv, DeliveryTypeOK, StackOK, ChildrenOK
    <3> QED
      BY <1>3, <2>1, <3>1, Assemble
  <2>3. ReturnOK'
    BY <1>3, <2>1 DEF DeliveryInv, ReturnOK, Called
  <2> QED
    BY <2>2, <2>3 DEF DeliveryInv
<1>4. CASE ContextDone
  BY <1>3, <1>4 DEF ContextDone
<1>5. CASE UNCHANGED deliveryVars
  BY <1>3, <1>5 DEF deliveryVars, setup
<1> QED
  BY <1>1, <1>2, <1>4, <1>5 DEF DeliveryNext

\* For any layout of composites and dead letters, validated or not, and any number of
\* attempts: RetryingPublisher.Deliver reports success or dlq only of a change that is
\* in the hands of every sink below, or of its dead letter.
THEOREM DeliveryLosesNothing ==
  ASSUME NEW layouts \in SUBSET AnyLayout
  PROVE  DeliveryInit(layouts) /\ [][DeliveryNext]_deliveryVars => []NothingLostSilently
<1>1. DeliveryInit(layouts) => DeliveryInv
  BY InitDelivery
<1>2. DeliveryInv /\ [DeliveryNext]_deliveryVars => DeliveryInv'
  BY NextDelivery
<1>3. DeliveryInv => NothingLostSilently
  BY DEF DeliveryInv, ReturnOK, NothingLostSilently, Returned
<1> QED
  BY <1>1, <1>2, <1>3, PTL

-----------------------------------------------------------------------------
\* A path and the first m frames of the stack.
Agree(a, m) == \A k \in 1 .. m : a[k] = stack[k].sink

\* The path went through a child that the m-th frame, a composite, has done with.
PastChild(a, m) ==
  /\ stack[m].fn = "Publish" /\ ~stack[m].env /\ Agree(a, m)
  /\ \E i \in DOMAIN children[stack[m].sink] :
       /\ a[m + 1] = children[stack[m].sink][i] /\ i < stack[m].next
       /\ m < Len(stack) => i < stack[m].next - 1

\* The path goes through the Deliver on top, which is about to return.
PastTop(a) ==
  /\ Top.fn = "Deliver" /\ Top.pc = "publish" /\ ~Top.env /\ Agree(a, Len(stack))
  /\ ret = "ok" \/ (ret = "error" /\ IsComposite(Top.sink))

Past(a) == PastTop(a) \/ \E m \in 1 .. Len(stack) : PastChild(a, m)

\* A message is an envelope from the dead letter on that it was made for.
Wraps(f) == f.env \/ (f.fn = "Deliver" /\ f.pc = "dlq")
EnvOK ==
  /\ \A j \in 1 .. Len(stack) - 1 : stack[j + 1].env = Wraps(stack[j])
  /\ \A j \in 1 .. Len(stack) : stack[j].fn = "Deliver" => stack[j].attempt >= 1

PathInv ==
  /\ ValidChildren(children) /\ sent \in Seq(Seq(Sink)) /\ EnvOK
  /\ stack # <<>> => \A k \in DOMAIN sent : Past(sent[k])
  /\ IsInjective(sent)

-----------------------------------------------------------------------------
\* What a step must establish: what the stack has gone past, it stays past.
LEMMA PathsKept ==
  ASSUME PathInv, stack # <<>>, UNCHANGED <<children, sent>>, EnvOK',
         stack' # <<>> => \A a : Past(a) => Past(a)'
  PROVE  PathInv'
<1>1. ASSUME stack' # <<>>, NEW k \in DOMAIN sent
      PROVE  Past(sent[k])'
  <2>1. Past(sent[k])
    BY ZenonT(60) DEF PathInv
  <2>2. PICK a : a = sent[k] /\ a = sent[k]'
    BY ZenonT(60)
  <2> QED
    BY ZenonT(60), <1>1, <2>1, <2>2
<1>2. ValidChildren(children)' /\ (sent \in Seq(Seq(Sink)))' /\ IsInjective(sent)'
  BY ZenonT(60) DEF PathInv
<1> QED
  BY ZenonT(60), <1>1, <1>2 DEF PathInv

\* A frame that goes on after one of its children is still past the children before.
LEMMA ChildStays ==
  ASSUME DeliveryInv, children' = children, NEW a, NEW m \in 1 .. Len(stack), PastChild(a, m),
         \A k \in 1 .. m : stack'[k].sink = stack[k].sink,
         stack'[m].fn = stack[m].fn, stack'[m].env = stack[m].env,
         \/ stack'[m].next = stack[m].next /\ (m < Len(stack)' => m < Len(stack))
         \/ stack'[m].next = stack[m].next + 1
  PROVE  PastChild(a, m)'
<1>1. stack \in Seq(Frames) /\ children \in [Sink -> Seq(Sink)]
  BY ZenonT(60) DEF DeliveryInv, DeliveryTypeOK
<1>2. Len(stack) \in Nat /\ stack[m] \in Frames /\ m \in Nat /\ m \in 1 .. m
  BY ONLY Z3T(30), SMTT(30), <1>1, m \in 1 .. Len(stack)
<1>3. stack[m].fn = "Publish" /\ ~stack[m].env /\ Agree(a, m)
  BY ZenonT(60) DEF PastChild
<1>4. stack[m].next \in Nat /\ stack[m].sink \in Sink
  <2>1. stack[m] \in PublishFrames
    BY ZenonT(60), <1>2, <1>3, FrameKinds
  <2> QED
    BY <2>1 DEF PublishFrames
<1> DEFINE kids == children[stack[m].sink]
<1>5. PICK i \in DOMAIN kids :
        /\ a[m + 1] = kids[i] /\ i < stack[m].next
        /\ m < Len(stack) => i < stack[m].next - 1
  BY ZenonT(60) DEF PastChild
<1>6. kids \in Seq(Sink) /\ kids = children'[stack'[m].sink]
  BY ZenonT(60), <1>1, <1>2, <1>4
<1> HIDE DEF kids
<1>7. i \in Nat
  BY ONLY Z3T(30), SMTT(30), <1>6, i \in DOMAIN kids
<1>8. i < stack'[m].next /\ (m < Len(stack)' => i < stack'[m].next - 1)
  <2>1. CASE stack'[m].next = stack[m].next /\ (m < Len(stack)' => m < Len(stack))
    BY ZenonT(60), <1>5, <2>1
  <2>2. CASE stack'[m].next = stack[m].next + 1
    <3>1. i < stack'[m].next /\ i < stack'[m].next - 1
      BY ONLY Z3T(30), SMTT(30), <1>4, <1>5, <1>7, <2>2
    <3> QED
      BY ZenonT(60), <3>1
  <2> QED
    BY ZenonT(60), <2>1, <2>2
<1>9. Agree(a, m)'
  BY ZenonT(60), <1>3 DEF Agree
<1>10. \E j \in DOMAIN children'[stack'[m].sink] :
         /\ a[m + 1] = children'[stack'[m].sink][j] /\ j < stack'[m].next
         /\ m < Len(stack)' => j < stack'[m].next - 1
  BY ZenonT(60), <1>5, <1>6, <1>8
<1> QED
  BY ZenonT(60), <1>3, <1>9, <1>10 DEF PastChild

\* A Deliver on top is past no child, and a Publish on top does not return.
LEMMA BelowTop ==
  ASSUME DeliveryInv, stack # <<>>
  PROVE  /\ Top.fn = "Deliver" => \A a : \A m \in 1 .. Len(stack) : PastChild(a, m) =>
                                     m # Len(stack) /\ m \in 1 .. Len(stack) - 1
         /\ Top.fn = "Publish" => \A a : ~PastTop(a)
         /\ ret = "none" => \A a : ~PastTop(a)
<1>1. Len(stack) \in Nat /\ Top = stack[Len(stack)]
  BY ZenonT(60), TopFacts
<1>2. ASSUME Top.fn = "Deliver", NEW a, NEW m \in 1 .. Len(stack), PastChild(a, m)
      PROVE  m # Len(stack) /\ m \in 1 .. Len(stack) - 1
  <2>1. m # Len(stack)
    BY ZenonT(60), <1>1, <1>2 DEF PastChild
  <2> QED
    BY ONLY Z3T(30), SMTT(30), <1>1, <2>1, m \in 1 .. Len(stack)
<1> QED
  BY ZenonT(60), <1>2 DEF PastTop

\* A frame goes on with its loop and keeps its place among its children.
LEMMA AdvancePast ==
  ASSUME DeliveryInv, PathInv, stack # <<>>, NEW g \in Frames,
         g.fn = Top.fn, g.sink = Top.sink, g.env = Top.env,
         g.fn = "Publish" => g.next = Top.next, g.fn = "Deliver" => g.attempt >= 1,
         SetTop(g), \A a : ~PastTop(a), UNCHANGED <<setup, sent>>
  PROVE  PathInv'
<1>0. stack \in Seq(Frames) /\ UNCHANGED <<children, sent>>
  BY ZenonT(60) DEF DeliveryInv, DeliveryTypeOK, setup
<1>1. Len(stack) \in Nat /\ Len(stack) > 0 /\ Top = stack[Len(stack)]
  BY ZenonT(60), TopFacts
<1>2. PICK n \in Nat : n = Len(stack) /\ n > 0
  BY ZenonT(60), <1>1
<1>3. /\ stack' \in Seq(Frames) /\ Len(stack') = n /\ stack'[n] = g
      /\ \A j \in 1 .. n - 1 : stack'[j] = stack[j]
  BY ONLY Z3T(30), SMTT(30), <1>0, <1>2, SetTop(g), stack # <<>>, g \in Frames, SetTopProperties DEF SetTop, Rest
<1>4. \A j \in 1 .. n : j = n \/ j \in 1 .. n - 1
  BY ONLY Z3T(30), SMTT(30), <1>2
<1>5. ASSUME NEW j \in 1 .. n
      PROVE  /\ stack'[j].fn = stack[j].fn /\ stack'[j].sink = stack[j].sink
             /\ stack'[j].env = stack[j].env
             /\ stack[j].fn = "Publish" => stack'[j].next = stack[j].next
  BY ZenonT(60), <1>1, <1>2, <1>3, <1>4
<1>6. EnvOK'
  <2>1. ASSUME NEW j \in 1 .. n - 1
        PROVE  stack'[j + 1].env = Wraps(stack'[j])
    <3>1. j + 1 \in 1 .. n
      BY ONLY Z3T(30), SMTT(30), <1>2, j \in 1 .. n - 1
    <3>2. stack[j + 1].env = Wraps(stack[j])
      BY ZenonT(60), <1>2 DEF PathInv, EnvOK
    <3> QED
      BY ZenonT(60), <1>3, <1>5, <3>1, <3>2
  <2>2. ASSUME NEW j \in 1 .. n, stack'[j].fn = "Deliver"
        PROVE  stack'[j].attempt >= 1
    <3>1. CASE j = n
      BY ZenonT(60), <1>3, <2>2, <3>1
    <3>2. CASE j \in 1 .. n - 1
      BY ZenonT(60), <1>2, <1>3, <2>2, <3>2 DEF PathInv, EnvOK
    <3> QED
      BY ZenonT(60), <1>4, <3>1, <3>2
  <2> QED
    BY ZenonT(60), <1>3, <2>1, <2>2 DEF EnvOK, Wraps
<1>7. ASSUME NEW a, Past(a)
      PROVE  Past(a)'
  <2>1. PICK m \in 1 .. Len(stack) : PastChild(a, m)
    BY ZenonT(60), <1>7 DEF Past
  <2>2. m \in 1 .. n /\ \A k \in 1 .. m : k \in 1 .. n
    BY ONLY Z3T(30), SMTT(30), <1>2, m \in 1 .. Len(stack)
  <2>3. stack[m].fn = "Publish"
    BY ZenonT(60), <2>1 DEF PastChild
  <2>4. PastChild(a, m)'
    BY ZenonT(60), <1>0, <1>2, <1>3, <1>5, <2>1, <2>2, <2>3, ChildStays
  <2> QED
    BY ZenonT(60), <1>3, <2>2, <2>4 DEF Past
<1> QED
  BY ZenonT(60), <1>0, <1>6, <1>7, PathsKept

\* A stack without its top keeps what it knows of the messages.
LEMMA PopEnv ==
  ASSUME DeliveryInv, PathInv, stack # <<>>, stack' = Rest
  PROVE  /\ Len(stack) \in Nat /\ Len(stack) > 0 /\ Len(stack)' = Len(stack) - 1
         /\ \A j \in 1 .. Len(stack) - 1 : stack'[j] = stack[j]
         /\ EnvOK'
<1>0. stack \in Seq(Frames)
  BY ZenonT(60) DEF DeliveryInv, DeliveryTypeOK
<1>1. /\ Len(stack) \in Nat /\ Len(stack) > 0 /\ Len(stack)' = Len(stack) - 1
      /\ \A j \in 1 .. Len(stack) - 1 : stack'[j] = stack[j]
  BY ONLY Z3T(30), SMTT(30), <1>0, stack' = Rest, stack # <<>>, PopProperties DEF Rest
<1>2. ASSUME NEW j \in 1 .. Len(stack)' - 1
      PROVE  stack'[j + 1].env = Wraps(stack'[j])
  <2>1. j \in 1 .. Len(stack) - 1 /\ j + 1 \in 1 .. Len(stack) - 1
    BY ONLY Z3T(30), SMTT(30), <1>1, j \in 1 .. Len(stack)' - 1
  <2>2. stack[j + 1].env = Wraps(stack[j])
    BY ZenonT(60), <2>1 DEF PathInv, EnvOK
  <2> QED
    BY ZenonT(60), <1>1, <2>1, <2>2
<1>3. ASSUME NEW j \in 1 .. Len(stack)', stack'[j].fn = "Deliver"
      PROVE  stack'[j].attempt >= 1
  <2>1. j \in 1 .. Len(stack) /\ j \in 1 .. Len(stack) - 1
    BY ONLY Z3T(30), SMTT(30), <1>1, j \in 1 .. Len(stack)'
  <2> QED
    BY ZenonT(60), <1>1, <1>3, <2>1 DEF PathInv, EnvOK
<1>4. EnvOK'
  BY ZenonT(60), <1>2, <1>3 DEF EnvOK, Wraps
<1> QED
  BY ZenonT(60), <1>1, <1>4

\* The frame that called the top, and the messages of both.
LEMMA CallerFacts ==
  ASSUME DeliveryInv, PathInv, stack # <<>>, Len(stack) # 1
  PROVE  LET f == stack[Len(stack) - 1]
         IN  /\ Len(stack) - 1 \in 1 .. Len(stack) /\ Len(stack) - 1 \in 1 .. Len(stack) - 1
             /\ f \in Frames /\ FrameOK(f) /\ Calls(f, Top) /\ Top.env = Wraps(f)
<1>1. Len(stack) \in Nat /\ Len(stack) > 0 /\ Top = stack[Len(stack)]
  BY ZenonT(60), TopFacts
<1>2. PICK m \in Nat : m = Len(stack) - 1
  BY ONLY Z3T(30), SMTT(30), <1>1
<1>3. m \in 1 .. Len(stack) /\ m \in 1 .. Len(stack) - 1 /\ m + 1 = Len(stack)
  BY ONLY Z3T(30), SMTT(30), <1>1, <1>2, Len(stack) # 1
<1>4. stack[m] \in Frames
  BY ZenonT(60), <1>3, TopFacts
<1>5. FrameOK(stack[m]) /\ Calls(stack[m], stack[m + 1])
  BY ZenonT(60), <1>3 DEF DeliveryInv, StackOK
<1>6. stack[m + 1].env = Wraps(stack[m])
  BY ZenonT(60), <1>3 DEF PathInv, EnvOK
<1> QED
  BY ZenonT(60), <1>1, <1>2, <1>3, <1>4, <1>5, <1>6

\* Deliver returns: its caller, a composite, is past the child.
LEMMA DeliverPast ==
  ASSUME DeliveryInv, PathInv, stack # <<>>, Top.fn = "Deliver", stack' = Rest,
         UNCHANGED <<setup, sent>>
  PROVE  PathInv'
<1>0. UNCHANGED <<children, sent>> /\ children \in [Sink -> Seq(Sink)]
  BY ZenonT(60) DEF setup, DeliveryInv, DeliveryTypeOK
<1>1. /\ Len(stack) \in Nat /\ Len(stack) > 0 /\ Len(stack)' = Len(stack) - 1
      /\ \A j \in 1 .. Len(stack) - 1 : stack'[j] = stack[j]
      /\ EnvOK'
  BY ZenonT(60), PopEnv
<1>2. ASSUME NEW a, NEW m \in 1 .. Len(stack), PastChild(a, m)
      PROVE  Past(a)'
  <2>1. m \in 1 .. Len(stack) - 1
    BY ZenonT(60), <1>2, BelowTop
  <2>2. m < Len(stack) /\ \A k \in 1 .. m : k \in 1 .. Len(stack) - 1
    BY ONLY Z3T(30), SMTT(30), <1>1, <2>1
  <2>3. PastChild(a, m)'
    BY ZenonT(60), <1>0, <1>1, <1>2, <2>1, <2>2, ChildStays
  <2> QED
    BY ZenonT(60), <1>1, <2>1, <2>3 DEF Past
<1>3. ASSUME stack' # <<>>, NEW a, PastTop(a)
      PROVE  Past(a)'
  <2>1. Len(stack) # 1
    <3>1. stack \in Seq(Frames)
      BY ZenonT(60) DEF DeliveryInv, DeliveryTypeOK
    <3>2. Rest \in Seq(Frames) /\ Len(Rest) = Len(stack) - 1
      BY ZenonT(60), <3>1, PopProperties DEF Rest
    <3>3. Rest # <<>>
      BY ZenonT(60), <1>3
    <3> QED
      BY ONLY Z3T(30), SMTT(30), <1>1, <3>2, <3>3
  <2>0. PICK m \in Nat : m = Len(stack) - 1
    BY ONLY Z3T(30), SMTT(30), <1>1
  <2> DEFINE f == stack[m]
  <2>2. m \in 1 .. Len(stack) - 1 /\ f \in Frames /\ Calls(f, Top) /\ Top.env = Wraps(f)
    BY ZenonT(60), <2>0, <2>1, CallerFacts
  <2>3. ~Top.env /\ Agree(a, Len(stack)) /\ Top = stack[Len(stack)]
    BY ZenonT(60), <1>3, TopFacts DEF PastTop
  <2>4. m + 1 = Len(stack) /\ m + 1 \in 1 .. Len(stack) /\ ~(m < Len(stack)') /\ m \in 1 .. Len(stack)'
        /\ \A k \in 1 .. m : k \in 1 .. Len(stack) /\ k \in 1 .. Len(stack) - 1
    BY ONLY Z3T(30), SMTT(30), <1>1, <2>0, <2>2
  <2>5. /\ f.fn = "Publish" /\ f.next > 1 /\ f.next - 1 <= Len(children[f.sink])
        /\ Top.sink = children[f.sink][f.next - 1]
    BY ZenonT(60), <2>2 DEF Calls
  <2>6. ~f.env
    BY ZenonT(60), <2>2, <2>3 DEF Wraps
  <2>7. f.next \in Nat /\ f.sink \in Sink
    <3>1. f \in PublishFrames
      BY ZenonT(60), <2>2, <2>5, FrameKinds
    <3> HIDE DEF f
    <3> QED
      BY <3>1 DEF PublishFrames
  <2>8. stack'[m] = f /\ Agree(a, m)'
    BY ZenonT(60), <1>1, <2>2, <2>3, <2>4 DEF Agree
  <2>9. a[m + 1] = Top.sink
    BY ZenonT(60), <2>3, <2>4 DEF Agree
  <2> HIDE DEF f
  <2>10. children[f.sink] \in Seq(Sink)
    BY ZenonT(60), <1>0, <2>7
  <2>11. f.next - 1 \in DOMAIN children[f.sink] /\ f.next - 1 < f.next
    BY ONLY Z3T(30), SMTT(30), <2>5, <2>7, <2>10
  <2>12. PastChild(a, m)'
    BY ZenonT(60), <1>0, <2>4, <2>5, <2>6, <2>8, <2>9, <2>11 DEF PastChild
  <2> QED
    BY ZenonT(60), <2>4, <2>12 DEF Past
<1> QED
  BY ZenonT(60), <1>0, <1>1, <1>2, <1>3, PathsKept DEF Past

\* A composite returns: the Deliver that called it returns in turn, for it has one attempt.
LEMMA ExitPast ==
  ASSUME DeliveryInv, PathInv, ExitComposite
  PROVE  PathInv'
<1>0. /\ stack # <<>> /\ Top.fn = "Publish" /\ stack' = Rest /\ ret' \in {"ok", "error"}
      /\ UNCHANGED <<children, sent>> /\ FrameOK(Top)
  BY ZenonT(60), TopFacts DEF ExitComposite, Running, Return, setup
<1>1. /\ Len(stack) \in Nat /\ Len(stack) > 0 /\ Len(stack)' = Len(stack) - 1
      /\ \A j \in 1 .. Len(stack) - 1 : stack'[j] = stack[j]
      /\ EnvOK' /\ Top = stack[Len(stack)]
  BY ZenonT(60), <1>0, PopEnv, TopFacts
<1>2. Len(stack) # 1
  <2>1. stack[1].fn = "Deliver"
    BY ZenonT(60), <1>0 DEF DeliveryInv, StackOK
  <2>2. "Deliver" # "Publish"
    OBVIOUS
  <2> QED
    BY ZenonT(60), <1>0, <1>1, <2>1, <2>2
<1> DEFINE n == Len(stack) - 1
           f == stack[n]
<1>3. n \in 1 .. Len(stack) - 1 /\ Calls(f, Top) /\ Top.env = Wraps(f)
  BY ZenonT(60), <1>0, <1>2, CallerFacts
<1>4. stack'[n] = f /\ Len(stack)' = n
  BY ZenonT(60), <1>1, <1>3
<1>5. f.fn = "Deliver" /\ f.pc \in {"publish", "dlq"} /\ Top.sink = Called(f)
  <2>1. "Deliver" # "Publish"
    OBVIOUS
  <2> QED
    BY ZenonT(60), <1>0, <1>3, <2>1 DEF Calls
<1>6. Top' = f
  <2> HIDE DEF f
  <2> QED
    BY ZenonT(60), <1>4 DEF Top, Peek
<1>7. ASSUME NEW a, NEW m \in 1 .. Len(stack), PastChild(a, m)
      PROVE  Past(a)'
  <2>1. CASE m = Len(stack)
    <3>1. ~Top.env /\ Agree(a, Len(stack))
      BY ZenonT(60), <1>1, <1>7, <2>1 DEF PastChild
    <3>2. ~f.env /\ f.pc = "publish"
      BY ZenonT(60), <1>3, <1>5, <3>1 DEF Wraps
    <3>3. IsComposite(f.sink)
      BY ZenonT(60), <1>0, <1>5, <3>2 DEF FrameOK, Called
    <3>4. \A k \in 1 .. n : k \in 1 .. Len(stack) /\ k \in 1 .. Len(stack) - 1
      BY ONLY Z3T(30), SMTT(30), <1>1 DEF n
    <3>5. Agree(a, Len(stack))'
      BY ZenonT(60), <1>1, <1>4, <3>1, <3>4 DEF Agree
    <3> HIDE DEF f
    <3>6. IsComposite(Top.sink)'
      BY ZenonT(60), <1>0, <1>6, <3>3 DEF IsComposite
    <3>7. PastTop(a)'
      BY ZenonT(60), <1>0, <1>5, <1>6, <3>2, <3>5, <3>6 DEF PastTop
    <3> QED
      BY ZenonT(60), <3>7 DEF Past
  <2>2. CASE m # Len(stack)
    <3>1. m \in 1 .. Len(stack) - 1 /\ m < Len(stack) /\ \A k \in 1 .. m : k \in 1 .. Len(stack) - 1
      BY ONLY Z3T(30), SMTT(30), <1>1, <2>2, m \in 1 .. Len(stack)
    <3>2. PastChild(a, m)'
      BY ZenonT(60), <1>0, <1>1, <1>7, <3>1, ChildStays
    <3> QED
      BY ZenonT(60), <1>1, <3>1, <3>2 DEF Past
  <2> QED
    BY ZenonT(60), <2>1, <2>2
<1>8. ASSUME NEW a, Past(a)
      PROVE  Past(a)'
  BY ZenonT(60), <1>0, <1>7, <1>8, BelowTop DEF Past
<1> QED
  BY ZenonT(60), <1>0, <1>1, <1>8, PathsKept

\* A composite is called: nothing was sent along the new frame yet.
LEMMA EnterPast ==
  ASSUME DeliveryInv, PathInv, EnterComposite
  PROVE  PathInv'
<1> DEFINE g == PublishFrame(Callee, Envelope)
<1>0. /\ stack # <<>> /\ ret = "none" /\ Top.fn = "Deliver" /\ stack' = Append(stack, g)
      /\ UNCHANGED <<children, sent>>
  BY ZenonT(60) DEF EnterComposite, InDeliver, Running, setup
<1>1. g.fn = "Publish" /\ g.env = Envelope
  BY DEF PublishFrame
<1>2. g \in Frames
  <2>1. Callee \in Sink /\ Envelope \in BOOLEAN
    <3>1. Top \in DeliverFrames /\ Top.sink \in Sink /\ FrameOK(Top)
      BY ZenonT(60), <1>0, TopFacts, FrameKinds
    <3>2. deadLetter[Top.sink] \in Sink \cup {NoSink}
      BY ZenonT(60), <3>1 DEF DeliveryInv, DeliveryTypeOK
    <3>3. Callee \in Sink
      BY ZenonT(60), <1>0, <3>1, <3>2 DEF Callee, FrameOK
    <3>4. Envelope \in BOOLEAN
      BY <3>1 DEF Envelope, DeliverFrames
    <3> QED
      BY ZenonT(60), <3>3, <3>4
  <2> QED
    BY <2>1 DEF PublishFrame, PublishFrames, Frames
<1>3. g.env = Wraps(Top)
  BY ZenonT(60), <1>0, <1>1 DEF Envelope, Wraps
<1> HIDE DEF g
<1>4. stack \in Seq(Frames) /\ Len(stack) \in Nat /\ Len(stack) > 0 /\ Top = stack[Len(stack)]
  BY ZenonT(60), <1>0, TopFacts DEF DeliveryInv, DeliveryTypeOK
<1>5. PICK n \in Nat : n = Len(stack) /\ n > 0
  BY ZenonT(60), <1>4
<1>6. /\ Len(stack)' = n + 1 /\ stack'[n + 1] = g
      /\ \A j \in 1 .. n : stack'[j] = stack[j]
  BY ONLY Z3T(30), SMTT(30), <1>0, <1>2, <1>4, <1>5, PushProperties
<1>7. EnvOK'
  <2>1. ASSUME NEW j \in 1 .. Len(stack)' - 1
        PROVE  stack'[j + 1].env = Wraps(stack'[j])
    <3>1. j \in 1 .. n /\ (j = n \/ (j \in 1 .. n - 1 /\ j + 1 \in 1 .. n))
      BY ONLY Z3T(30), SMTT(30), <1>5, <1>6, j \in 1 .. Len(stack)' - 1
    <3>2. CASE j = n
      BY ZenonT(60), <1>3, <1>4, <1>5, <1>6, <3>1, <3>2
    <3>3. CASE j \in 1 .. n - 1 /\ j + 1 \in 1 .. n
      <4>1. stack[j + 1].env = Wraps(stack[j])
        BY ZenonT(60), <1>5, <3>3 DEF PathInv, EnvOK
      <4> QED
        BY ZenonT(60), <1>6, <3>1, <3>3, <4>1
    <3> QED
      BY ZenonT(60), <3>1, <3>2, <3>3
  <2>2. ASSUME NEW j \in 1 .. Len(stack)', stack'[j].fn = "Deliver"
        PROVE  stack'[j].attempt >= 1
    <3>1. j = n + 1 \/ j \in 1 .. n
      BY ONLY Z3T(30), SMTT(30), <1>5, <1>6, j \in 1 .. Len(stack)'
    <3>2. "Deliver" # "Publish"
      OBVIOUS
    <3> QED
      BY ZenonT(60), <1>1, <1>5, <1>6, <2>2, <3>1, <3>2 DEF PathInv, EnvOK
  <2> QED
    BY ZenonT(60), <2>1, <2>2 DEF EnvOK, Wraps
<1>8. ASSUME NEW a, Past(a)
      PROVE  Past(a)'
  <2>1. PICK m \in 1 .. Len(stack) : PastChild(a, m)
    BY ZenonT(60), <1>0, <1>8, BelowTop DEF Past
  <2>2. m \in 1 .. Len(stack) - 1
    BY ZenonT(60), <1>0, <2>1, BelowTop
  <2>3. m \in 1 .. n /\ m \in 1 .. Len(stack)' /\ m < Len(stack) /\ \A k \in 1 .. m : k \in 1 .. n
    BY ONLY Z3T(30), SMTT(30), <1>5, <1>6, <2>2
  <2>4. PastChild(a, m)'
    BY ZenonT(60), <1>0, <1>6, <2>1, <2>3, ChildStays
  <2> QED
    BY ZenonT(60), <2>3, <2>4 DEF Past
<1> QED
  BY ZenonT(60), <1>0, <1>7, <1>8, PathsKept

\* The next child: the composite is past the ones before it.
LEMMA NextPast ==
  ASSUME DeliveryInv, PathInv, NextChild
  PROVE  PathInv'
<1> DEFINE f == [Top EXCEPT !.next = Following(@)]
           g == DeliverFrame(children[Top.sink][Top.next], Top.env)
           low == Append(Pop(stack), f)
<1>0. /\ stack # <<>> /\ ret = "none" /\ Top.fn = "Publish"
      /\ Top.next <= Len(children[Top.sink]) /\ stack' = Append(Rest \o <<f>>, g)
      /\ UNCHANGED <<children, sent>>
  BY ZenonT(60) DEF NextChild, Running, setup
<1>1. /\ stack \in Seq(Frames) /\ Top \in PublishFrames /\ Top \in Frames /\ FrameOK(Top)
      /\ Top = stack[Len(stack)] /\ Len(stack) \in Nat /\ Len(stack) > 0
      /\ children \in [Sink -> Seq(Sink)]
  BY ZenonT(60), <1>0, TopFacts, FrameKinds DEF DeliveryInv, DeliveryTypeOK
<1>2. Top.sink \in Sink /\ Top.next \in Nat /\ Top.env \in BOOLEAN
  BY <1>1 DEF PublishFrames
<1>3. children[Top.sink][Top.next] \in Sink
  <2>1. children[Top.sink] \in Seq(Sink) /\ Top.next >= 1
    BY ZenonT(60), <1>0, <1>1, <1>2 DEF FrameOK
  <2> QED
    BY ONLY Z3T(30), SMTT(30), <1>0, <1>2, <2>1
<1>4. g \in DeliverFrames /\ g.fn = "Deliver" /\ g.env = Top.env /\ g.attempt = 1
  BY <1>2, <1>3 DEF DeliverFrame, DeliverFrames
<1>5. PICK q \in Nat : q = Top.next + 1
  BY ONLY Z3T(30), SMTT(30), <1>2
<1>6. f \in PublishFrames /\ f.fn = "Publish" /\ f.sink = Top.sink /\ f.env = Top.env /\ f.next = q
  <2>1. f = [Top EXCEPT !.next = q]
    BY ZenonT(60), <1>5 DEF Following
  <2> HIDE DEF f
  <2> QED
    BY ZenonT(60), <1>0, <1>1, <2>1 DEF PublishFrames
<1> HIDE DEF f, g
<1>7. PICK n \in Nat : n = Len(stack) /\ n > 0
  BY ZenonT(60), <1>1
<1>8. f \in Frames /\ g \in Frames
  BY ZenonT(60), <1>4, <1>6 DEF Frames
<1>9. /\ low \in Seq(Frames) /\ Len(low) = n /\ low[n] = f
      /\ \A j \in 1 .. n - 1 : low[j] = stack[j]
  <2>1. stack \in Seq(Frames) /\ stack # <<>>
    BY ZenonT(60), <1>0, <1>1
  <2>2. /\ low \in Seq(Frames) /\ Len(low) = Len(stack) /\ low[Len(stack)] = f
        /\ \A j \in 1 .. Len(stack) - 1 : low[j] = stack[j]
    BY ONLY Z3T(30), SMTT(30), <1>8, <2>1, SetTopProperties DEF low
  <2> QED
    BY ZenonT(60), <1>7, <2>2
<1>10. stack' = Append(low, g)
  <2>1. Pop(stack) \in Seq(Frames)
    BY ZenonT(60), <1>0, <1>1, PopProperties
  <2>2. Pop(stack) \o <<f>> = Append(Pop(stack), f)
    BY ONLY Z3T(30), ZenonT(20), SMTT(30), <1>8, <2>1
  <2> QED
    BY ZenonT(60), <1>0, <2>2 DEF Rest
<1> HIDE DEF low
<1>11. /\ Len(stack)' = n + 1 /\ stack'[n + 1] = g /\ \A j \in 1 .. n : stack'[j] = low[j]
  BY ONLY Z3T(30), SMTT(30), <1>8, <1>9, <1>10, <1>7, PushProperties
<1>12. \A j \in 1 .. n : j = n \/ j \in 1 .. n - 1
  BY ONLY Z3T(30), SMTT(30), <1>7
<1>13. ASSUME NEW j \in 1 .. n
       PROVE  /\ stack'[j].fn = stack[j].fn /\ stack'[j].sink = stack[j].sink
              /\ stack'[j].env = stack[j].env
              /\ j \in 1 .. n - 1 => stack'[j] = stack[j]
              /\ j = n => stack'[j] = f
  <2>1. n \notin 1 .. n - 1
    BY ONLY Z3T(30), SMTT(30), <1>7
  <2> QED
    BY ZenonT(60), <1>0, <1>1, <1>6, <1>7, <1>9, <1>11, <1>12, <2>1
<1>14. EnvOK'
  <2>1. ASSUME NEW j \in 1 .. Len(stack)' - 1
        PROVE  stack'[j + 1].env = Wraps(stack'[j])
    <3>1. j \in 1 .. n /\ (j = n \/ (j \in 1 .. n - 1 /\ j + 1 \in 1 .. n))
      BY ONLY Z3T(30), SMTT(30), <1>7, <1>11, j \in 1 .. Len(stack)' - 1
    <3>2. CASE j = n
      <4>1. "Deliver" # "Publish"
        OBVIOUS
      <4>2. Wraps(f) = f.env
        BY <1>2, <1>6, <4>1 DEF Wraps
      <4> QED
        BY ZenonT(60), <1>4, <1>6, <1>11, <1>13, <3>1, <3>2, <4>2
    <3>3. CASE j \in 1 .. n - 1 /\ j + 1 \in 1 .. n
      <4>1. stack[j + 1].env = Wraps(stack[j])
        BY ZenonT(60), <1>7, <3>3 DEF PathInv, EnvOK
      <4> QED
        BY ZenonT(60), <1>13, <3>1, <3>3, <4>1
    <3> QED
      BY ZenonT(60), <3>1, <3>2, <3>3
  <2>2. ASSUME NEW j \in 1 .. Len(stack)', stack'[j].fn = "Deliver"
        PROVE  stack'[j].attempt >= 1
    <3>1. j = n + 1 \/ j = n \/ (j \in 1 .. n - 1 /\ j \in 1 .. n)
      BY ONLY Z3T(30), SMTT(30), <1>7, <1>11, j \in 1 .. Len(stack)'
    <3>2. CASE j = n + 1
      <4>1. 1 >= 1
        OBVIOUS
      <4> QED
        BY ZenonT(60), <1>4, <1>11, <3>2, <4>1
    <3>3. CASE j = n
      <4>1. "Deliver" # "Publish" /\ n \in 1 .. n
        BY ONLY Z3T(30), SMTT(30), <1>7
      <4> QED
        BY ZenonT(60), <1>6, <1>13, <2>2, <3>3, <4>1
    <3>4. CASE j \in 1 .. n - 1 /\ j \in 1 .. n
      BY ZenonT(60), <1>7, <1>13, <2>2, <3>4 DEF PathInv, EnvOK
    <3> QED
      BY ZenonT(60), <3>1, <3>2, <3>3, <3>4
  <2> QED
    BY ZenonT(60), <2>1, <2>2 DEF EnvOK, Wraps
<1>15. ASSUME NEW a, Past(a)
       PROVE  Past(a)'
  <2>1. PICK m \in 1 .. Len(stack) : PastChild(a, m)
    BY ZenonT(60), <1>0, <1>15, BelowTop DEF Past
  <2>2. m \in 1 .. n /\ m \in 1 .. Len(stack)' /\ (m \in 1 .. n - 1 => m < Len(stack))
        /\ \A k \in 1 .. m : k \in 1 .. n
    BY ONLY Z3T(30), SMTT(30), <1>7, <1>11, m \in 1 .. Len(stack)
  <2>3. /\ \A k \in 1 .. m : stack'[k].sink = stack[k].sink
        /\ stack'[m].fn = stack[m].fn /\ stack'[m].env = stack[m].env
    BY ZenonT(60), <1>13, <2>2
  <2>4. \/ stack'[m].next = stack[m].next /\ (m < Len(stack)' => m < Len(stack))
        \/ stack'[m].next = stack[m].next + 1
    <3>1. CASE m = n
      BY ZenonT(60), <1>1, <1>5, <1>6, <1>7, <1>13, <2>2, <3>1
    <3>2. CASE m \in 1 .. n - 1
      BY ZenonT(60), <1>13, <2>2, <3>2
    <3> QED
      BY ZenonT(60), <1>12, <2>2, <3>1, <3>2
  <2>5. PastChild(a, m)'
    BY ZenonT(60), <1>0, <2>1, <2>3, <2>4, ChildStays
  <2> QED
    BY ZenonT(60), <2>2, <2>5 DEF Past
<1> QED
  BY ZenonT(60), <1>0, <1>14, <1>15, PathsKept

\* Every Deliver on the stack has begun an attempt.
LEMMA TopAttempt ==
  ASSUME DeliveryInv, PathInv, stack # <<>>, Top.fn = "Deliver"
  PROVE  Top \in DeliverFrames /\ Top.attempt \in Nat /\ Top.attempt >= 1 /\ Top.sink \in Sink
<1>1. Top \in DeliverFrames /\ Len(stack) \in 1 .. Len(stack) /\ Top = stack[Len(stack)]
  BY ZenonT(60), TopFacts, FrameKinds
<1>2. Top.attempt >= 1
  BY ZenonT(60), <1>1 DEF PathInv, EnvOK
<1>3. Top.attempt \in Nat /\ Top.sink \in Sink
  BY <1>1 DEF DeliverFrames
<1> QED
  BY ZenonT(60), <1>1, <1>2, <1>3

\* Do gives up: a composite returns, and no other sink has acknowledged the change.
LEMMA GiveUpPast ==
  ASSUME DeliveryInv, PathInv, stack # <<>>, Top.fn = "Deliver", ret # "ok", GiveUp(Top),
         UNCHANGED <<setup, sent>>
  PROVE  PathInv'
<1>1. CASE IsComposite(Top.sink) \/ deadLetter[Top.sink] = NoSink
  BY ZenonT(60), <1>1, DeliverPast DEF GiveUp, Return
<1>2. CASE ~(IsComposite(Top.sink) \/ deadLetter[Top.sink] = NoSink)
  <2>0. Top \in DeliverFrames /\ Top.attempt >= 1
    BY ZenonT(60), TopAttempt
  <2> DEFINE g == [Top EXCEPT !.pc = "dlq"]
  <2>1. /\ g \in DeliverFrames /\ g.fn = "Deliver" /\ g.sink = Top.sink /\ g.env = Top.env
        /\ g.attempt = Top.attempt
    BY <2>0 DEF DeliverFrames
  <2>2. SetTop(g)
    BY ZenonT(60), <1>2 DEF GiveUp
  <2> HIDE DEF g
  <2>3. g \in Frames /\ "Deliver" # "Publish"
    BY <2>1 DEF Frames
  <2>4. \A a : ~PastTop(a)
    BY ZenonT(60), <1>2 DEF PastTop
  <2> QED
    BY ZenonT(60), <2>0, <2>1, <2>2, <2>3, <2>4, AdvancePast
<1> QED
  BY ZenonT(60), <1>1, <1>2

LEMMA AttemptPast ==
  ASSUME DeliveryInv, PathInv, Attempt
  PROVE  PathInv'
<1>0. stack # <<>> /\ Top.fn = "Deliver" /\ ret = "none" /\ UNCHANGED <<setup, sent>>
  BY ZenonT(60) DEF Attempt, InDeliver, Running
<1>1. CASE done
  <2>1. GiveUp(Top)
    BY ZenonT(60), <1>1 DEF Attempt
  <2>2. ret # "ok"
    BY <1>0
  <2> QED
    BY ZenonT(60), <1>0, <2>1, <2>2, GiveUpPast
<1>2. CASE ~done
  <2>0. Top \in DeliverFrames /\ Top.attempt >= 1
    BY ZenonT(60), <1>0, TopAttempt
  <2> DEFINE g == [Top EXCEPT !.pc = "publish"]
  <2>1. /\ g \in DeliverFrames /\ g.fn = "Deliver" /\ g.sink = Top.sink /\ g.env = Top.env
        /\ g.attempt = Top.attempt
    BY <2>0 DEF DeliverFrames
  <2>2. SetTop(g)
    BY ZenonT(60), <1>2 DEF Attempt
  <2> HIDE DEF g
  <2>3. g \in Frames /\ "Deliver" # "Publish"
    BY <2>1 DEF Frames
  <2>4. \A a : ~PastTop(a)
    BY ZenonT(60), <1>0, BelowTop
  <2> QED
    BY ZenonT(60), <1>0, <2>0, <2>1, <2>2, <2>3, <2>4, AdvancePast
<1> QED
  BY ZenonT(60), <1>1, <1>2

\* The next attempt is for a driver: a composite has used up its only one.
LEMMA ConcludePast ==
  ASSUME DeliveryInv, PathInv, Conclude
  PROVE  PathInv'
<1>0. /\ stack # <<>> /\ Top.fn = "Deliver" /\ ret \in {"ok", "error"} /\ UNCHANGED <<setup, sent>>
      /\ Top.pc \in {"publish", "dlq"}
  <2>1. stack # <<>> /\ Top.fn = "Deliver" /\ ret \in {"ok", "error"} /\ UNCHANGED <<setup, sent>>
    BY ZenonT(60) DEF Conclude
  <2>2. ret # "none"
    BY <2>1
  <2> QED
    BY ZenonT(60), <2>1, <2>2 DEF DeliveryInv, ReturnOK
<1>1. Top \in DeliverFrames /\ Top.attempt \in Nat /\ Top.attempt >= 1
  BY ZenonT(60), <1>0, TopAttempt
<1>2. CASE Top.pc = "dlq"
  <2>1. stack' = Rest
    BY <1>2 DEF Conclude, Return
  <2> QED
    BY ZenonT(60), <1>0, <2>1, DeliverPast
<1>3. CASE Top.pc = "publish" /\ ret = "ok"
  <2>1. stack' = Rest
    BY <1>3 DEF Conclude, Return
  <2> QED
    BY ZenonT(60), <1>0, <2>1, DeliverPast
<1>4. CASE Top.pc = "publish" /\ ret = "error"
  <2> DEFINE b == Top.attempt + 1
             g == [Top EXCEPT !.pc = "loop", !.attempt = b]
  <2>1. GiveUp(Top) \/ (Top.attempt < Budget(Top.sink) /\ SetTop(g))
    BY <1>4 DEF Conclude
  <2>2. CASE GiveUp(Top)
    <3>1. ret # "ok"
      BY <1>4
    <3> QED
      BY ZenonT(60), <1>0, <2>2, <3>1, GiveUpPast
  <2>3. CASE Top.attempt < Budget(Top.sink) /\ SetTop(g)
    <3>1. ~IsComposite(Top.sink)
      <4> SUFFICES ASSUME IsComposite(Top.sink) PROVE FALSE
        OBVIOUS
      <4>1. Budget(Top.sink) = 1
        BY ZenonT(60) DEF Budget
      <4> QED
        BY ONLY Z3T(30), SMTT(30), <1>1, <2>3, <4>1
    <3>2. \A a : ~PastTop(a)
      <4>1. ret # "ok"
        BY <1>4
      <4> QED
        BY ZenonT(60), <3>1, <4>1 DEF PastTop
    <3>3. b \in Nat /\ b >= 1
      BY ONLY Z3T(30), SMTT(30), <1>1 DEF b
    <3>4. SetTop(g)
      BY ZenonT(60), <2>3
    <3> HIDE DEF b
    <3>5. g \in DeliverFrames /\ g.fn = "Deliver" /\ g.sink = Top.sink /\ g.env = Top.env /\ g.attempt = b
      BY ZenonT(60), <1>1, <3>3 DEF DeliverFrames
    <3> HIDE DEF g
    <3>6. g \in Frames /\ "Deliver" # "Publish"
      BY <3>5 DEF Frames
    <3> QED
      BY ZenonT(60), <1>0, <3>2, <3>3, <3>4, <3>5, <3>6, AdvancePast
  <2> QED
    BY ZenonT(60), <2>1, <2>2, <2>3
<1> QED
  BY <1>0, <1>2, <1>3, <1>4

LEMMA ChildDonePast ==
  ASSUME DeliveryInv, PathInv, ChildDone
  PROVE  PathInv'
<1> DEFINE g == [Top EXCEPT !.dropped = Dropped(Top, ret)]
<1>0. /\ stack # <<>> /\ Top.fn = "Publish" /\ UNCHANGED <<setup, sent>> /\ SetTop(g)
      /\ Top \in PublishFrames
  BY ZenonT(60), TopFacts, FrameKinds DEF ChildDone
<1>1. /\ g \in PublishFrames /\ g.fn = "Publish" /\ g.sink = Top.sink /\ g.next = Top.next
      /\ g.env = Top.env
  BY ZenonT(60), <1>0 DEF PublishFrames, Dropped
<1> HIDE DEF g
<1>2. g \in Frames /\ "Deliver" # "Publish"
  BY <1>1 DEF Frames
<1>3. \A a : ~PastTop(a)
  BY ZenonT(60), <1>0, BelowTop
<1> QED
  BY ZenonT(60), <1>0, <1>1, <1>2, <1>3, AdvancePast

\* The path of the stack, and one that the stack is past: they part at a child.
LEMMA NewPath ==
  ASSUME DeliveryInv, PathInv, stack # <<>>, NEW a, NEW m \in 1 .. Len(stack) - 1, PastChild(a, m)
  PROVE  a # Path
<1>1. stack \in Seq(Frames) /\ children \in [Sink -> Seq(Sink)] /\ ValidChildren(children)
  BY ZenonT(60) DEF DeliveryInv, DeliveryTypeOK, PathInv
<1>2. /\ m \in 1 .. Len(stack) /\ m + 1 \in 1 .. Len(stack) /\ m < Len(stack)
      /\ DOMAIN stack = 1 .. Len(stack)
  BY ONLY Z3T(30), SMTT(30), <1>1, m \in 1 .. Len(stack) - 1
<1> DEFINE f == stack[m]
           kids == children[f.sink]
<1>3. f.fn = "Publish" /\ Calls(f, stack[m + 1])
  BY ZenonT(60) DEF PastChild, DeliveryInv, StackOK
<1>4. f \in PublishFrames
  BY ZenonT(60), <1>2, <1>3, TopFacts, FrameKinds
<1>5. f.next - 1 <= Len(kids) /\ f.next > 1 /\ stack[m + 1].sink = kids[f.next - 1]
  <2>1. "Deliver" # "Publish"
    OBVIOUS
  <2> QED
    BY ZenonT(60), <1>3, <2>1 DEF Calls
<1>6. PICK i \in DOMAIN kids : a[m + 1] = kids[i] /\ i < f.next - 1
  BY ZenonT(60), <1>2 DEF PastChild
<1>7. Path[m + 1] = kids[f.next - 1]
  BY ZenonT(60), <1>2, <1>5 DEF Path
<1> HIDE DEF f
<1>8. f.next \in Nat /\ f.sink \in Sink
  BY <1>4 DEF PublishFrames
<1>9. kids \in Seq(Sink) /\ IsInjective(kids)
  BY ZenonT(60), <1>1, <1>8 DEF ValidChildren
<1> HIDE DEF kids
<1>10. f.next - 1 \in DOMAIN kids /\ i # f.next - 1
  BY ONLY Z3T(30), SMTT(30), <1>5, <1>6, <1>8, <1>9
<1>11. kids[i] # kids[f.next - 1]
  BY ZenonT(60), <1>9, <1>10 DEF IsInjective
<1> QED
  BY ZenonT(60), <1>6, <1>7, <1>11

LEMMA AppendInjective ==
  ASSUME NEW S, NEW s \in Seq(S), IsInjective(s), NEW e \in S, \A k \in DOMAIN s : s[k] # e
  PROVE  IsInjective(Append(s, e))
<1>1. /\ DOMAIN Append(s, e) = 1 .. Len(s) + 1 /\ Append(s, e)[Len(s) + 1] = e
      /\ \A k \in 1 .. Len(s) : Append(s, e)[k] = s[k]
      /\ DOMAIN s = 1 .. Len(s) /\ Len(s) \in Nat
  OBVIOUS
<1>2. \A k \in 1 .. Len(s) + 1 : k = Len(s) + 1 \/ k \in DOMAIN s
  BY ONLY Z3T(30), SMTT(30), <1>1
<1> QED
  BY ZenonT(60), <1>1, <1>2 DEF IsInjective

LEMMA PathIsSeq ==
  ASSUME NEW s \in Seq(Frames)
  PROVE  [k \in DOMAIN s |-> s[k].sink] \in Seq(Sink)
<1>1. Len(s) \in Nat /\ DOMAIN s = 1 .. Len(s) /\ \A k \in 1 .. Len(s) : s[k] \in Frames
  OBVIOUS
<1>2. \A k \in 1 .. Len(s) : s[k].sink \in Sink
  BY ZenonT(60), <1>1, FrameKinds
<1>3. [k \in 1 .. Len(s) |-> s[k].sink] \in Seq(Sink)
  BY ONLY Z3T(30), SMTT(30), <1>1, <1>2
<1> QED
  BY ZenonT(60), <1>1, <1>3

\* A driver answers: a path it acknowledges for the first time.
LEMMA DriverPast ==
  ASSUME DeliveryInv, PathInv, NEW took \in BOOLEAN, NEW acked \in BOOLEAN, DriverPublish(took, acked)
  PROVE  PathInv'
<1>0. /\ stack # <<>> /\ ret = "none" /\ Top.fn = "Deliver" /\ Top.pc \in {"publish", "dlq"}
      /\ stack' = stack /\ children' = children
      /\ sent' = (IF acked /\ ~Envelope THEN Append(sent, Path) ELSE sent)
      /\ ret' = (IF acked THEN "ok" ELSE "error")
  BY ZenonT(60) DEF DriverPublish, InDeliver, Running, setup
<1>1. Top' = Top /\ EnvOK'
  BY ZenonT(60), <1>0 DEF Top, Peek, PathInv, EnvOK, Wraps
<1>2. ASSUME NEW a, Past(a)
      PROVE  Past(a)' /\ a # Path
  <2>1. PICK m \in 1 .. Len(stack) : PastChild(a, m)
    BY ZenonT(60), <1>0, <1>2, BelowTop DEF Past
  <2>2. m \in 1 .. Len(stack) - 1
    BY ZenonT(60), <1>0, <2>1, BelowTop
  <2>3. PastChild(a, m)'
    BY ZenonT(60), <1>0, <2>1 DEF PastChild, Agree
  <2>4. Past(a)'
    BY ZenonT(60), <1>0, <2>3 DEF Past
  <2>5. a # Path
    BY ZenonT(60), <1>0, <2>1, <2>2, NewPath
  <2> QED
    BY ZenonT(60), <2>4, <2>5
<1>3. CASE acked /\ ~Envelope
  <2>1. PICK p \in Seq(Sink) : p = Path
    <3>1. stack \in Seq(Frames)
      BY ZenonT(60) DEF DeliveryInv, DeliveryTypeOK
    <3> QED
      BY ZenonT(60), <3>1, PathIsSeq DEF Path
  <2>2. ~Top.env /\ Top.pc = "publish" /\ ret' = "ok"
    BY ZenonT(60), <1>0, <1>3 DEF Envelope
  <2>3. Agree(p, Len(stack))
    <3>1. DOMAIN stack = 1 .. Len(stack)
      <4>1. stack \in Seq(Frames)
        BY ZenonT(60) DEF DeliveryInv, DeliveryTypeOK
      <4> QED
        BY ONLY Z3T(30), SMTT(30), <4>1
    <3> QED
      BY ZenonT(60), <2>1, <3>1 DEF Agree, Path
  <2>4. Past(p)'
    BY ZenonT(60), <1>0, <1>1, <2>2, <2>3 DEF Past, PastTop, Agree
  <2>5. sent' = Append(sent, p) /\ sent \in Seq(Seq(Sink)) /\ IsInjective(sent)
    BY ZenonT(60), <1>0, <1>3, <2>1 DEF PathInv
  <2>6. \A k \in DOMAIN sent : Past(sent[k]) /\ sent[k] # p
    BY ZenonT(60), <1>0, <1>2, <2>1 DEF PathInv
  <2>7. IsInjective(sent)' /\ (sent \in Seq(Seq(Sink)))'
    <3>1. IsInjective(Append(sent, p))
      BY ZenonT(60), <2>5, <2>6, AppendInjective
    <3>2. Append(sent, p) \in Seq(Seq(Sink))
      BY ONLY Z3T(30), SMTT(30), <2>5, p \in Seq(Sink)
    <3> QED
      BY ZenonT(60), <2>5, <3>1, <3>2
  <2>8. ASSUME NEW k \in DOMAIN sent'
        PROVE  Past(sent[k])'
    <3>1. sent'[k] = p \/ (k \in DOMAIN sent /\ sent'[k] = sent[k])
      <4>1. k \in DOMAIN Append(sent, p)
        BY ZenonT(60), <2>5
      <4>2. Append(sent, p)[k] = p \/ (k \in DOMAIN sent /\ Append(sent, p)[k] = sent[k])
        BY ONLY Z3T(30), SMTT(30), <2>5, <4>1, p \in Seq(Sink)
      <4> QED
        BY ZenonT(60), <2>5, <4>2
    <3>2. PICK a : a = sent'[k] /\ (a = p \/ Past(a))
      BY ZenonT(60), <2>6, <3>1
    <3> QED
      BY ZenonT(60), <1>2, <2>4, <3>2
  <2>9. ValidChildren(children)'
    BY ZenonT(60), <1>0 DEF PathInv
  <2> QED
    BY ZenonT(60), <1>1, <2>7, <2>8, <2>9 DEF PathInv
<1>4. CASE ~(acked /\ ~Envelope)
  <2>1. UNCHANGED <<children, sent>>
    BY ZenonT(60), <1>0, <1>4
  <2> QED
    BY ZenonT(60), <1>0, <1>1, <1>2, <2>1, PathsKept
<1> QED
  BY ZenonT(60), <1>3, <1>4

-----------------------------------------------------------------------------
LEMMA InitPaths ==
  ASSUME NEW layouts \in SUBSET AnyLayout, \A l \in layouts : ValidChildren(l.children),
         DeliveryInit(layouts)
  PROVE  PathInv
<1> DEFINE g == DeliverFrame(root, FALSE)
<1>1. ValidChildren(children) /\ sent = <<>> /\ stack = <<g>>
  BY ZenonT(60) DEF DeliveryInit
<1>2. g.attempt = 1
  BY DEF DeliverFrame
<1> HIDE DEF g
<1>3. /\ Len(stack) = 1 /\ stack[1] = g /\ 1 .. Len(stack) = {1} /\ 1 .. Len(stack) - 1 = {} /\ 1 >= 1
      /\ sent \in Seq(Seq(Sink)) /\ DOMAIN sent = {}
  BY ONLY Z3T(30), SMTT(30), <1>1
<1>4. EnvOK
  BY ZenonT(60), <1>2, <1>3 DEF EnvOK
<1>5. IsInjective(sent) /\ \A k \in DOMAIN sent : Past(sent[k])
  BY ZenonT(60), <1>3 DEF IsInjective
<1> QED
  BY ZenonT(60), <1>1, <1>3, <1>4, <1>5 DEF PathInv

LEMMA NextPaths ==
  ASSUME DeliveryInv, PathInv, [DeliveryNext]_deliveryVars
  PROVE  PathInv'
<1>1. CASE DeliveryStep
  BY ZenonT(60), <1>1, AttemptPast, EnterPast, ConcludePast, NextPast, ChildDonePast, ExitPast
     DEF DeliveryStep
<1>2. CASE DriverReturns
  BY ZenonT(60), <1>2, DriverPast DEF DriverReturns
<1>3. ASSUME UNCHANGED <<setup, stack, ret, sent>> PROVE PathInv'
  <2>1. UNCHANGED <<children, stack, ret, sent, Top>>
    BY ZenonT(60), <1>3 DEF setup, Top, Peek
  <2>2. EnvOK' /\ \A a : Past(a) => Past(a)'
    BY ZenonT(60), <2>1 DEF PathInv, EnvOK, Wraps, Past, PastTop, PastChild, Agree, IsComposite
  <2>3. CASE stack # <<>>
    BY ZenonT(60), <2>1, <2>2, <2>3, PathsKept
  <2>4. CASE stack = <<>>
    BY ZenonT(60), <2>1, <2>2, <2>4 DEF PathInv
  <2> QED
    BY ZenonT(60), <2>3, <2>4
<1>4. CASE ContextDone
  BY ZenonT(60), <1>3, <1>4 DEF ContextDone
<1>5. CASE UNCHANGED deliveryVars
  BY ZenonT(60), <1>3, <1>5 DEF deliveryVars, setup
<1> QED
  BY ZenonT(60), <1>1, <1>2, <1>4, <1>5 DEF DeliveryNext

\* For any layout whose composites name each child once, cyclic or not, any dead letters
\* and any number of attempts: no retry of a composite, of a dead letter or of a sibling
\* makes RetryingPublisher.Deliver send the change again along a path that has
\* acknowledged it.
THEOREM ChildrenGetItOnce ==
  ASSUME NEW layouts \in SUBSET AnyLayout, \A l \in layouts : ValidChildren(l.children)
  PROVE  DeliveryInit(layouts) /\ [][DeliveryNext]_deliveryVars => []NoResendToChildren
<1>1. DeliveryInit(layouts) => DeliveryInv /\ PathInv
  BY InitDelivery, InitPaths
<1>2. DeliveryInv /\ PathInv /\ [DeliveryNext]_deliveryVars => DeliveryInv' /\ PathInv'
  BY ZenonT(60), NextDelivery, NextPaths
<1>3. PathInv => NoResendToChildren
  BY ZenonT(60) DEF PathInv, NoResendToChildren
<1> QED
  BY <1>1, <1>2, <1>3, PTL

-----------------------------------------------------------------------------
(* StreamConfirm *)

StreamTypeOK ==
  /\ step \in [Caller -> {"idle", "lock", "send", "wait"}]
  /\ calls \in [Caller -> Nat]
  /\ expired \in [Caller -> BOOLEAN]
  /\ mutex \subseteq Caller
  /\ outcome = [p \in Caller |-> outcome[p]]

\* The mutex is held by the one Publish that sends or waits.
OneInside ==
  /\ \A p \in Caller : p \in mutex <=> step[p] \in {"send", "wait"}
  /\ \A p, q \in mutex : p = q

\* The message of a Publish that waits is with the client or its report is in the
\* channel, and nothing else is; while none waits, there is nothing.
UnderWay(p) ==
  \/ flight = {Msg(p)} /\ confirms = <<>>
  \/ flight = {} /\ \E ok \in BOOLEAN : confirms = <<[of |-> Msg(p), ok |-> ok]>>

ChannelIsOwn ==
  /\ \A p \in Caller : step[p] = "wait" => UnderWay(p)
  /\ (\A p \in Caller : step[p] # "wait") => flight = {} /\ confirms = <<>>

StreamInv == StreamTypeOK /\ OneInside /\ ChannelIsOwn /\ ConfirmIsOwn

LEMMA StreamInitInv == StreamInit => StreamInv
BY DEF StreamInit, StreamInv, StreamTypeOK, OneInside, ChannelIsOwn, ConfirmIsOwn

LEMMA StreamNextInv == StreamInv /\ [StreamNext]_streamVars => StreamInv'
<1> SUFFICES ASSUME StreamInv, [StreamNext]_streamVars PROVE StreamInv'
  OBVIOUS
<1>0. StreamTypeOK /\ OneInside /\ ChannelIsOwn /\ ConfirmIsOwn
  BY DEF StreamInv
<1>1. ASSUME NEW p \in Caller, Call(p) PROVE StreamInv'
  <2>1. StreamTypeOK'
    BY <1>0, <1>1 DEF Call, StreamTypeOK
  <2>2. OneInside'
    BY <1>0, <1>1 DEF Call, StreamTypeOK, OneInside
  <2>3. \A q \in Caller : q # p => Msg(q)' = Msg(q) /\ step'[q] = step[q]
    BY <1>0, <1>1 DEF Call, StreamTypeOK, Msg
  <2>4. step[p] = "idle" /\ step'[p] = "lock" /\ UNCHANGED <<flight, confirms>>
    BY <1>0, <1>1 DEF Call, StreamTypeOK
  <2>5. ChannelIsOwn'
    BY <1>0, <2>3, <2>4 DEF ChannelIsOwn, UnderWay
  <2>6. ConfirmIsOwn'
    BY <1>0, <1>1, <2>3 DEF Call, StreamTypeOK, ConfirmIsOwn
  <2> QED
    BY <2>1, <2>2, <2>5, <2>6 DEF StreamInv
<1>2. ASSUME NEW p \in Caller, Lock(p) PROVE StreamInv'
  <2>0. UNCHANGED <<calls, expired, flight, confirms, outcome>> /\ \A q \in Caller : Msg(q)' = Msg(q)
    BY <1>2 DEF Lock, Msg
  <2>1. StreamTypeOK'
    BY <1>0, <1>2 DEF Lock, StreamTypeOK
  <2>2. OneInside'
    BY <1>0, <1>2 DEF Lock, MayEnter, StreamTypeOK, OneInside
  <2>3. \A q \in Caller : step'[q] = "wait" <=> step[q] = "wait"
    BY <1>0, <1>2 DEF Lock, StreamTypeOK
  <2>4. ChannelIsOwn' /\ ConfirmIsOwn'
    BY <1>0, <2>0, <2>3 DEF ChannelIsOwn, UnderWay, ConfirmIsOwn
  <2> QED
    BY <2>1, <2>2, <2>4 DEF StreamInv
<1>3. ASSUME NEW p \in Caller, Refuse(p) PROVE StreamInv'
  <2>0. UNCHANGED <<calls, expired, flight, confirms, outcome>> /\ \A q \in Caller : Msg(q)' = Msg(q)
    BY <1>3 DEF Refuse, Msg
  <2>1. StreamTypeOK'
    BY <1>0, <1>3 DEF Refuse, Leave, StreamTypeOK
  <2>2. OneInside'
    BY <1>0, <1>3 DEF Refuse, Leave, StreamTypeOK, OneInside
  <2>3. \A q \in Caller : step'[q] = "wait" <=> step[q] = "wait"
    BY <1>0, <1>3 DEF Refuse, Leave, StreamTypeOK
  <2>4. ChannelIsOwn' /\ ConfirmIsOwn'
    BY <1>0, <2>0, <2>3 DEF ChannelIsOwn, UnderWay, ConfirmIsOwn
  <2> QED
    BY <2>1, <2>2, <2>4 DEF StreamInv
<1>4. ASSUME NEW p \in Caller, Send(p) PROVE StreamInv'
  <2>0. UNCHANGED <<calls, expired, mutex, confirms, outcome>> /\ \A q \in Caller : Msg(q)' = Msg(q)
    BY <1>4 DEF Send, Msg
  <2>1. StreamTypeOK'
    BY <1>0, <1>4 DEF Send, StreamTypeOK
  <2>2. OneInside'
    BY <1>0, <1>4 DEF Send, StreamTypeOK, OneInside
  <2>3. \A q \in Caller : step[q] # "wait"
    BY <1>0, <1>4 DEF Send, OneInside
  <2>4. flight' = {Msg(p)} /\ confirms' = <<>>
    BY <1>0, <1>4, <2>0, <2>3 DEF Send, ChannelIsOwn
  <2>5. \A q \in Caller : step'[q] = "wait" <=> q = p
    BY <1>0, <1>4, <2>3 DEF Send, StreamTypeOK
  <2>6. ChannelIsOwn' /\ ConfirmIsOwn'
    BY <1>0, <2>0, <2>4, <2>5 DEF ChannelIsOwn, UnderWay, ConfirmIsOwn
  <2> QED
    BY <2>1, <2>2, <2>6 DEF StreamInv
<1>5. ASSUME NEW p \in Caller, Receive(p) PROVE StreamInv'
  <2>0. /\ step[p] = "wait" /\ confirms # <<>> /\ confirms' = Tail(confirms)
        /\ outcome' = [outcome EXCEPT ![p] = Head(confirms)]
        /\ UNCHANGED <<calls, expired, flight>> /\ \A q \in Caller : Msg(q)' = Msg(q)
    BY <1>5 DEF Receive, GivesUp, Msg
  <2>1. StreamTypeOK'
    BY ZenonT(60), <1>0, <1>5, <2>0 DEF Receive, Leave, StreamTypeOK
  <2>2. OneInside'
    BY <1>0, <1>5 DEF Receive, Leave, StreamTypeOK, OneInside
  <2>3. PICK ok \in BOOLEAN : flight = {} /\ confirms = <<[of |-> Msg(p), ok |-> ok]>>
    BY <1>0, <2>0 DEF ChannelIsOwn, UnderWay
  <2>4. flight' = {} /\ confirms' = <<>> /\ Head(confirms).of = Msg(p)
    BY <2>0, <2>3
  <2>5. \A q \in Caller : step'[q] # "wait"
    BY <1>0, <1>5, <2>0 DEF Receive, Leave, StreamTypeOK, OneInside
  <2>6. ChannelIsOwn'
    BY <2>4, <2>5 DEF ChannelIsOwn
  <2>7. ConfirmIsOwn'
    BY <1>0, <2>0, <2>4 DEF ConfirmIsOwn, StreamTypeOK
  <2> QED
    BY <2>1, <2>2, <2>6, <2>7 DEF StreamInv
<1>6. CASE Report
  <2>0. UNCHANGED <<step, calls, expired, mutex, outcome>> /\ \A q \in Caller : Msg(q)' = Msg(q)
    BY <1>6 DEF Report, Msg
  <2>1. StreamTypeOK' /\ OneInside' /\ ConfirmIsOwn'
    BY <1>0, <2>0 DEF StreamTypeOK, OneInside, ConfirmIsOwn
  <2>2. PICK m \in flight, ok \in BOOLEAN :
          confirms' = <<[of |-> m, ok |-> ok]>> /\ flight' = flight \ {m}
    BY <1>6 DEF Report
  <2>3. ASSUME NEW p \in Caller, step[p] = "wait" PROVE UnderWay(p)'
    <3>1. flight = {Msg(p)}
      BY <1>0, <2>2, <2>3 DEF ChannelIsOwn, UnderWay
    <3>2. m = Msg(p) /\ flight' = {}
      BY <2>2, <3>1
    <3> QED
      BY <2>0, <2>2, <3>2 DEF UnderWay
  <2>4. \E p \in Caller : step[p] = "wait"
    BY <1>0, <2>2 DEF ChannelIsOwn
  <2>5. ChannelIsOwn'
    BY <2>0, <2>3, <2>4 DEF ChannelIsOwn
  <2> QED
    BY <2>1, <2>5 DEF StreamInv
<1>7. ASSUME NEW p \in Caller, Expire(p) PROVE StreamInv'
  <2>1. UNCHANGED <<step, calls, mutex, flight, confirms, outcome>> /\ \A q \in Caller : Msg(q)' = Msg(q)
    BY <1>7 DEF Expire, Msg
  <2>2. StreamTypeOK'
    BY <1>0, <1>7 DEF Expire, StreamTypeOK
  <2>3. OneInside' /\ ChannelIsOwn' /\ ConfirmIsOwn'
    BY <1>0, <2>1 DEF OneInside, ChannelIsOwn, UnderWay, ConfirmIsOwn
  <2> QED
    BY <2>2, <2>3 DEF StreamInv
<1>8. CASE UNCHANGED streamVars
  <2>1. \A q \in Caller : Msg(q)' = Msg(q)
    BY <1>8 DEF streamVars, Msg
  <2> QED
    BY <1>0, <1>8, <2>1
    DEF streamVars, StreamInv, StreamTypeOK, OneInside, ChannelIsOwn, UnderWay, ConfirmIsOwn
<1> QED
  BY <1>1, <1>2, <1>3, <1>4, <1>5, <1>6, <1>7, <1>8 DEF StreamNext, StreamProgress

\* The confirmation that a Publish of the stream sink takes is its own, for any
\* number of callers: the mutex spans the send and the receive, and the receive
\* does not give up while the message is under way.
THEOREM StreamConfirmsOwn == StreamSpec => []ConfirmIsOwn
<1>1. StreamInv => ConfirmIsOwn
  BY DEF StreamInv
<1> QED
  BY <1>1, StreamInitInv, StreamNextInv, PTL DEF StreamSpec

-----------------------------------------------------------------------------
(* Sinks *)

Changes == [item : SinkItem, hash : Hash, at : Nat \ {0}]

SinksTypeOK ==
  /\ driver \in AllDrivers
  /\ content \in [SinkItem -> Hash]
  /\ stored \in [SinkItem -> Hash \cup {NoHash}] /\ storedAt \in [SinkItem -> Nat]
  /\ change \in Changes \cup {NoChange} /\ dest \in Seq(Changes) /\ late \subseteq Changes
  /\ landed \in BOOLEAN /\ polls \in Nat

Rule == Sent(NoChange).known
Waits == Sent(NoChange).waits

\* What a retry or a late request may still send.
Pending == late \cup ({change} \ {NoChange})
Everything == Pending \cup {dest[k] : k \in DOMAIN dest}

\* The detection time tells changes apart, and is that of no change to come.
TimesTell ==
  /\ \A c \in Everything : c.at <= polls
  /\ \A c, d \in Everything : c.at = d.at => c = d
  /\ change # NoChange => change.at = polls
  /\ \A i \in SinkItem : stored[i] # NoHash =>
       /\ storedAt[i] <= polls
       /\ \A c \in Everything : c.at = storedAt[i] => c.item = i /\ c.hash = stored[i]

\* Unless a late request has landed, the entries of an item are in order of detection,
\* and one is as new as the commit.
InTime ==
  ~landed =>
    /\ \A j, k \in DOMAIN dest : j < k /\ dest[j].item = dest[k].item => dest[j].at <= dest[k].at
    /\ Waits /\ Rule # "coalesce" /\ driver # "cosmosdb" =>
         \A i \in SinkItem : stored[i] # NoHash =>
           \E k \in EntriesOf(i) : dest[k].at >= storedAt[i]

\* What a deduplication window goes by.
Detects == driver \in {"amqp10_dedup", "azureservicebus_dedup"}
IDBy(detects, i, h) == IF detects THEN <<i>> ELSE <<i, h>>
MsgID(i, h) == IDBy(Detects, i, h)

\* A destination with a deduplication window has what the window knows and the ids of
\* what was committed, and the window knows every message that may be sent again.
WindowOK ==
  Rule = "coalesce" =>
    /\ \A id \in dedup : \E k \in DOMAIN dest : id = MsgID(dest[k].item, dest[k].hash)
    /\ \A c \in Pending : (\E k \in DOMAIN dest : dest[k] = c) => MsgID(c.item, c.hash) \in dedup
    /\ \A i \in SinkItem : stored[i] # NoHash =>
         \E k \in EntriesOf(i) : MsgID(dest[k].item, dest[k].hash) = MsgID(i, stored[i])

OneEach ==
  /\ Rule # "append" => IsInjective(dest)
  /\ Rule = "replace" => \A j, k \in DOMAIN dest : dest[j].item = dest[k].item => j = k

\* One of an item's entries is the last.
HasLast ==
  \A i \in SinkItem : EntriesOf(i) # {} => \E k \in EntriesOf(i) : \A j \in EntriesOf(i) : j <= k

SinksInv == SinksTypeOK /\ TimesTell /\ InTime /\ WindowOK /\ OneEach /\ HasLast

-----------------------------------------------------------------------------
\* How a driver's messages are identified does not depend on the message.
Appending ==
  AllDrivers \ {"amqp10_dedup", "azureservicebus_dedup", "sqs_fifo", "sns_fifo",
                "postgres", "dynamodb", "cosmosdb"}

LEMMA SentAppends ==
  ASSUME driver \in Appending
  PROVE  \E w \in BOOLEAN : \A c : Sent(c) = Appends(w)
<1>1. CASE driver \in {"amqp091", "kafka_noacks"}
  <2>1. \A c : Sent(c) = Appends(FALSE)
    BY ZenonT(60), <1>1 DEF Sent, Kafka, Amqp091
  <2> QED
    BY ZenonT(60), <2>1
<1>2. CASE driver \in {"kafka", "amqp10", "rabbitmq_stream", "nats", "gcp_pubsub"}
  <2>1. \A c : Sent(c) = Appends(TRUE)
    BY ZenonT(60), <1>2 DEF Sent, Kafka, Amqp10, RabbitmqStream, Nats, GcpPubsub
  <2> QED
    BY ZenonT(60), <2>1
<1>3. CASE driver \in {"azureservicebus", "http", "grpc", "dapr", "stdout", "sqs", "sns"}
  <2>1. \A c : Sent(c) = Appends(TRUE)
    BY ZenonT(60), <1>3 DEF Sent, AzureServiceBus, Http, Grpc, Dapr, Stdout, Sqs, Sns
  <2> QED
    BY ZenonT(60), <2>1
<1> QED
  BY ZenonT(60), <1>1, <1>2, <1>3 DEF Appending, AllDrivers

LEMMA SentFacts ==
  ASSUME driver \in AllDrivers, NEW c
  PROVE  /\ Sent(c).known = Rule /\ Sent(c).waits = Waits
         /\ Rule \in {"append", "coalesce", "keep", "replace"}
         /\ Rule = "coalesce" => Waits /\ Sent(c).id = MsgID(c.item, c.hash)
         /\ Rule = "keep" => Sent(c).id = IF driver = "cosmosdb" THEN <<c.item>> ELSE <<c.item, c.at>>
         /\ Rule = "replace" => Sent(c).id = <<c.item>>
<1>1. CASE driver \in Appending
  <2>1. PICK w \in BOOLEAN : \A d : Sent(d) = Appends(w)
    BY <1>1, SentAppends
  <2> QED
    BY <2>1 DEF Appends, Rule, Waits
<1>2. CASE driver = "sqs_fifo"
  <2>1. \A d : Sent(d) = Coalesces(<<d.item, d.hash>>)
    BY ZenonT(60), <1>2 DEF Sent, Sqs, fifoDedupID
  <2> QED
    BY ZenonT(60), <1>2, <2>1 DEF Rule, Waits, Coalesces, MsgID, IDBy, Detects
<1>3. CASE driver = "sns_fifo"
  <2>1. \A d : Sent(d) = Coalesces(<<d.item, d.hash>>)
    BY ZenonT(60), <1>3 DEF Sent, Sns, SnsDedupID
  <2> QED
    BY ZenonT(60), <1>3, <2>1 DEF Rule, Waits, Coalesces, MsgID, IDBy, Detects
<1>4. CASE driver = "postgres"
  <2>1. \A d : Sent(d) = [id |-> <<d.item, d.at>>, known |-> "keep", waits |-> TRUE]
    BY ZenonT(60), <1>4 DEF Sent, Postgres, PostgresKey
  <2> QED
    BY ZenonT(60), <1>4, <2>1 DEF Rule, Waits
<1>5. CASE driver = "dynamodb"
  <2>1. \A d : Sent(d) = [id |-> <<d.item>>, known |-> "replace", waits |-> TRUE]
    BY ZenonT(60), <1>5 DEF Sent, DynamoDB
  <2> QED
    BY ZenonT(60), <2>1 DEF Rule, Waits
<1>6. CASE driver = "cosmosdb"
  <2>1. \A d : Sent(d) = [id |-> <<d.item>>, known |-> "keep", waits |-> TRUE]
    BY ZenonT(60), <1>6 DEF Sent, CosmosDB, docID
  <2> QED
    BY ZenonT(60), <1>6, <2>1 DEF Rule, Waits
<1>7. CASE Detects
  <2>1. \A d : Sent(d) = Coalesces(<<d.item>>)
    BY ZenonT(60), <1>7 DEF Sent, Detects, Amqp10, AzureServiceBus
  <2> QED
    BY ZenonT(60), <1>7, <2>1 DEF Rule, Waits, Coalesces, MsgID, IDBy
<1> QED
  BY ZenonT(60), <1>1, <1>2, <1>3, <1>4, <1>5, <1>6, <1>7 DEF Appending, AllDrivers, Detects

LEMMA RuleStays ==
  ASSUME driver' = driver
  PROVE  Rule' = Rule /\ Waits' = Waits /\ Detects' = Detects
BY ZenonT(60) DEF Rule, Waits, Detects, Sent, NoChange, Kafka, Appends, Coalesces, Amqp091, Amqp10, RabbitmqStream,
  Nats, GcpPubsub, AzureServiceBus, Http, Grpc, Dapr, Stdout, Sqs, Sns, fifoDedupID, SnsDedupID,
  Postgres, PostgresKey, DynamoDB, CosmosDB, docID

\* Whatever a window goes by tells items apart.
LEMMA MsgIDTellsItems ==
  ASSUME NEW i, NEW h, NEW j, NEW g, MsgID(i, h) = MsgID(j, g)
  PROVE  i = j
<1>1. CASE Detects
  <2>1. <<i>> = <<j>>
    BY ZenonT(60), <1>1 DEF MsgID, IDBy
  <2> QED
    BY ONLY Z3T(30), ZenonT(20), SMTT(30), <2>1
<1>2. CASE ~Detects
  <2>1. <<i, h>> = <<j, g>>
    BY ZenonT(60), <1>2 DEF MsgID, IDBy
  <2> QED
    BY ONLY Z3T(30), ZenonT(20), SMTT(30), <2>1
<1> QED
  BY ZenonT(60), <1>1, <1>2

\* What a message that reaches the destination does there, by the driver's rule.
Appended(c) ==
  /\ dest' = Append(dest, c)
  /\ Rule = "coalesce" => MsgID(c.item, c.hash) \notin dedup
  /\ Rule = "replace" => \A k \in DOMAIN dest : dest[k].item # c.item
  /\ Rule = "keep" => \A k \in DOMAIN dest : dest[k] # c

Ignored(c) ==
  /\ dest' = dest
  /\ \/ Rule = "coalesce" /\ MsgID(c.item, c.hash) \in dedup
     \/ Rule = "keep" /\ driver = "cosmosdb"
     \/ Rule = "keep" /\ \E k \in DOMAIN dest : dest[k].item = c.item /\ dest[k].at = c.at

Replaced(c) ==
  /\ Rule = "replace" /\ \E k \in DOMAIN dest : dest[k].item = c.item
  /\ dest' = [k \in DOMAIN dest |-> IF dest[k].item = c.item THEN c ELSE dest[k]]

LEMMA ReachEffect ==
  ASSUME SinksTypeOK, NEW c \in Changes, Reach(c)
  PROVE  /\ Appended(c) \/ Ignored(c) \/ Replaced(c)
         /\ dedup' = IF Rule = "coalesce" THEN dedup \cup {MsgID(c.item, c.hash)} ELSE dedup
<1>1. /\ Sent(c).known = Rule
      /\ Rule \in {"append", "coalesce", "keep", "replace"}
      /\ Rule = "coalesce" => Sent(c).id = MsgID(c.item, c.hash)
  BY ZenonT(60), SentFacts DEF SinksTypeOK
<1>2. dedup' = IF Rule = "coalesce" THEN dedup \cup {MsgID(c.item, c.hash)} ELSE dedup
  BY ZenonT(60), <1>1 DEF Reach
<1>3. CASE Rule = "append"
  BY ZenonT(60), <1>1, <1>2, <1>3 DEF Reach, Appended
<1>4. CASE Rule = "coalesce"
  BY ZenonT(60), <1>1, <1>2, <1>4 DEF Reach, Appended, Ignored
<1>5. CASE Rule = "keep"
  <2>1. dest' = IF Holds(c) THEN dest ELSE Append(dest, c)
    BY ZenonT(60), <1>1, <1>5 DEF Reach
  <2>2. ~Holds(c) => \A k \in DOMAIN dest : dest[k] # c
    BY ZenonT(60) DEF Holds
  <2>3. CASE Holds(c) /\ driver # "cosmosdb"
    <3>1. PICK k \in DOMAIN dest : Sent(dest[k]).id = Sent(c).id
      BY <2>3 DEF Holds
    <3>2. \A d : Sent(d).id = <<d.item, d.at>>
      BY ZenonT(60), <1>5, <2>3, SentFacts DEF SinksTypeOK
    <3>3. <<dest[k].item, dest[k].at>> = <<c.item, c.at>>
      BY <3>1, <3>2
    <3>4. dest[k].item = c.item /\ dest[k].at = c.at
      BY <3>3
    <3> QED
      BY ZenonT(60), <1>2, <1>5, <2>1, <2>3, <3>4 DEF Ignored
  <2> QED
    BY ZenonT(60), <1>2, <1>5, <2>1, <2>2, <2>3 DEF Appended, Ignored
<1>6. CASE Rule = "replace"
  <2>1. dest' = IF Holds(c)
                THEN [k \in DOMAIN dest |-> IF dest[k].item = c.item THEN c ELSE dest[k]]
                ELSE Append(dest, c)
    BY ZenonT(60), <1>1, <1>6 DEF Reach
  <2>2. \A d : Sent(d).id = <<d.item>>
    BY ZenonT(60), <1>6, SentFacts DEF SinksTypeOK
  <2>3. \A k \in DOMAIN dest : Sent(dest[k]).id = Sent(c).id <=> dest[k].item = c.item
    <3> SUFFICES ASSUME NEW k \in DOMAIN dest
                 PROVE  Sent(dest[k]).id = Sent(c).id <=> dest[k].item = c.item
      OBVIOUS
    <3>1. <<dest[k].item>> = <<c.item>> <=> dest[k].item = c.item
      OBVIOUS
    <3> QED
      BY ZenonT(60), <2>2, <3>1
  <2>4. Holds(c) <=> \E k \in DOMAIN dest : dest[k].item = c.item
    BY ZenonT(60), <2>3 DEF Holds
  <2> QED
    BY ZenonT(60), <1>2, <1>6, <2>1, <2>4 DEF Appended, Replaced
<1> QED
  BY ZenonT(60), <1>1, <1>3, <1>4, <1>5, <1>6

\* An appended entry comes last, and what was there keeps its place.
LEMMA AppendedEntries ==
  ASSUME SinksTypeOK, NEW c \in Changes, Appended(c)
  PROVE  /\ DOMAIN dest = 1..Len(dest) /\ DOMAIN dest' = 1..(Len(dest) + 1) /\ Len(dest) \in Nat
         /\ \A k \in DOMAIN dest : k \in DOMAIN dest' /\ dest'[k] = dest[k]
         /\ \A k \in DOMAIN dest' : k \in DOMAIN dest \/ k = Len(dest) + 1
         /\ Len(dest) + 1 \in DOMAIN dest' /\ dest'[Len(dest) + 1] = c
         /\ dest' \in Seq(Changes)
<1>1. dest \in Seq(Changes) /\ dest' = Append(dest, c)
  BY ZenonT(60) DEF SinksTypeOK, Appended
<1>2. /\ DOMAIN dest = 1..Len(dest) /\ Len(dest) \in Nat /\ Len(dest') = Len(dest) + 1
      /\ dest' \in Seq(Changes) /\ DOMAIN dest' = 1..Len(dest')
      /\ \A k \in 1..Len(dest) : dest'[k] = dest[k]
      /\ dest'[Len(dest) + 1] = c
  BY ONLY Z3T(30), ZenonT(20), SMTT(30), <1>1, c \in Changes
<1> QED
  BY ONLY Z3T(30), ZenonT(20), SMTT(30), <1>2

\* A message leaves one entry of a change, and no entry that was neither there nor it.
LEMMA ReachEntries ==
  ASSUME SinksInv, NEW c \in Pending, c \in Changes, Reach(c), driver' = driver
  PROVE  /\ dest' \in Seq(Changes) /\ OneEach'
         /\ \A k \in DOMAIN dest' : dest'[k] = c \/ \E j \in DOMAIN dest : dest'[k] = dest[j]
<1>0. SinksTypeOK /\ OneEach /\ dest \in Seq(Changes)
  BY ZenonT(60) DEF SinksInv, SinksTypeOK
<1>1. Rule' = Rule
  BY ZenonT(60), RuleStays
<1>2. CASE Ignored(c)
  BY ZenonT(60), <1>0, <1>1, <1>2 DEF OneEach, IsInjective, Ignored
<1>3. CASE Appended(c)
  <2>1. /\ \A k \in DOMAIN dest : k \in DOMAIN dest' /\ dest'[k] = dest[k]
        /\ \A k \in DOMAIN dest' : k \in DOMAIN dest \/ k = Len(dest) + 1
        /\ dest'[Len(dest) + 1] = c /\ dest' \in Seq(Changes)
    BY ZenonT(60), <1>0, <1>3, AppendedEntries
  <2>2. \A k \in DOMAIN dest' : dest'[k] = c \/ \E j \in DOMAIN dest : dest'[k] = dest[j]
    BY ZenonT(60), <2>1
  <2>3. Rule # "append" => \A k \in DOMAIN dest : dest[k] # c
    <3>1. CASE Rule = "coalesce"
      BY ZenonT(60), <1>3, <3>1 DEF SinksInv, WindowOK, Appended
    <3>2. CASE Rule = "keep"
      BY ZenonT(60), <1>3, <3>2 DEF Appended
    <3>3. CASE Rule = "replace"
      BY ZenonT(60), <1>3, <3>3 DEF Appended
    <3> QED
      BY ZenonT(60), <1>0, <3>1, <3>2, <3>3, SentFacts DEF SinksTypeOK
  <2>4. Rule = "replace" => \A k \in DOMAIN dest : dest[k].item # c.item
    BY ZenonT(60), <1>3 DEF Appended
  <2>5. (Rule # "append" => IsInjective(dest))'
    BY ONLY Z3T(30), ZenonT(20), SMTT(30), <1>0, <1>1, <2>1, <2>3 DEF OneEach, IsInjective
  <2>6. (Rule = "replace" => \A j, k \in DOMAIN dest : dest[j].item = dest[k].item => j = k)'
    <3>1. \A j, k \in DOMAIN dest : Rule = "replace" /\ dest[j].item = dest[k].item => j = k
      BY ZenonT(60), <1>0 DEF OneEach
    <3> QED
      BY ONLY Z3T(30), ZenonT(20), SMTT(30), <1>1, <2>1, <2>4, <3>1
  <2> QED
    BY ZenonT(60), <2>1, <2>2, <2>5, <2>6 DEF OneEach
<1>4. CASE Replaced(c)
  <2>1. dest' \in Seq(Changes) /\ DOMAIN dest' = DOMAIN dest
    <3>1. dest \in [1..Len(dest) -> Changes] /\ Len(dest) \in Nat
      BY ONLY Z3T(30), ZenonT(20), SMTT(30), <1>0
    <3>2. dest' \in [1..Len(dest) -> Changes]
      BY ZenonT(60), <1>4, <3>1 DEF Replaced
    <3> QED
      BY ONLY Z3T(30), ZenonT(20), SMTT(30), <3>1, <3>2
  <2>2. \A k \in DOMAIN dest : dest'[k] = IF dest[k].item = c.item THEN c ELSE dest[k]
    BY ZenonT(60), <1>4 DEF Replaced
  <2>3. \A k \in DOMAIN dest : dest'[k].item = dest[k].item
    BY ZenonT(60), <2>2
  <2>4. (\A j, k \in DOMAIN dest : dest[j].item = dest[k].item => j = k)'
    <3>1. \A j, k \in DOMAIN dest : dest[j].item = dest[k].item => j = k
      BY ZenonT(60), <1>0, <1>4 DEF OneEach, Replaced
    <3> QED
      BY ONLY Z3T(30), ZenonT(20), SMTT(30), <2>1, <2>3, <3>1
  <2>5. IsInjective(dest)'
    BY ZenonT(60), <2>4 DEF IsInjective
  <2> QED
    BY ZenonT(60), <1>1, <2>1, <2>2, <2>4, <2>5 DEF OneEach, Replaced
<1> QED
  BY ZenonT(60), <1>0, <1>2, <1>3, <1>4, ReachEffect

LEMMA LastStays ==
  ASSUME HasLast, dest' = dest
  PROVE  HasLast'
<1>1. \A i \in SinkItem : EntriesOf(i)' = EntriesOf(i)
  BY ZenonT(60) DEF EntriesOf
<1> QED
  BY ZenonT(60), <1>1 DEF HasLast

\* An item's last entry stays the last, or the new one is.
LEMMA ReachLast ==
  ASSUME SinksInv, NEW c \in Changes, Reach(c)
  PROVE  HasLast'
<1> SUFFICES ASSUME NEW i \in SinkItem, EntriesOf(i)' # {}
             PROVE  \E k \in EntriesOf(i)' : \A j \in EntriesOf(i)' : j <= k
  BY ZenonT(60) DEF HasLast
<1>1. CASE EntriesOf(i)' = EntriesOf(i)
  BY ZenonT(60), <1>1 DEF SinksInv, HasLast
<1>2. CASE Ignored(c)
  BY ZenonT(60), <1>1, <1>2 DEF Ignored, EntriesOf
<1>3. CASE Appended(c)
  <2>1. /\ DOMAIN dest = 1..Len(dest) /\ DOMAIN dest' = 1..(Len(dest) + 1) /\ Len(dest) \in Nat
        /\ \A k \in DOMAIN dest : k \in DOMAIN dest' /\ dest'[k] = dest[k]
        /\ Len(dest) + 1 \in DOMAIN dest' /\ dest'[Len(dest) + 1] = c
    BY ZenonT(60), <1>3, AppendedEntries DEF SinksInv
  <2>2. \A k \in DOMAIN dest' : k <= Len(dest) + 1 /\ (k \in DOMAIN dest \/ k = Len(dest) + 1)
    BY <2>1
  <2>3. CASE c.item = i
    BY ZenonT(60), <2>1, <2>2, <2>3 DEF EntriesOf
  <2>4. CASE c.item # i
    <3>1. EntriesOf(i)' = EntriesOf(i)
      BY ZenonT(60), <2>1, <2>2, <2>4 DEF EntriesOf
    <3> QED
      BY <1>1, <3>1
  <2> QED
    BY <2>3, <2>4
<1>4. CASE Replaced(c)
  <2>1. /\ DOMAIN dest' = DOMAIN dest
        /\ \A k \in DOMAIN dest : dest'[k] = IF dest[k].item = c.item THEN c ELSE dest[k]
    BY ZenonT(60), <1>4 DEF Replaced
  <2>2. \A k \in DOMAIN dest : dest'[k].item = dest[k].item
    BY ZenonT(60), <2>1
  <2>3. EntriesOf(i)' = EntriesOf(i)
    BY ZenonT(60), <2>1, <2>2 DEF EntriesOf
  <2> QED
    BY <1>1, <2>3
<1> QED
  BY ZenonT(60), <1>2, <1>3, <1>4, ReachEffect DEF SinksInv

\* The window knows what was sent, and what it knows is in the queue.
LEMMA ReachWindow ==
  ASSUME SinksInv, Rule = "coalesce", NEW c \in Pending, c \in Changes, Reach(c)
  PROVE  /\ \A id \in dedup' : \E k \in DOMAIN dest' : id = MsgID(dest'[k].item, dest'[k].hash)
         /\ \A d \in Pending :
              (\E k \in DOMAIN dest' : dest'[k] = d) => MsgID(d.item, d.hash) \in dedup'
         /\ \E k \in DOMAIN dest' :
              dest'[k].item = c.item /\ MsgID(dest'[k].item, dest'[k].hash) = MsgID(c.item, c.hash)
         /\ \A j \in DOMAIN dest : \E k \in DOMAIN dest' : dest'[k] = dest[j]
<1>1. /\ dedup' = dedup \cup {MsgID(c.item, c.hash)}
      /\ Appended(c) \/ Ignored(c)
  BY ZenonT(60), ReachEffect DEF SinksInv, Replaced
<1>2. CASE Appended(c)
  <2>1. \A j \in DOMAIN dest : \E k \in DOMAIN dest' : dest'[k] = dest[j]
    BY ZenonT(60), <1>2, AppendedEntries DEF SinksInv
  <2>2. \E k \in DOMAIN dest' : dest'[k] = c
    BY ZenonT(60), <1>2, AppendedEntries DEF SinksInv
  <2>3. \A k \in DOMAIN dest' : dest'[k] = c \/ \E j \in DOMAIN dest : dest[j] = dest'[k]
    <3>1. \A k \in DOMAIN dest' : k \in DOMAIN dest \/ k = Len(dest) + 1
      BY <1>2, AppendedEntries DEF SinksInv
    <3> QED
      BY ZenonT(60), <1>2, <3>1, AppendedEntries DEF SinksInv
  <2>4. \A id \in dedup' : \E k \in DOMAIN dest' : id = MsgID(dest'[k].item, dest'[k].hash)
    <3> SUFFICES ASSUME NEW id \in dedup'
                 PROVE  \E k \in DOMAIN dest' : id = MsgID(dest'[k].item, dest'[k].hash)
      OBVIOUS
    <3>1. CASE id = MsgID(c.item, c.hash)
      BY ZenonT(60), <2>2, <3>1
    <3>2. CASE id \in dedup
      <4>1. PICK j \in DOMAIN dest : id = MsgID(dest[j].item, dest[j].hash)
        BY ZenonT(60), <3>2 DEF SinksInv, WindowOK
      <4>2. PICK k \in DOMAIN dest' : dest'[k] = dest[j]
        BY <2>1
      <4> QED
        BY ZenonT(60), <4>1, <4>2
    <3> QED
      BY ZenonT(60), <1>1, <3>1, <3>2
  <2>5. \A d \in Pending :
          (\E k \in DOMAIN dest' : dest'[k] = d) => MsgID(d.item, d.hash) \in dedup'
    <3> SUFFICES ASSUME NEW d \in Pending, d = c \/ \E j \in DOMAIN dest : dest[j] = d
                 PROVE  MsgID(d.item, d.hash) \in dedup'
      BY ZenonT(60), <2>3
    <3> QED
      BY ZenonT(60), <1>1 DEF SinksInv, WindowOK
  <2> QED
    BY ZenonT(60), <2>1, <2>2, <2>4, <2>5
<1>3. CASE Ignored(c)
  <2>1. dest' = dest /\ MsgID(c.item, c.hash) \in dedup
    BY ZenonT(60), <1>3 DEF Ignored
  <2>2. dedup' = dedup
    BY ZenonT(60), <1>1, <2>1
  <2>3. PICK k \in DOMAIN dest : MsgID(c.item, c.hash) = MsgID(dest[k].item, dest[k].hash)
    BY ZenonT(60), <2>1 DEF SinksInv, WindowOK
  <2>4. dest[k].item = c.item
    BY ZenonT(60), <2>3, MsgIDTellsItems
  <2> QED
    BY ZenonT(60), <2>1, <2>2, <2>3, <2>4 DEF SinksInv, WindowOK
<1> QED
  BY ZenonT(60), <1>1, <1>2, <1>3

\* The newest change keeps the entries of an item in order, and is there afterwards.
LEMMA ReachInTime ==
  ASSUME SinksInv, ~landed, NEW c \in Pending, c \in Changes, Reach(c),
         \A k \in DOMAIN dest : dest[k].at <= c.at
  PROVE  /\ (\A j, k \in DOMAIN dest :
                j < k /\ dest[j].item = dest[k].item => dest[j].at <= dest[k].at)'
         /\ Rule # "coalesce" /\ driver # "cosmosdb" =>
              /\ \E k \in DOMAIN dest' : dest'[k].item = c.item /\ dest'[k].at >= c.at
              /\ \A j \in DOMAIN dest : \E k \in DOMAIN dest' :
                   dest'[k].item = dest[j].item /\ dest'[k].at >= dest[j].at
<1>1. /\ \A k \in DOMAIN dest : dest[k] \in Changes /\ dest[k].at \in Nat
      /\ \A k \in DOMAIN dest : k \in Nat
      /\ c.at \in Nat
  <2>1. \A d \in Changes : d.at \in Nat
    BY DEF Changes
  <2>2. dest \in Seq(Changes)
    BY ZenonT(60) DEF SinksInv, SinksTypeOK
  <2>3. \A k \in DOMAIN dest : dest[k] \in Changes /\ k \in Nat
    BY <2>2
  <2> QED
    BY ZenonT(60), <2>1, <2>3
<1>2. \A j, k \in DOMAIN dest : j < k /\ dest[j].item = dest[k].item => dest[j].at <= dest[k].at
  BY ZenonT(60) DEF SinksInv, InTime
<1>3. CASE Appended(c)
  <2>1. /\ DOMAIN dest = 1..Len(dest) /\ DOMAIN dest' = 1..(Len(dest) + 1) /\ Len(dest) \in Nat
        /\ \A k \in DOMAIN dest : k \in DOMAIN dest' /\ dest'[k] = dest[k]
        /\ Len(dest) + 1 \in DOMAIN dest' /\ dest'[Len(dest) + 1] = c
    BY ZenonT(60), <1>3, AppendedEntries DEF SinksInv
  <2>2. ASSUME NEW j \in DOMAIN dest', NEW k \in DOMAIN dest', j < k,
               dest'[j].item = dest'[k].item
        PROVE  dest'[j].at <= dest'[k].at
    <3>1. j \in DOMAIN dest
      BY <2>1, <2>2
    <3>2. CASE k \in DOMAIN dest
      BY <1>2, <2>1, <2>2, <3>1, <3>2
    <3>3. CASE k = Len(dest) + 1
      BY <2>1, <2>2, <3>1, <3>3
    <3> QED
      BY <2>1, <3>2, <3>3
  <2>3. \A j \in DOMAIN dest : dest[j].at >= dest[j].at /\ c.at >= c.at
    BY <1>1
  <2>4. c.at >= c.at
    BY <1>1
  <2> QED
    BY ZenonT(60), <2>1, <2>2, <2>3, <2>4
<1>4. CASE Ignored(c)
  <2>1. dest' = dest
    BY ZenonT(60), <1>4 DEF Ignored
  <2>2. Rule # "coalesce" /\ driver # "cosmosdb" =>
          \E k \in DOMAIN dest : dest[k].item = c.item /\ dest[k].at = c.at
    BY ZenonT(60), <1>4 DEF Ignored
  <2>3. \A j \in DOMAIN dest : dest[j].at >= dest[j].at
    BY <1>1
  <2>4. c.at >= c.at
    BY <1>1
  <2> QED
    BY ZenonT(60), <1>2, <2>1, <2>2, <2>3, <2>4
<1>5. CASE Replaced(c)
  <2>1. /\ DOMAIN dest' = DOMAIN dest
        /\ \A k \in DOMAIN dest : dest'[k] = IF dest[k].item = c.item THEN c ELSE dest[k]
        /\ \E k \in DOMAIN dest : dest[k].item = c.item
    BY ZenonT(60), <1>5 DEF Replaced
  <2>2. \A k \in DOMAIN dest : dest'[k].item = dest[k].item /\ dest'[k].at >= dest[k].at
    BY <1>1, <2>1
  <2>3. \E k \in DOMAIN dest : dest'[k].item = c.item /\ dest'[k].at >= c.at
    BY <1>1, <2>1
  <2>4. \A j, k \in DOMAIN dest : dest[j].item = dest[k].item => j = k
    BY ZenonT(60), <1>5 DEF Replaced, SinksInv, OneEach
  <2>5. \A k \in DOMAIN dest : ~(k < k)
    BY <1>1
  <2> QED
    BY ZenonT(60), <2>1, <2>2, <2>3, <2>4, <2>5
<1> QED
  BY ZenonT(60), <1>3, <1>4, <1>5, ReachEffect DEF SinksInv

\* The pending changes and the stored hashes are typed.
LEMMA PendingTyped ==
  ASSUME SinksTypeOK
  PROVE  Pending \subseteq Changes /\ \A c \in Changes : c.at \in Nat /\ c # NoChange
<1>1. \A c \in Changes : c.at \in Nat /\ c # NoChange
  <2>1. \A c \in Changes : c.at \in Nat \ {0}
    BY DEF Changes
  <2>2. NoChange.at = 0
    BY DEF NoChange
  <2> QED
    BY <2>1, <2>2
<1> QED
  BY ZenonT(60), <1>1 DEF SinksTypeOK, Pending

\* Committing the change of the latest detection, or nothing, keeps the times telling.
LEMMA TimesTellKept ==
  ASSUME SinksTypeOK, TimesTell, Everything' \subseteq Everything, polls' = polls,
         change' \in {change, NoChange},
         UNCHANGED <<stored, storedAt>> \/ (change # NoChange /\ Committed)
  PROVE  TimesTell'
<1>1. /\ \A c \in Everything' : c.at <= polls'
      /\ \A c, d \in Everything' : c.at = d.at => c = d
      /\ change' # NoChange => change'.at = polls'
  BY ZenonT(60) DEF TimesTell
<1>2. ASSUME NEW i \in SinkItem, stored'[i] # NoHash
      PROVE  /\ storedAt'[i] <= polls'
             /\ \A c \in Everything' : c.at = storedAt'[i] => c.item = i /\ c.hash = stored'[i]
  <2>1. CASE stored'[i] = stored[i] /\ storedAt'[i] = storedAt[i]
    <3>1. /\ storedAt[i] <= polls
          /\ \A c \in Everything : c.at = storedAt[i] => c.item = i /\ c.hash = stored[i]
      BY ZenonT(60), <1>2, <2>1 DEF TimesTell
    <3> QED
      BY ZenonT(60), <2>1, <3>1
  <2>2. CASE /\ change # NoChange /\ i = change.item
             /\ stored'[i] = change.hash /\ storedAt'[i] = change.at
    <3>1. change \in Everything
      BY ZenonT(60), <2>2 DEF Everything, Pending
    <3>2. change.at = polls /\ polls <= polls
      <4>1. polls <= polls
        BY DEF SinksTypeOK
      <4> QED
        BY ZenonT(60), <2>2, <4>1 DEF TimesTell
    <3>3. storedAt'[i] <= polls'
      BY <2>2, <3>2
    <3>4. \A c \in Everything' : c.at = change.at => c = change
      BY ZenonT(60), <3>1 DEF TimesTell
    <3> QED
      BY ZenonT(60), <2>2, <3>3, <3>4
  <2>3. CASE change # NoChange /\ Committed
    <3>1. /\ stored' = [stored EXCEPT ![change.item] = change.hash]
          /\ storedAt' = [storedAt EXCEPT ![change.item] = change.at]
          /\ stored \in [SinkItem -> Hash \cup {NoHash}] /\ storedAt \in [SinkItem -> Nat]
      BY ZenonT(60), <2>3 DEF Committed, SinksTypeOK
    <3>2. CASE i = change.item
      <4>1. stored'[i] = change.hash /\ storedAt'[i] = change.at
        BY ZenonT(60), <3>1, <3>2
      <4> QED
        BY ZenonT(60), <2>2, <2>3, <3>2, <4>1
    <3>3. CASE i # change.item
      <4>1. stored'[i] = stored[i] /\ storedAt'[i] = storedAt[i]
        BY ZenonT(60), <3>1, <3>3
      <4> QED
        BY ZenonT(60), <2>1, <4>1
    <3> QED
      BY ZenonT(60), <3>2, <3>3
  <2> QED
    BY ZenonT(60), <2>1, <2>3
<1> QED
  BY ZenonT(60), <1>1, <1>2 DEF TimesTell

\* A step that delivers nothing, commits nothing and leaves no new change keeps all.
LEMMA QuietStep ==
  ASSUME SinksInv, SinksTypeOK', Pending' \subseteq Pending, change' \in {change, NoChange},
         UNCHANGED <<driver, dest, dedup, stored, storedAt, landed, polls>>
  PROVE  SinksInv'
<1>1. Rule' = Rule /\ Waits' = Waits /\ Detects' = Detects
  BY ZenonT(60), RuleStays
<1>2. TimesTell'
  <2>1. Everything' \subseteq Everything
    BY ZenonT(60) DEF Everything
  <2> QED
    BY ZenonT(60), <2>1, TimesTellKept DEF SinksInv
<1>3. InTime'
  BY ZenonT(60), <1>1 DEF SinksInv, InTime, EntriesOf
<1>4. WindowOK'
  BY ZenonT(60), <1>1 DEF SinksInv, WindowOK, MsgID, EntriesOf
<1>5. OneEach'
  BY ZenonT(60), <1>1 DEF SinksInv, OneEach, IsInjective
<1>6. HasLast'
  BY ZenonT(60), LastStays DEF SinksInv
<1> QED
  BY ZenonT(60), <1>2, <1>3, <1>4, <1>5, <1>6 DEF SinksInv

\* A driver that does not wait commits what the destination does not have.
LEMMA UnseenStep ==
  ASSUME SinksInv, SinksTypeOK', ~Waits, change # NoChange, Committed,
         UNCHANGED <<driver, dest, dedup, late, landed, polls>>
  PROVE  SinksInv'
<1>1. Rule' = Rule /\ Waits' = Waits /\ Detects' = Detects
  BY ZenonT(60), RuleStays
<1>2. TimesTell'
  <2>1. Everything' \subseteq Everything
    BY ZenonT(60) DEF Everything, Pending, Committed
  <2>2. change' = NoChange
    BY ZenonT(60) DEF Committed
  <2> QED
    BY ZenonT(60), <2>1, <2>2, TimesTellKept DEF SinksInv
<1>3. InTime'
  BY ZenonT(60), <1>1 DEF SinksInv, InTime
<1>4. WindowOK'
  <2>1. Rule # "coalesce"
    BY ZenonT(60), SentFacts DEF SinksInv, SinksTypeOK
  <2> QED
    BY ZenonT(60), <1>1, <2>1 DEF WindowOK
<1>5. OneEach'
  BY ZenonT(60), <1>1 DEF SinksInv, OneEach, IsInjective
<1>6. HasLast'
  BY ZenonT(60), LastStays DEF SinksInv
<1> QED
  BY ZenonT(60), <1>2, <1>3, <1>4, <1>5, <1>6 DEF SinksInv

\* The five minutes end when nothing can be sent again.
LEMMA WindowEndsStep ==
  ASSUME SinksInv, SinksTypeOK', WindowEnds
  PROVE  SinksInv'
<1> USE DEF WindowEnds
<1>1. Rule' = Rule /\ Waits' = Waits /\ Detects' = Detects
  BY ZenonT(60), RuleStays
<1>2. TimesTell'
  <2>1. Everything' \subseteq Everything
    BY ZenonT(60) DEF Everything, Pending
  <2> QED
    BY ZenonT(60), <2>1, TimesTellKept DEF SinksInv
<1>3. InTime'
  BY ZenonT(60), <1>1 DEF SinksInv, InTime, EntriesOf
<1>4. WindowOK'
  <2>1. Pending' = {}
    BY ZenonT(60) DEF Pending
  <2> QED
    BY ZenonT(60), <1>1, <2>1 DEF SinksInv, WindowOK, MsgID, EntriesOf
<1>5. OneEach'
  BY ZenonT(60), <1>1 DEF SinksInv, OneEach, IsInjective
<1>6. HasLast'
  BY ZenonT(60), LastStays DEF SinksInv
<1> QED
  BY ZenonT(60), <1>2, <1>3, <1>4, <1>5, <1>6 DEF SinksInv

\* A change that was just detected is newer than everything sent.
LEMMA DetectNewStep ==
  ASSUME SinksInv, SinksTypeOK', NEW i \in SinkItem, DetectNew(i)
  PROVE  SinksInv'
<1> DEFINE new == [item |-> i, hash |-> content[i], at |-> polls + 1]
<1>1. Rule' = Rule /\ Waits' = Waits /\ Detects' = Detects
  BY ZenonT(60), RuleStays DEF DetectNew
<1>2. /\ change = NoChange /\ change' = new /\ polls' = polls + 1 /\ new.at = polls + 1
      /\ UNCHANGED <<dest, dedup, late, stored, storedAt, landed, driver>>
      /\ polls \in Nat /\ new # NoChange
  <2>1. polls \in Nat
    BY ZenonT(60) DEF SinksInv, SinksTypeOK
  <2>2. new.at = polls + 1 /\ NoChange.at = 0
    BY DEF NoChange
  <2>3. new # NoChange
    BY <2>1, <2>2
  <2> QED
    BY ZenonT(60), <2>1, <2>2, <2>3 DEF DetectNew
<1> HIDE DEF new
<1>3. Pending' = Pending \cup {new} /\ Everything' = Everything \cup {new}
  <2>1. Pending' = Pending \cup {new}
    BY ZenonT(60), <1>2 DEF Pending
  <2> QED
    BY ZenonT(60), <1>2, <2>1 DEF Everything
<1>4. \A c \in Everything : c.at \in Nat /\ c.at <= polls
  <2>1. \A k \in DOMAIN dest : dest[k] \in Changes
    <3>1. dest \in Seq(Changes)
      BY ZenonT(60) DEF SinksInv, SinksTypeOK
    <3> QED
      BY <3>1
  <2>2. Everything \subseteq Changes
    BY ZenonT(60), <2>1, PendingTyped DEF Everything, SinksInv
  <2> QED
    BY ZenonT(60), <2>2, PendingTyped DEF SinksInv, TimesTell
<1>5. \A c \in Everything : c.at # new.at /\ c.at <= polls'
  BY <1>2, <1>4
<1>6. TimesTell'
  <2>1. new.at <= polls'
    BY <1>2
  <2>2. \A j \in SinkItem : stored[j] # NoHash => storedAt[j] # new.at /\ storedAt[j] <= polls'
    <3>1. \A j \in SinkItem : storedAt[j] \in Nat /\ (stored[j] # NoHash => storedAt[j] <= polls)
      BY ZenonT(60) DEF SinksInv, SinksTypeOK, TimesTell
    <3> QED
      BY <1>2, <3>1
  <2>3. \A c, d \in Everything' : c.at = d.at => c = d
    BY ZenonT(60), <1>3, <1>5 DEF SinksInv, TimesTell
  <2>4. \A c \in Everything' : c.at <= polls'
    BY ZenonT(60), <1>3, <1>5, <2>1
  <2>5. change'.at = polls'
    BY ZenonT(60), <1>2
  <2>6. \A j \in SinkItem : stored'[j] # NoHash =>
          /\ storedAt'[j] <= polls'
          /\ \A c \in Everything' : c.at = storedAt'[j] => c.item = j /\ c.hash = stored'[j]
    BY ZenonT(60), <1>2, <1>3, <2>2 DEF SinksInv, TimesTell
  <2> QED
    BY ZenonT(60), <2>3, <2>4, <2>5, <2>6 DEF TimesTell
<1>7. InTime'
  BY ZenonT(60), <1>1, <1>2 DEF SinksInv, InTime, EntriesOf
<1>8. WindowOK'
  <2>1. \A k \in DOMAIN dest : dest[k] # new
    BY ZenonT(60), <1>5 DEF Everything
  <2> QED
    <3> SUFFICES ASSUME Rule = "coalesce"
                 PROVE  WindowOK'
      BY ZenonT(60), <1>1 DEF WindowOK
    <3>1. \A d \in Pending' : (\E k \in DOMAIN dest : dest[k] = d) => MsgID(d.item, d.hash) \in dedup
      BY ZenonT(60), <1>3, <2>1 DEF SinksInv, WindowOK
    <3> QED
      BY ZenonT(60), <1>1, <1>2, <3>1 DEF SinksInv, WindowOK, MsgID, EntriesOf
<1>9. OneEach'
  BY ZenonT(60), <1>1, <1>2 DEF SinksInv, OneEach, IsInjective
<1>10. HasLast'
  BY ZenonT(60), <1>2, LastStays DEF SinksInv
<1> QED
  BY ZenonT(60), <1>6, <1>7, <1>8, <1>9, <1>10 DEF SinksInv

\* An attempt or a late request that reaches the destination.
LEMMA ReachStep ==
  ASSUME SinksInv, SinksTypeOK', NEW c \in Pending, Reach(c), UNCHANGED <<driver, polls>>,
         Pending' \subseteq Pending, change' \in {change, NoChange},
         UNCHANGED <<stored, storedAt>> \/ (c = change /\ Committed),
         landed' \/ (c = change /\ UNCHANGED landed)
  PROVE  SinksInv'
<1>1. Rule' = Rule /\ Waits' = Waits /\ Detects' = Detects
  BY ZenonT(60), RuleStays
<1>2. c \in Changes /\ c # NoChange /\ c.at \in Nat /\ c \in Everything
  BY ZenonT(60), PendingTyped DEF SinksInv, Everything
<1>3. /\ OneEach'
      /\ \A k \in DOMAIN dest' : dest'[k] = c \/ \E j \in DOMAIN dest : dest'[k] = dest[j]
  BY ZenonT(60), <1>2, ReachEntries
<1>4. TimesTell'
  <2>1. Everything' \subseteq Everything
    BY ZenonT(60), <1>2, <1>3 DEF Everything
  <2> QED
    BY ZenonT(60), <1>2, <2>1, TimesTellKept DEF SinksInv
<1>5. \A i \in SinkItem : stored'[i] # NoHash =>
        \/ stored[i] # NoHash /\ stored'[i] = stored[i] /\ storedAt'[i] = storedAt[i]
        \/ c.item = i /\ stored'[i] = c.hash /\ storedAt'[i] = c.at
  <2>1. CASE UNCHANGED <<stored, storedAt>>
    BY ZenonT(60), <2>1
  <2>2. CASE c = change /\ Committed
    <3>1. /\ stored' = [stored EXCEPT ![c.item] = c.hash]
          /\ storedAt' = [storedAt EXCEPT ![c.item] = c.at]
          /\ stored \in [SinkItem -> Hash \cup {NoHash}] /\ storedAt \in [SinkItem -> Nat]
      BY ZenonT(60), <2>2 DEF Committed, SinksInv, SinksTypeOK
    <3>2. ASSUME NEW i \in SinkItem, i # c.item
          PROVE  stored'[i] = stored[i] /\ storedAt'[i] = storedAt[i]
      BY ZenonT(60), <3>1, <3>2
    <3>3. ASSUME NEW i \in SinkItem, i = c.item
          PROVE  stored'[i] = c.hash /\ storedAt'[i] = c.at
      BY ZenonT(60), <3>1, <3>3
    <3> QED
      BY ZenonT(60), <3>2, <3>3
  <2> QED
    BY ZenonT(60), <2>1, <2>2
<1>6. WindowOK'
  <2> SUFFICES ASSUME Rule = "coalesce"
               PROVE  WindowOK'
    BY ZenonT(60), <1>1 DEF WindowOK
  <2>1. /\ \A id \in dedup' : \E k \in DOMAIN dest' : id = MsgID(dest'[k].item, dest'[k].hash)
        /\ \A d \in Pending :
             (\E k \in DOMAIN dest' : dest'[k] = d) => MsgID(d.item, d.hash) \in dedup'
        /\ \E k \in DOMAIN dest' :
             dest'[k].item = c.item /\ MsgID(dest'[k].item, dest'[k].hash) = MsgID(c.item, c.hash)
        /\ \A j \in DOMAIN dest : \E k \in DOMAIN dest' : dest'[k] = dest[j]
    BY ZenonT(60), <1>2, ReachWindow
  <2>2. ASSUME NEW i \in SinkItem, stored'[i] # NoHash
        PROVE  \E k \in DOMAIN dest' :
                 dest'[k].item = i /\ MsgID(dest'[k].item, dest'[k].hash) = MsgID(i, stored'[i])
    <3>1. CASE c.item = i /\ stored'[i] = c.hash
      BY ZenonT(60), <2>1, <3>1
    <3>2. CASE stored[i] # NoHash /\ stored'[i] = stored[i]
      <4>1. PICK j \in DOMAIN dest :
              dest[j].item = i /\ MsgID(dest[j].item, dest[j].hash) = MsgID(i, stored[i])
        BY ZenonT(60), <3>2 DEF SinksInv, WindowOK, EntriesOf
      <4> QED
        BY ZenonT(60), <2>1, <3>2, <4>1
    <3> QED
      BY ZenonT(60), <1>5, <2>2, <3>1, <3>2
  <2> QED
    BY ZenonT(60), <1>1, <2>1, <2>2 DEF WindowOK, MsgID, EntriesOf
<1>7. InTime'
  <2> SUFFICES ASSUME ~landed'
               PROVE  InTime'
    BY ZenonT(60) DEF InTime
  <2>1. ~landed /\ c = change
    <3>1. c = change /\ landed' = landed
      BY ZenonT(60)
    <3> QED
      BY ONLY Z3T(30), ZenonT(20), SMTT(30), ~landed', <3>1
  <2>2. \A k \in DOMAIN dest : dest[k].at <= c.at
    <3>1. c.at = polls
      BY ZenonT(60), <1>2, <2>1 DEF SinksInv, TimesTell
    <3>2. \A k \in DOMAIN dest : dest[k].at <= polls
      BY ZenonT(60) DEF SinksInv, TimesTell, Everything
    <3> QED
      BY ZenonT(60), <3>1, <3>2
  <2>3. /\ (\A j, k \in DOMAIN dest :
               j < k /\ dest[j].item = dest[k].item => dest[j].at <= dest[k].at)'
        /\ Rule # "coalesce" /\ driver # "cosmosdb" =>
             /\ \E k \in DOMAIN dest' : dest'[k].item = c.item /\ dest'[k].at >= c.at
             /\ \A j \in DOMAIN dest : \E k \in DOMAIN dest' :
                  dest'[k].item = dest[j].item /\ dest'[k].at >= dest[j].at
    BY ZenonT(60), <1>2, <2>1, <2>2, ReachInTime
  <2>4. ASSUME Waits, Rule # "coalesce", driver # "cosmosdb",
               NEW i \in SinkItem, stored'[i] # NoHash
        PROVE  \E k \in DOMAIN dest' : dest'[k].item = i /\ dest'[k].at >= storedAt'[i]
    <3>1. CASE c.item = i /\ storedAt'[i] = c.at
      BY ZenonT(60), <2>3, <2>4, <3>1
    <3>2. CASE stored[i] # NoHash /\ storedAt'[i] = storedAt[i]
      <4>1. PICK j \in DOMAIN dest : dest[j].item = i /\ dest[j].at >= storedAt[i]
        BY ZenonT(60), <2>1, <2>4, <3>2 DEF SinksInv, InTime, EntriesOf
      <4>2. PICK k \in DOMAIN dest' : dest'[k].item = i /\ dest'[k].at >= dest[j].at
        BY ZenonT(60), <2>3, <2>4, <4>1
      <4>3. dest[j].at \in Nat /\ dest'[k].at \in Nat /\ storedAt[i] \in Nat
        <5>1. dest \in Seq(Changes) /\ dest' \in Seq(Changes) /\ storedAt[i] \in Nat
          BY ZenonT(60) DEF SinksInv, SinksTypeOK
        <5>2. dest[j] \in Changes /\ dest'[k] \in Changes
          BY <4>1, <4>2, <5>1
        <5> QED
          BY ZenonT(60), <5>1, <5>2, PendingTyped DEF SinksInv
      <4>4. dest'[k].at >= storedAt[i]
        BY ONLY Z3T(30), ZenonT(20), SMTT(30), <4>1, <4>2, <4>3
      <4> QED
        BY ZenonT(60), <3>2, <4>2, <4>4
    <3> QED
      BY ZenonT(60), <1>5, <2>4, <3>1, <3>2
  <2> QED
    BY ZenonT(60), <1>1, <2>3, <2>4 DEF InTime, EntriesOf
<1>8. HasLast'
  BY ZenonT(60), <1>2, ReachLast
<1> QED
  BY ZenonT(60), <1>3, <1>4, <1>6, <1>7, <1>8 DEF SinksInv

\* Every step keeps the types.
LEMMA SinksTypeStep ==
  ASSUME SinksAssumptions, SinksInv, SinksNext
  PROVE  SinksTypeOK'
<1>0. /\ driver \in AllDrivers /\ content \in [SinkItem -> Hash]
      /\ stored \in [SinkItem -> Hash \cup {NoHash}] /\ storedAt \in [SinkItem -> Nat]
      /\ change \in Changes \cup {NoChange} /\ dest \in Seq(Changes) /\ late \subseteq Changes
      /\ landed \in BOOLEAN /\ polls \in Nat
  BY ZenonT(60) DEF SinksInv, SinksTypeOK
<1>1. ASSUME change # NoChange, Committed
      PROVE  /\ stored' \in [SinkItem -> Hash \cup {NoHash}] /\ storedAt' \in [SinkItem -> Nat]
             /\ change' = NoChange
  <2>1. change.hash \in Hash /\ change.at \in Nat
    <3>1. change \in Changes
      BY ZenonT(60), <1>0, <1>1
    <3> QED
      BY ONLY Z3T(30), ZenonT(20), SMTT(30), <3>1 DEF Changes
  <2> QED
    BY ZenonT(60), <1>0, <1>1, <2>1 DEF Committed
<1>2. ASSUME Failed
      PROVE  UNCHANGED <<stored, storedAt>> /\ change' \in Changes \cup {NoChange}
  BY ZenonT(60), <1>0, <1>2 DEF Failed
<1>3. ASSUME NEW c \in Pending, Reach(c), driver' = driver
      PROVE  dest' \in Seq(Changes)
  BY ZenonT(60), <1>3, ReachEntries, PendingTyped DEF SinksInv
<1>4. ASSUME NEW i \in SinkItem, Edit(i)
      PROVE  SinksTypeOK'
  <2>1. content' \in [SinkItem -> Hash]
    BY ZenonT(60), <1>0, <1>4 DEF Edit
  <2> QED
    BY ZenonT(60), <1>0, <1>4, <2>1 DEF Edit, SinksTypeOK
<1>5. ASSUME NEW i \in SinkItem, DetectNew(i)
      PROVE  SinksTypeOK'
  <2>1. polls' \in Nat /\ polls + 1 \in Nat \ {0}
    BY <1>0, <1>5 DEF DetectNew
  <2>2. content[i] \in Hash
    BY ZenonT(60), <1>0
  <2>3. [item |-> i, hash |-> content[i], at |-> polls + 1] \in Changes
    BY ONLY Z3T(30), ZenonT(20), SMTT(30), <1>5, <2>1, <2>2 DEF Changes
  <2> QED
    BY ZenonT(60), <1>0, <1>5, <2>1, <2>3 DEF DetectNew, SinksTypeOK
<1>6. CASE PublishAcked
  <2>1. change \in Pending
    BY ZenonT(60), <1>6 DEF PublishAcked, CanSend, Pending
  <2> QED
    BY ZenonT(60), <1>0, <1>1, <1>3, <1>6, <2>1 DEF PublishAcked, CanSend, SinksTypeOK
<1>7. CASE PublishAnswerLost
  <2>1. change \in Pending
    BY ZenonT(60), <1>7 DEF PublishAnswerLost, CanSend, Pending
  <2> QED
    BY ZenonT(60), <1>0, <1>2, <1>3, <1>7, <2>1 DEF PublishAnswerLost, SinksTypeOK
<1>8. CASE PublishRefused
  BY ZenonT(60), <1>0, <1>1, <1>2, <1>8 DEF PublishRefused, CanSend, SinksTypeOK
<1>9. CASE PublishAbandoned
  BY ZenonT(60), <1>0, <1>2, <1>9 DEF PublishAbandoned, CanSend, SinksTypeOK
<1>10. CASE PublishPaused
  BY ZenonT(60), <1>0, <1>2, <1>10 DEF PublishPaused, SinksTypeOK
<1>11. CASE Land
  <2>1. PICK c \in late :
          /\ late' = late \ {c}
          /\ \/ Reach(c) /\ landed' = TRUE /\ UNCHANGED paused
             \/ paused' = Ordered /\ UNCHANGED <<dest, dedup, landed>>
          /\ UNCHANGED <<driver, content, stored, storedAt, change, tries, polls>>
    BY <1>11 DEF Land
  <2>2. c \in Pending
    BY ZenonT(60) DEF Pending
  <2> QED
    BY ZenonT(60), <1>0, <1>3, <2>1, <2>2 DEF SinksTypeOK
<1>12. CASE WindowEnds
  BY ZenonT(60), <1>0, <1>12 DEF WindowEnds, SinksTypeOK
<1> QED
  BY ZenonT(60), <1>4, <1>5, <1>6, <1>7, <1>8, <1>9, <1>10, <1>11, <1>12 DEF SinksNext

\* Every step keeps the invariant.
LEMMA SinksStep ==
  ASSUME SinksAssumptions, SinksInv, [SinksNext]_sinkVars
  PROVE  SinksInv'
<1>1. CASE UNCHANGED sinkVars
  <2>1. SinksTypeOK' /\ Pending' \subseteq Pending
    BY ZenonT(60), <1>1 DEF sinkVars, SinksInv, SinksTypeOK, Pending
  <2> QED
    BY ZenonT(60), <1>1, <2>1, QuietStep DEF sinkVars
<1>2. CASE SinksNext
  <2>0. SinksTypeOK'
    BY <1>2, SinksTypeStep
  <2>1. ASSUME NEW i \in SinkItem, Edit(i)
        PROVE  SinksInv'
    BY ZenonT(60), <2>0, <2>1, QuietStep DEF Edit, Pending
  <2>2. ASSUME NEW i \in SinkItem, DetectNew(i)
        PROVE  SinksInv'
    BY <2>0, <2>2, DetectNewStep
  <2>3. CASE PublishAcked
    <3>1. change \in Pending /\ Pending' \subseteq Pending /\ change' = NoChange
      BY ZenonT(60), <2>3 DEF PublishAcked, CanSend, Pending, Committed
    <3> QED
      BY ZenonT(60), <2>0, <2>3, <3>1, ReachStep DEF PublishAcked
  <2>4. ASSUME Failed, UNCHANGED late
        PROVE  /\ Pending' \subseteq Pending /\ change' \in {change, NoChange}
               /\ UNCHANGED <<stored, storedAt>>
    BY ZenonT(60), <2>4 DEF Failed, Pending
  <2>5. CASE PublishAnswerLost
    <3>1. change \in Pending
      BY ZenonT(60), <2>5 DEF PublishAnswerLost, CanSend, Pending
    <3> QED
      BY ZenonT(60), <2>0, <2>4, <2>5, <3>1, ReachStep DEF PublishAnswerLost
  <2>6. CASE PublishRefused
    <3>1. CASE Failed
      BY ZenonT(60), <2>0, <2>4, <2>6, <3>1, QuietStep DEF PublishRefused
    <3>2. CASE ~Sent(change).waits /\ Committed
      <4>1. ~Waits
        BY ZenonT(60), <3>2, SentFacts DEF SinksInv, SinksTypeOK
      <4> QED
        BY ZenonT(60), <2>0, <2>6, <3>2, <4>1, UnseenStep DEF PublishRefused, CanSend
    <3> QED
      BY ZenonT(60), <2>6, <3>1, <3>2 DEF PublishRefused
  <2>7. CASE PublishAbandoned
    <3>1. Pending' \subseteq Pending /\ change' \in {change, NoChange}
      <4>1. change' \in {change, NoChange}
        BY ZenonT(60), <2>7 DEF PublishAbandoned, Failed
      <4>2. change # NoChange /\ late' = late \cup {change}
        BY ZenonT(60), <2>7 DEF PublishAbandoned, CanSend
      <4> QED
        BY ZenonT(60), <4>1, <4>2 DEF Pending
    <3> QED
      BY ZenonT(60), <2>0, <2>7, <3>1, QuietStep DEF PublishAbandoned, Failed
  <2>8. CASE PublishPaused
    BY ZenonT(60), <2>0, <2>4, <2>8, QuietStep DEF PublishPaused
  <2>9. CASE Land
    <3>1. PICK c \in late :
            /\ late' = late \ {c}
            /\ \/ Reach(c) /\ landed' = TRUE /\ UNCHANGED paused
               \/ paused' = Ordered /\ UNCHANGED <<dest, dedup, landed>>
            /\ UNCHANGED <<driver, content, stored, storedAt, change, tries, polls>>
      BY <2>9 DEF Land
    <3>2. c \in Pending /\ Pending' \subseteq Pending
      BY ZenonT(60), <3>1 DEF Pending
    <3>3. CASE Reach(c) /\ landed' = TRUE
      BY ZenonT(60), <2>0, <3>1, <3>2, <3>3, ReachStep
    <3>4. CASE UNCHANGED <<dest, dedup, landed>>
      BY ZenonT(60), <2>0, <3>1, <3>2, <3>4, QuietStep
    <3> QED
      BY ZenonT(60), <3>1, <3>3, <3>4
  <2>10. CASE WindowEnds
    BY <2>0, <2>10, WindowEndsStep
  <2> QED
    BY ZenonT(60), <1>2, <2>1, <2>2, <2>3, <2>5, <2>6, <2>7, <2>8, <2>9, <2>10 DEF SinksNext
<1> QED
  BY <1>1, <1>2

\* The invariant is enough: the last entry of a committed item is as new as the
\* commit, and one as old as the commit has its content.
LEMMA SinksInvImplies ==
  ASSUME SinksInv
  PROVE  CurrentAndOnce
<1>1. Sent(NoChange).known # "append" => IsInjective(dest)
  BY ZenonT(60) DEF SinksInv, OneEach, Rule
<1>2. ASSUME driver # "cosmosdb", NEW i \in SinkItem, Behind(i)
      PROVE  Coalesced(i)
  <2>1. stored[i] # NoHash /\ Waits /\ ~landed
    BY ZenonT(60), <1>2 DEF Behind, Waits
  <2>2. CASE Rule = "coalesce"
    <3> DEFINE committed == [item |-> i, hash |-> stored[i], at |-> storedAt[i]]
    <3>1. PICK k \in EntriesOf(i) : MsgID(dest[k].item, dest[k].hash) = MsgID(i, stored[i])
      BY ZenonT(60), <2>1, <2>2 DEF SinksInv, WindowOK
    <3>2. \A c : Sent(c).id = MsgID(c.item, c.hash)
      BY ZenonT(60), <2>2, SentFacts DEF SinksInv, SinksTypeOK
    <3>3. committed.item = i /\ committed.hash = stored[i]
      BY ONLY Z3T(30), ZenonT(20), SMTT(30)
    <3>4. Sent(dest[k]).id = Sent(committed).id
      BY ZenonT(60), <3>1, <3>2, <3>3
    <3> QED
      BY ZenonT(60), <2>2, <3>4 DEF Coalesced, Rule
  <2>3. CASE Rule # "coalesce"
    <3>1. PICK k \in EntriesOf(i) : dest[k].at >= storedAt[i]
      BY ZenonT(60), <1>2, <2>1, <2>3 DEF SinksInv, InTime
    <3>2. PICK l \in EntriesOf(i) : \A j \in EntriesOf(i) : j <= l
      BY ZenonT(60), <3>1 DEF SinksInv, HasLast
    <3>3. dest[l].hash # stored[i] /\ dest[l].at <= storedAt[i]
      BY ZenonT(60), <1>2, <3>2 DEF Behind
    <3>4. /\ k \in DOMAIN dest /\ l \in DOMAIN dest
          /\ dest[k].item = i /\ dest[l].item = i
      BY ZenonT(60) DEF EntriesOf
    <3>5. k \in Nat /\ l \in Nat /\ dest[k].at \in Nat /\ dest[l].at \in Nat /\ storedAt[i] \in Nat
      <4>1. dest \in Seq(Changes) /\ storedAt[i] \in Nat
        BY ZenonT(60) DEF SinksInv, SinksTypeOK
      <4>2. dest[k] \in Changes /\ dest[l] \in Changes /\ k \in Nat /\ l \in Nat
        BY <3>4, <4>1
      <4> QED
        BY ZenonT(60), <4>1, <4>2, PendingTyped DEF SinksInv
    <3>6. k < l \/ k = l
      BY ONLY Z3T(30), ZenonT(20), SMTT(30), <3>2, <3>5
    <3>7. k < l => dest[k].at <= dest[l].at
      BY ZenonT(60), <2>1, <3>4 DEF SinksInv, InTime
    <3>8. dest[l].at = storedAt[i]
      BY ONLY Z3T(30), ZenonT(20), SMTT(30), <3>1, <3>3, <3>5, <3>6, <3>7
    <3>9. dest[l].hash = stored[i]
      BY ZenonT(60), <2>1, <3>4, <3>8 DEF SinksInv, TimesTell, Everything
    <3> QED
      BY ZenonT(60), <3>3, <3>9
  <2> QED
    BY <2>2, <2>3
<1> QED
  BY ZenonT(60), <1>1, <1>2 DEF CurrentAndOnce

\* At the start nothing was sent.
LEMMA SinksInitInv ==
  ASSUME SinksAssumptions, SinksInit(Driver)
  PROVE  SinksInv
<1>1. /\ dest = <<>> /\ late = {} /\ change = NoChange /\ dedup = {} /\ driver \in AllDrivers
      /\ content \in [SinkItem -> Hash] /\ stored = [i \in SinkItem |-> NoHash]
      /\ storedAt = [i \in SinkItem |-> 0] /\ landed = FALSE /\ polls = 0
  BY ZenonT(60) DEF SinksAssumptions, SinksInit
<1>2. dest \in Seq(Changes) /\ DOMAIN dest = {}
  BY <1>1
<1>3. SinksTypeOK
  <2>1. stored \in [SinkItem -> Hash \cup {NoHash}] /\ storedAt \in [SinkItem -> Nat] /\ polls \in Nat
    BY ONLY Z3T(30), ZenonT(20), SMTT(30), <1>1
  <2> QED
    BY ZenonT(60), <1>1, <1>2, <2>1 DEF SinksTypeOK
<1>4. Pending = {} /\ Everything = {}
  <2>1. Pending = {}
    BY ZenonT(60), <1>1 DEF Pending
  <2> QED
    BY ZenonT(60), <1>2, <2>1 DEF Everything
<1>5. \A i \in SinkItem : stored[i] = NoHash
  BY ZenonT(60), <1>1
<1>6. TimesTell
  BY ZenonT(60), <1>1, <1>4, <1>5 DEF TimesTell
<1>7. InTime
  BY ZenonT(60), <1>2, <1>5 DEF InTime
<1>8. WindowOK
  BY ZenonT(60), <1>1, <1>4, <1>5 DEF WindowOK
<1>9. OneEach
  BY ZenonT(60), <1>2 DEF OneEach, IsInjective
<1>10. HasLast
  BY ZenonT(60), <1>2 DEF HasLast, EntriesOf
<1> QED
  BY ZenonT(60), <1>3, <1>6, <1>7, <1>8, <1>9, <1>10 DEF SinksInv

\* Whatever was retried, refused or answered too late, the destinations show the
\* committed content of every item, or newer, once (Sinks.CurrentAndOnce), for any
\* number of items, contents, detections, attempts and late requests.
THEOREM SinksAreCurrentAndOnce == SinksSpec => []CurrentAndOnce
<1>1. SinksInit(Driver) => SinksInv
  BY SinksInitInv, SinksAssumptions
<1>2. SinksInv /\ [SinksNext]_sinkVars => SinksInv'
  BY SinksStep, SinksAssumptions
<1>3. SinksInv => CurrentAndOnce
  BY SinksInvImplies
<1> QED
  BY <1>1, <1>2, <1>3, PTL DEF SinksSpec
=============================================================================
