------------------------------ MODULE ReplProofs ------------------------------
(***************************************************************************)
(* Proofs about Repl.tla, for every set of scripts and of files, whatever  *)
(* the texts in them are.                                                  *)
(***************************************************************************)
EXTENDS Repl, SequenceFacts

\* Cited where they are needed.
HIDE EndAssumption
HIDE DepthAssumption
HIDE CharactersAssumption
HIDE TextsAssumption

LoopOK(f) == f = ReplFrame(f.port, f.prints, f.val)

\* A frame that stands on the frame g: the reader's on any, the loop over a
\* file and a call of read on the loop that evaluates their command.
FrameOK(f, g) ==
  \/ f.f \in ReaderFrames
  \/ f.f = "primitive" /\ g.f = "repl"
  \/ f.f = "repl" /\ LoopOK(f) /\ f.prints = FALSE /\ g.f = "repl"

\* Under the calls in progress s is the loop at the console.
CallsOK(s) ==
  /\ Sequential(s) /\ s # << >>
  /\ LoopOK(s[Len(s)]) /\ s[Len(s)].f = "repl" /\ s[Len(s)].prints = TRUE
  /\ \A i \in 1..(Len(s) - 1) : FrameOK(s[i], s[i + 1])

\* Nothing but the reader is between the innermost call and the prompt.
OnlyReader(s) == \A i \in 1..(Len(s) - 1) : s[i].f \in ReaderFrames

Reading == ctl.m \in {"read", "pair", "value", "overflow"}

ControlOK ==
  /\ Reading \/ ctl.m \in {"prompt", "error", "eval", "result", "done"}
  /\ ctl.m \in {"prompt", "eval", "result"} => Top.f = "repl"

\* What Emacs was told last.
LastSent(m, s) ==
  CASE m \in {"read", "pair", "value", "overflow"} -> IF OnlyReader(s) THEN {"s"} ELSE {"f"}
    [] m = "prompt" -> IF Len(s) = 1 THEN {"w", "v"} ELSE {"f"}
    [] m \in {"eval", "result"} -> {"f"}
    [] m = "error" -> {"s", "f"}
    [] OTHER -> {"p", "s", "f", "v", "z", "w"}

Follow(e) == \A i \in 1..(Len(e) - 1) : <<e[i], e[i + 1]>> \in MayFollow

SentOK ==
  /\ Sequential(sent)
  /\ emacs => /\ sent # << >> /\ Follow(sent)
              /\ sent[Len(sent)] \in LastSent(ctl.m, stack)

\* The inductive invariant.
IInv == CallsOK(stack) /\ ControlOK /\ SentOK /\ emacs \in BOOLEAN

-----------------------------------------------------------------------------
(* The calls in progress. *)

\* Something is below the innermost of several calls.
LEMMA OneBelow == \A n \in Nat \ {0} : n # 1 => 1 \in 1..(n - 1)
OBVIOUS

\* The innermost call.
LEMMA Innermost ==
  ASSUME NEW s, CallsOK(s)
  PROVE  /\ Sequential(s) /\ s # << >> /\ Len(s) \in Nat \ {0} /\ Head(s) = s[1]
         /\ Len(s) = 1 => /\ s[1].f = "repl" /\ LoopOK(s[1]) /\ s[1].prints = TRUE
                          /\ OnlyReader(s)
         /\ Len(s) # 1 => FrameOK(s[1], s[2])
<1>1. Sequential(s) /\ s # << >> /\ Len(s) \in Nat \ {0} /\ Head(s) = s[1]
  BY Popped DEF CallsOK
<1>2. Len(s) = 1 => OnlyReader(s)
  BY DEF OnlyReader
<1>3. Len(s) # 1 => 1 \in 1..(Len(s) - 1)
  BY <1>1, OneBelow
<1> QED
  BY <1>1, <1>2, <1>3 DEF CallsOK

\* The innermost call is a loop.
LEMMA InnermostLoop ==
  ASSUME NEW s, CallsOK(s), Head(s).f = "repl"
  PROVE  /\ LoopOK(Head(s)) /\ (Head(s).prints <=> Len(s) = 1) /\ Head(s).prints \in BOOLEAN
         /\ OnlyReader(s) <=> Len(s) = 1
<1>1. "repl" \notin ReaderFrames
  BY DEF ReaderFrames
<1>2. CASE Len(s) = 1
  BY <1>2, Innermost
<1>3. CASE Len(s) # 1
  <2>1. /\ Len(s) \in Nat \ {0} /\ Head(s) = s[1] /\ FrameOK(s[1], s[2])
    BY <1>3, Innermost
  <2>2. LoopOK(s[1]) /\ s[1].prints = FALSE
    BY <1>1, <2>1 DEF FrameOK
  <2>3. 1 \in 1..(Len(s) - 1)
    BY <1>3, <2>1, OneBelow
  <2>4. ~OnlyReader(s)
    BY <1>1, <2>1, <2>3 DEF OnlyReader
  <2> QED
    BY <1>3, <2>1, <2>2, <2>4
<1> QED
  BY <1>2, <1>3

\* The reader makes a call.
LEMMA CallMade ==
  ASSUME NEW s, CallsOK(s), NEW f, FrameOK(f, Head(s))
  PROVE  /\ CallsOK(<<f>> \o s) /\ Head(<<f>> \o s) = f /\ Len(<<f>> \o s) # 1
         /\ OnlyReader(<<f>> \o s) <=> f.f \in ReaderFrames /\ OnlyReader(s)
<1> DEFINE t == <<f>> \o s
<1>1. Sequential(s) /\ s # << >> /\ Len(s) \in Nat \ {0} /\ Head(s) = s[1]
  BY Innermost
<1>2. /\ Sequential(t) /\ t # << >> /\ Len(t) = Len(s) + 1 /\ t[1] = f /\ Head(t) = f
      /\ \A i \in 1..Len(s) : t[i + 1] = s[i]
  BY <1>1, Pushed
<1> HIDE DEF t
<1>3. t[Len(t)] = s[Len(s)] /\ t[2] = s[1] /\ Len(t) # 1
  <2>1. Len(s) \in 1..Len(s) /\ 1 \in 1..Len(s)
    BY <1>1
  <2> QED
    BY <1>1, <1>2, <2>1
<1>4. ASSUME NEW i \in 1..(Len(t) - 1), i # 1
      PROVE  i - 1 \in 1..(Len(s) - 1) /\ t[i] = s[i - 1] /\ t[i + 1] = s[(i - 1) + 1]
  <2>1. i - 1 \in 1..(Len(s) - 1) /\ i - 1 \in 1..Len(s) /\ i \in 1..Len(s)
    BY <1>1, <1>2, <1>4
  <2>2. t[(i - 1) + 1] = s[i - 1] /\ t[i + 1] = s[i] /\ (i - 1) + 1 = i
    BY <1>2, <2>1
  <2> QED
    BY <2>1, <2>2
<1>5. \A i \in 1..(Len(t) - 1) : FrameOK(t[i], t[i + 1])
  <2>1. ASSUME NEW i \in 1..(Len(t) - 1) PROVE FrameOK(t[i], t[i + 1])
    <3>1. CASE i = 1
      <4>1. t[i] = f /\ t[i + 1] = s[1]
        BY <1>2, <1>3, <3>1
      <4> QED
        BY <1>1, <4>1
    <3>2. CASE i # 1
      BY <1>4, <3>2 DEF CallsOK
    <3> QED
      BY <3>1, <3>2
  <2> QED
    BY <2>1
<1>6. CallsOK(t)
  BY <1>2, <1>3, <1>5 DEF CallsOK
<1>7. OnlyReader(t) <=> f.f \in ReaderFrames /\ OnlyReader(s)
  <2>1. ASSUME OnlyReader(t) PROVE f.f \in ReaderFrames
    <3>1. 1 \in 1..(Len(t) - 1)
      BY <1>1, <1>2
    <3> QED
      BY <1>2, <2>1, <3>1 DEF OnlyReader
  <2>2. ASSUME OnlyReader(t), NEW i \in 1..(Len(s) - 1) PROVE s[i].f \in ReaderFrames
    <3>1. i + 1 \in 1..(Len(t) - 1) /\ t[i + 1] = s[i]
      BY <1>1, <1>2
    <3> QED
      BY <2>2, <3>1 DEF OnlyReader
  <2>3. ASSUME f.f \in ReaderFrames, OnlyReader(s), NEW i \in 1..(Len(t) - 1)
        PROVE  t[i].f \in ReaderFrames
    <3>1. CASE i = 1
      BY <1>2, <2>3, <3>1
    <3>2. CASE i # 1
      BY <1>4, <2>3, <3>2 DEF OnlyReader
    <3> QED
      BY <3>1, <3>2
  <2> QED
    BY <2>1, <2>2, <2>3 DEF OnlyReader
<1> QED
  BY <1>2, <1>3, <1>6, <1>7 DEF t

\* The innermost call, which is not the loop at the console, returns.
LEMMA CallReturned ==
  ASSUME NEW s, CallsOK(s), Len(s) # 1
  PROVE  /\ CallsOK(Tail(s)) /\ Head(Tail(s)) = s[2] /\ FrameOK(Head(s), Head(Tail(s)))
         /\ OnlyReader(s) <=> Head(s).f \in ReaderFrames /\ OnlyReader(Tail(s))
<1> DEFINE t == Tail(s)
<1>1. /\ Sequential(s) /\ s # << >> /\ Len(s) \in Nat \ {0} /\ Head(s) = s[1]
      /\ FrameOK(s[1], s[2])
  BY Innermost
<1>2. /\ Sequential(t) /\ t # << >> /\ Len(t) = Len(s) - 1
      /\ \A i \in 1..(Len(s) - 1) : t[i] = s[i + 1]
  BY <1>1, Popped
<1> HIDE DEF t
<1>3. Len(t) \in Nat \ {0} /\ Head(t) = t[1]
  BY <1>2, Popped
<1>4. t[Len(t)] = s[Len(s)] /\ t[1] = s[2]
  <2>1. Len(t) \in 1..(Len(s) - 1) /\ 1 \in 1..(Len(s) - 1) /\ Len(t) + 1 = Len(s)
    BY <1>1, <1>2, <1>3
  <2> QED
    BY <1>2, <2>1
<1>5. ASSUME NEW i \in 1..(Len(t) - 1)
      PROVE  i + 1 \in 1..(Len(s) - 1) /\ t[i] = s[i + 1] /\ t[i + 1] = s[(i + 1) + 1]
  BY <1>1, <1>2
<1>6. \A i \in 1..(Len(t) - 1) : FrameOK(t[i], t[i + 1])
  BY <1>5 DEF CallsOK
<1>7. CallsOK(t)
  BY <1>2, <1>4, <1>6 DEF CallsOK
<1>8. OnlyReader(s) <=> s[1].f \in ReaderFrames /\ OnlyReader(t)
  <2>1. ASSUME OnlyReader(s) PROVE s[1].f \in ReaderFrames /\ OnlyReader(t)
    <3>1. 1 \in 1..(Len(s) - 1)
      BY <1>2, <1>3
    <3> QED
      BY <1>5, <2>1, <3>1 DEF OnlyReader
  <2>2. ASSUME s[1].f \in ReaderFrames, OnlyReader(t), NEW i \in 1..(Len(s) - 1)
        PROVE  s[i].f \in ReaderFrames
    <3>1. CASE i = 1
      BY <2>2, <3>1
    <3>2. CASE i # 1
      <4>1. i - 1 \in 1..(Len(t) - 1) /\ i - 1 \in 1..(Len(s) - 1) /\ (i - 1) + 1 = i
        BY <1>1, <1>2, <3>2
      <4>2. t[i - 1] = s[i]
        BY <1>2, <4>1
      <4> QED
        BY <2>2, <4>1, <4>2 DEF OnlyReader
    <3> QED
      BY <3>1, <3>2
  <2> QED
    BY <2>1, <2>2 DEF OnlyReader
<1> QED
  BY <1>1, <1>3, <1>4, <1>7, <1>8 DEF t

\* The innermost call is one of the reader's.
LEMMA InnermostReader ==
  ASSUME NEW s, CallsOK(s), Head(s).f \in ReaderFrames
  PROVE  /\ Len(s) # 1 /\ CallsOK(Tail(s))
         /\ OnlyReader(Tail(s)) <=> OnlyReader(s)
<1>1. "repl" \notin ReaderFrames
  BY DEF ReaderFrames
<1>2. Len(s) # 1
  BY <1>1, Innermost
<1> QED
  BY <1>2, CallReturned

\* The innermost call is one made by a command: load's loop, or read.
LEMMA InnermostPrimitive ==
  ASSUME NEW s, CallsOK(s), Head(s).f = "primitive" \/ (Head(s).f = "repl" /\ Len(s) # 1)
  PROVE  /\ Len(s) # 1 /\ CallsOK(Tail(s)) /\ Head(Tail(s)).f = "repl" /\ ~OnlyReader(s)
<1>1. "repl" \notin ReaderFrames /\ "primitive" \notin ReaderFrames
  BY DEF ReaderFrames
<1>2. Len(s) # 1
  BY Innermost
<1>3. FrameOK(Head(s), Head(Tail(s)))
  BY <1>2, CallReturned
<1>4. Head(Tail(s)).f = "repl"
  BY <1>1, <1>3 DEF FrameOK
<1> QED
  BY <1>1, <1>2, <1>4, CallReturned

\* A call of the reader takes the place of another.
LEMMA ReaderGoesOn ==
  ASSUME NEW s, CallsOK(s), Head(s).f \in ReaderFrames, NEW f, f.f \in ReaderFrames
  PROVE  /\ CallsOK(<<f>> \o Tail(s))
         /\ OnlyReader(<<f>> \o Tail(s)) <=> OnlyReader(s)
<1>1. CallsOK(Tail(s)) /\ (OnlyReader(Tail(s)) <=> OnlyReader(s))
  BY InnermostReader
<1>2. FrameOK(f, Head(Tail(s)))
  BY DEF FrameOK
<1> QED
  BY <1>1, <1>2, CallMade

\* A loop keeps the value of its command.
LEMMA LoopUpdated ==
  ASSUME NEW s, CallsOK(s), Head(s).f = "repl", NEW v,
         NEW f, f = [Head(s) EXCEPT !.val = v]
  PROVE  /\ CallsOK(<<f>> \o Tail(s)) /\ Len(<<f>> \o Tail(s)) = Len(s)
         /\ Head(<<f>> \o Tail(s)).f = "repl"
<1> DEFINE t == <<f>> \o Tail(s)
<1>1. f = ReplFrame(Head(s).port, Head(s).prints, v)
  BY InnermostLoop DEF LoopOK, ReplFrame
<1>2. /\ f.f = "repl" /\ f.port = Head(s).port /\ f.prints = Head(s).prints /\ LoopOK(f)
  BY <1>1 DEF LoopOK, ReplFrame
<1>3. CASE Len(s) # 1
  <2>1. CallsOK(Tail(s)) /\ FrameOK(Head(s), Head(Tail(s)))
    BY <1>3, CallReturned
  <2>2. FrameOK(f, Head(Tail(s)))
    <3>1. "repl" \notin ReaderFrames
      BY DEF ReaderFrames
    <3> QED
      BY <1>2, <2>1, <3>1 DEF FrameOK
  <2>3. CallsOK(t) /\ Head(t) = f
    BY <2>1, <2>2, CallMade
  <2>4. Len(t) = Len(Tail(s)) + 1 /\ Len(Tail(s)) = Len(s) - 1 /\ Len(s) \in Nat
    BY <2>1, Pushed, Popped DEF CallsOK
  <2> HIDE DEF t
  <2>5. Len(t) = Len(s)
    BY <2>4
  <2> QED
    BY <1>2, <2>3, <2>5 DEF t
<1>4. CASE Len(s) = 1
  <2>1. Sequential(Tail(s)) /\ Len(Tail(s)) = 0
    <3>1. Sequential(Tail(s)) /\ Len(Tail(s)) = Len(s) - 1
      BY Popped DEF CallsOK
    <3> QED
      BY <1>4, <3>1
  <2>2. Sequential(t) /\ t # << >> /\ Len(t) = 1 /\ t[1] = f /\ Head(t) = f
    BY <2>1, Pushed
  <2> HIDE DEF t
  <2>3. Head(s).prints = TRUE
    BY <1>4, Innermost
  <2>4. CallsOK(t)
    BY <1>2, <2>2, <2>3 DEF CallsOK
  <2> QED
    BY <1>2, <1>4, <2>2, <2>4 DEF t
<1> QED
  BY <1>3, <1>4

\* The loop at the console alone.
LEMMA AtThePrompt == CallsOK(Prompt) /\ Len(Prompt) = 1 /\ Head(Prompt).f = "repl"
<1> DEFINE f == ReplFrame(Console, TRUE, Nil)
<1>1. f.f = "repl" /\ LoopOK(f) /\ f.prints = TRUE
  BY DEF LoopOK, ReplFrame
<1>2. Prompt = <<f>>
  BY DEF Prompt
<1> HIDE DEF f
<1>3. Prompt \in Seq({f}) /\ Len(Prompt) = 1 /\ Prompt[1] = f /\ Head(Prompt) = f
  BY <1>2
<1>4. Sequential(Prompt) /\ Prompt # << >>
  BY <1>3 DEF Sequential
<1> QED
  BY <1>1, <1>3, <1>4 DEF CallsOK

-----------------------------------------------------------------------------
(* What is sent to Emacs. *)

\* Escapes that may follow the last one are sent.
LEMMA Extended ==
  ASSUME NEW e, Sequential(e), e # << >>, Follow(e),
         NEW d, Sequential(d), d # << >>, Follow(d),
         <<e[Len(e)], d[1]>> \in MayFollow
  PROVE  /\ Sequential(e \o d) /\ e \o d # << >> /\ Follow(e \o d)
         /\ (e \o d)[Len(e \o d)] = d[Len(d)]
<1>1. PICK S : e \in Seq(S)
  BY DEF Sequential
<1>2. PICK T : d \in Seq(T)
  BY DEF Sequential
<1> DEFINE U == S \cup T
           t == e \o d
<1>3. e \in Seq(U) /\ d \in Seq(U)
  BY <1>1, <1>2
<1>4. /\ t \in Seq(U) /\ Len(t) = Len(e) + Len(d)
      /\ \A i \in 1..(Len(e) + Len(d)) : t[i] = IF i <= Len(e) THEN e[i] ELSE d[i - Len(e)]
  BY <1>3, ConcatProperties
<1>5. Len(e) \in Nat \ {0} /\ Len(d) \in Nat \ {0}
  BY Popped
<1> HIDE DEF t, U
<1>6. t[Len(t)] = d[Len(d)]
  <2>1. /\ Len(e) + Len(d) \in 1..(Len(e) + Len(d)) /\ ~(Len(e) + Len(d) <= Len(e))
        /\ (Len(e) + Len(d)) - Len(e) = Len(d)
    BY <1>5
  <2> QED
    BY <1>4, <2>1
<1>7. ASSUME NEW i \in 1..(Len(t) - 1) PROVE <<t[i], t[i + 1]>> \in MayFollow
  <2>1. CASE i < Len(e)
    <3>1. i \in 1..(Len(e) - 1) /\ t[i] = e[i] /\ t[i + 1] = e[i + 1]
      BY <1>4, <1>5, <2>1
    <3> QED
      BY <3>1 DEF Follow
  <2>2. CASE i = Len(e)
    <3>1. t[i] = e[Len(e)]
      BY <1>4, <1>5, <2>2
    <3>2. /\ i + 1 \in 1..(Len(e) + Len(d)) /\ ~(i + 1 <= Len(e)) /\ (i + 1) - Len(e) = 1
      BY <1>5, <2>2
    <3>3. t[i + 1] = d[1]
      BY <1>4, <3>2
    <3> QED
      BY <3>1, <3>3
  <2>3. CASE i > Len(e)
    <3> DEFINE j == i - Len(e)
    <3>1. /\ j \in 1..(Len(d) - 1) /\ i \in 1..(Len(e) + Len(d)) /\ ~(i <= Len(e))
          /\ i + 1 \in 1..(Len(e) + Len(d)) /\ ~(i + 1 <= Len(e)) /\ (i + 1) - Len(e) = j + 1
      BY <1>4, <1>5, <2>3
    <3>2. t[i] = d[j] /\ t[i + 1] = d[j + 1]
      BY <1>4, <3>1
    <3> QED
      BY <3>1, <3>2 DEF Follow
  <2> QED
    BY <1>4, <1>5, <2>1, <2>2, <2>3
<1>8. t # << >>
  BY <1>4, <1>5
<1> QED
  BY <1>4, <1>6, <1>7, <1>8 DEF t, Follow, Sequential

\* What Emacs has been told, and is told last.
Told(d) == Sequential(sent') /\ (emacs => /\ sent' # << >> /\ Follow(sent')
                                          /\ sent'[Len(sent')] = d)

\* One escape sent, which may follow the one before.
LEMMA OneSent ==
  ASSUME IInv, NEW x, Send(<<x>>), emacs => <<sent[Len(sent)], x>> \in MayFollow
  PROVE  Told(x)
<1> DEFINE d == <<x>>
<1>1. d \in Seq({x}) /\ Len(d) = 1 /\ d[1] = x /\ d # << >>
  OBVIOUS
<1>2. sent' = IF emacs THEN sent \o d ELSE sent
  BY DEF Send
<1> HIDE DEF d
<1>3. Sequential(d) /\ Follow(d)
  BY <1>1 DEF Sequential, Follow
<1> QED
  BY <1>1, <1>2, <1>3, Extended DEF IInv, SentOK, Told

\* Two escapes sent, one after the other.
LEMMA TwoSent ==
  ASSUME IInv, NEW x, NEW y, Send(<<x, y>>), <<x, y>> \in MayFollow,
         emacs => <<sent[Len(sent)], x>> \in MayFollow
  PROVE  Told(y)
<1> DEFINE d == <<x, y>>
<1>1. d \in Seq({x, y}) /\ Len(d) = 2 /\ d[1] = x /\ d[2] = y /\ d # << >>
  OBVIOUS
<1>2. sent' = IF emacs THEN sent \o d ELSE sent
  BY DEF Send
<1>3. <<d[1], d[2]>> \in MayFollow
  OBVIOUS
<1> HIDE DEF d
<1>4. Sequential(d)
  BY <1>1 DEF Sequential
<1>5. Follow(d)
  <2>1. ASSUME NEW i \in 1..(Len(d) - 1) PROVE <<d[i], d[i + 1]>> \in MayFollow
    <3>1. i = 1 /\ i + 1 = 2
      BY <1>1
    <3> QED
      BY <1>3, <3>1
  <2> QED
    BY <2>1 DEF Follow
<1>6. d # << >> /\ d[Len(d)] = y
  BY <1>1
<1>7. CASE emacs
  <2>1. /\ Sequential(sent) /\ sent # << >> /\ Follow(sent)
        /\ <<sent[Len(sent)], d[1]>> \in MayFollow
    BY <1>1, <1>7 DEF IInv, SentOK
  <2> QED
    BY <1>2, <1>4, <1>5, <1>6, <1>7, <2>1, Extended DEF Told
<1>8. CASE ~emacs
  BY <1>2, <1>8 DEF IInv, SentOK, Told
<1> QED
  BY <1>7, <1>8

\* Nothing sent.
LEMMA NoneSent ==
  ASSUME IInv, UNCHANGED sent
  PROVE  Told(sent[Len(sent)])
BY DEF IInv, SentOK, Told

\* A step keeps the invariant when its last escape fits what comes next.
LEMMA Kept ==
  ASSUME CallsOK(stack'), NEW d, Told(d), emacs => d \in LastSent(ctl'.m, stack'),
         ctl'.m \in {"read", "pair", "value", "overflow", "prompt", "error", "eval", "result", "done"},
         ctl'.m \in {"prompt", "eval", "result"} => Head(stack').f = "repl",
         UNCHANGED emacs, IInv
  PROVE  IInv'
<1>1. ControlOK'
  BY DEF ControlOK, Reading, Top
<1>2. SentOK'
  BY DEF SentOK, Told, Follow, MayFollow, LastSent, OnlyReader
<1>3. CallsOK(stack)'
  BY DEF CallsOK
<1> QED
  BY <1>1, <1>2, <1>3 DEF IInv

-----------------------------------------------------------------------------
(* The steps. *)

\* The reader calls and returns between the calls in progress and leaves them.
LEMMA ReaderKeepsCalls ==
  ASSUME CallsOK(stack), ReaderStep
  PROVE  /\ ctl.m \in {"read", "pair", "value"}
         /\ ctl'.m \in {"read", "pair", "value", "error", "overflow"}
         /\ CallsOK(stack') /\ (OnlyReader(stack') <=> OnlyReader(stack))
<1>1. CASE ReadEnd \/ ReadList \/ ReadToken \/ EndList \/ StackOverflow
  <2>1. UNCHANGED stack
    BY <1>1 DEF ReadEnd, ReadList, ReadToken, EndList, StackOverflow, error
  <2>2. ctl.m \in {"read", "pair"}
    BY <1>1 DEF ReadEnd, ReadList, ReadToken, EndList, StackOverflow, Room
  <2>3. ctl'.m \in {"pair", "value", "error", "overflow"}
    BY <1>1 DEF ReadEnd, ReadList, ReadToken, EndList, StackOverflow, ReadPair, Return, error
  <2> QED
    BY <2>1, <2>2, <2>3
<1>2. ASSUME NEW f, f.f \in ReaderFrames, stack' = <<f>> \o stack
      PROVE  CallsOK(stack') /\ (OnlyReader(stack') <=> OnlyReader(stack))
  BY <1>2, CallMade DEF FrameOK
<1>3. ASSUME NEW f, f.f \in ReaderFrames, stack' = <<f>> \o Below, Top.f \in ReaderFrames
      PROVE  CallsOK(stack') /\ (OnlyReader(stack') <=> OnlyReader(stack))
  BY <1>3, ReaderGoesOn DEF Top, Below
<1>4. ASSUME stack' = Below, Top.f \in ReaderFrames
      PROVE  CallsOK(stack') /\ (OnlyReader(stack') <=> OnlyReader(stack))
  BY <1>4, InnermostReader DEF Top, Below
<1>5. CASE ReadVector \/ ReadCommentedForm \/ ReadQuotation \/ ReadElement
  <2>1. ctl.m \in {"read", "pair"} /\ ctl'.m = "read"
    <3>1. Room("read") \/ Room("pair")
      BY <1>5 DEF ReadVector, ReadCommentedForm, ReadQuotation, ReadElement
    <3>2. Read
      BY <1>5 DEF ReadVector, ReadCommentedForm, ReadQuotation, ReadElement
    <3> QED
      BY <3>1, <3>2 DEF Room, Read
  <2>2. CASE ReadVector
    BY <1>2, <2>1, <2>2 DEF ReadVector, Push, ReaderFrames
  <2>3. CASE ReadCommentedForm
    BY <1>2, <2>1, <2>3 DEF ReadCommentedForm, Push, ReaderFrames
  <2>4. CASE ReadQuotation
    <3>1. PICK n : stack' = <<[f |-> "quote", name |-> n]>> \o stack
      BY <2>4 DEF ReadQuotation, Push
    <3> QED
      BY <1>2, <2>1, <3>1 DEF ReaderFrames
  <2>5. CASE ReadElement
    BY <1>2, <2>1, <2>5 DEF ReadElement, Push, ReaderFrames
  <2> QED
    BY <1>5, <2>2, <2>3, <2>4, <2>5
<1>6. CASE AfterElement
  <2>1. ctl.m = "value" /\ Top.f \in ReaderFrames
    BY <1>6 DEF AfterElement, Returned, ReaderFrames
  <2>2. CASE ctl'.m = "error" /\ UNCHANGED stack
    BY <2>1, <2>2
  <2>3. CASE stack' = <<[f |-> "dotted", car |-> ctl.v]>> \o Below /\ ctl'.m = "read"
    BY <1>3, <2>1, <2>3 DEF ReaderFrames
  <2>4. CASE stack' = <<[f |-> "cdr", car |-> ctl.v]>> \o Below /\ ctl'.m = "pair"
    BY <1>3, <2>1, <2>4 DEF ReaderFrames
  <2> QED
    BY <1>6, <2>2, <2>3, <2>4 DEF AfterElement, Read, ReadPair, error
<1>7. CASE EndRest \/ EndDotted \/ EndQuotation \/ EndVector \/ Discard
  <2>1. ctl.m = "value" /\ Top.f \in ReaderFrames
    BY <1>7 DEF EndRest, EndDotted, EndQuotation, EndVector, Discard, Returned, ReaderFrames
  <2>2. \/ stack' = Below /\ ctl'.m \in {"value", "read"}
        \/ UNCHANGED stack /\ ctl'.m = "error"
    BY <1>7 DEF EndRest, EndDotted, EndQuotation, EndVector, Discard, Return, Read, error
  <2> QED
    BY <1>4, <2>1, <2>2
<1> QED
  BY <1>1, <1>5, <1>6, <1>7 DEF ReaderStep

\* A step of the reader; its errors are still to be told.
LEMMA ReadStepKeeps ==
  ASSUME IInv, ReadStep
  PROVE  IInv'
<1>1. /\ ctl.m \in {"read", "pair", "value"}
      /\ ctl'.m \in {"read", "pair", "value", "error", "overflow"}
      /\ CallsOK(stack') /\ (OnlyReader(stack') <=> OnlyReader(stack))
  BY ReaderKeepsCalls DEF ReadStep, IInv
<1>2. Told(sent[Len(sent)]) /\ UNCHANGED emacs
  BY NoneSent DEF ReadStep, Same
<1>3. emacs => sent[Len(sent)] \in LastSent(ctl.m, stack)
  BY DEF IInv, SentOK
<1>4. emacs => sent[Len(sent)] \in LastSent(ctl'.m, stack')
  BY <1>1, <1>3 DEF LastSent
<1> QED
  BY <1>1, <1>2, <1>4, Kept

\* The loop starts to read a command; at the prompt Emacs is told so.
LEMMA StartReadKeeps ==
  ASSUME IInv, StartRead
  PROVE  IInv'
<1>1. ctl.m = "prompt" /\ ctl'.m = "read" /\ UNCHANGED <<stack, emacs>>
  BY DEF StartRead, Read, Same
<1>2. CallsOK(stack) /\ Top.f = "repl"
  BY <1>1 DEF IInv, ControlOK
<1>3. /\ Top.prints <=> Len(stack) = 1
      /\ OnlyReader(stack) <=> Len(stack) = 1
  BY <1>2, InnermostLoop DEF Top
<1>4. emacs => sent[Len(sent)] \in (IF Len(stack) = 1 THEN {"w", "v"} ELSE {"f"})
  BY <1>1 DEF IInv, SentOK, LastSent
<1>5. CASE Len(stack) = 1
  <2>1. Send(<<"p", "s">>)
    BY <1>3, <1>5 DEF StartRead
  <2>2. /\ emacs => <<sent[Len(sent)], "p">> \in MayFollow
        /\ <<"p", "s">> \in MayFollow
    BY <1>4, <1>5 DEF MayFollow
  <2>3. Told("s")
    BY <2>1, <2>2, TwoSent
  <2>4. "s" \in LastSent(ctl'.m, stack')
    BY <1>1, <1>3, <1>5 DEF LastSent
  <2> QED
    BY <1>1, <1>2, <2>3, <2>4, Kept
<1>6. CASE Len(stack) # 1
  <2>1. Told(sent[Len(sent)])
    BY <1>3, <1>6, NoneSent DEF StartRead
  <2>2. emacs => sent[Len(sent)] \in LastSent(ctl'.m, stack')
    BY <1>1, <1>3, <1>4, <1>6 DEF LastSent
  <2> QED
    BY <1>1, <1>2, <2>1, <2>2, Kept
<1> QED
  BY <1>5, <1>6

\* A value has come back to a loop.
LEMMA AtLoop ==
  ASSUME IInv, Returned("repl")
  PROVE  /\ CallsOK(stack) /\ Head(stack).f = "repl"
         /\ Top.prints <=> Len(stack) = 1
         /\ emacs => sent[Len(sent)] = IF Len(stack) = 1 THEN "s" ELSE "f"
<1>1. CallsOK(stack) /\ Head(stack).f = "repl" /\ ctl.m = "value"
  BY DEF IInv, Returned, Top
<1>2. /\ Top.prints <=> Len(stack) = 1
      /\ OnlyReader(stack) <=> Len(stack) = 1
  BY <1>1, InnermostLoop DEF Top
<1>3. emacs => sent[Len(sent)] \in IF OnlyReader(stack) THEN {"s"} ELSE {"f"}
  BY <1>1 DEF IInv, SentOK, LastSent
<1> QED
  BY <1>1, <1>2, <1>3

\* The command has been read; at the prompt Emacs is told so.
LEMMA GotCommandKeeps ==
  ASSUME IInv, GotCommand
  PROVE  IInv'
<1>1. /\ Returned("repl") /\ ctl'.m = "eval" /\ UNCHANGED <<stack, emacs>>
  BY DEF GotCommand, Same
<1>2. Told("f")
  <2>1. CASE Len(stack) = 1
    <3>1. Send(<<"f">>)
      BY <1>1, <2>1, AtLoop DEF GotCommand
    <3>2. emacs => <<sent[Len(sent)], "f">> \in MayFollow
      BY <1>1, <2>1, AtLoop DEF MayFollow
    <3> QED
      BY <3>1, <3>2, OneSent
  <2>2. CASE Len(stack) # 1
    <3>1. Told(sent[Len(sent)]) /\ (emacs => sent[Len(sent)] = "f")
      BY <1>1, <2>2, AtLoop, NoneSent DEF GotCommand
    <3> QED
      BY <3>1 DEF Told
  <2> QED
    BY <2>1, <2>2
<1>3. "f" \in LastSent(ctl'.m, stack')
  BY <1>1 DEF LastSent
<1>4. CallsOK(stack') /\ Head(stack').f = "repl"
  BY <1>1, AtLoop
<1> QED
  BY <1>1, <1>2, <1>3, <1>4, Kept

\* A loop ends: load returns to the command that called it.
LEMMA EndOfInputKeeps ==
  ASSUME IInv, EndOfInput
  PROVE  IInv'
<1>1. Returned("repl") /\ UNCHANGED <<sent, emacs>>
  BY DEF EndOfInput, Same
<1>2. /\ CallsOK(stack) /\ Head(stack).f = "repl"
      /\ emacs => sent[Len(sent)] = IF Len(stack) = 1 THEN "s" ELSE "f"
  BY <1>1, AtLoop
<1>3. Told(sent[Len(sent)])
  BY <1>1, NoneSent
<1>4. Below = << >> <=> Len(stack) = 1
  BY <1>2, Popped DEF CallsOK, Below
<1>5. CASE Len(stack) = 1
  <2>1. ctl'.m = "done" /\ stack' = stack
    BY <1>4, <1>5 DEF EndOfInput
  <2>2. emacs => sent[Len(sent)] \in LastSent(ctl'.m, stack')
    BY <1>2, <1>5, <2>1 DEF LastSent
  <2> QED
    BY <1>1, <1>2, <1>3, <2>1, <2>2, Kept
<1>6. CASE Len(stack) # 1
  <2>1. ctl'.m = "result" /\ stack' = Tail(stack)
    BY <1>4, <1>6 DEF EndOfInput, Evaluated, Below
  <2>2. CallsOK(stack') /\ Head(stack').f = "repl"
    BY <1>2, <1>6, <2>1, InnermostPrimitive
  <2>3. emacs => sent[Len(sent)] \in LastSent(ctl'.m, stack')
    BY <1>2, <1>6, <2>1 DEF LastSent
  <2> QED
    BY <1>1, <1>3, <2>1, <2>2, <2>3, Kept
<1> QED
  BY <1>5, <1>6

\* The command has been evaluated; at the prompt Emacs is shown its value.
LEMMA GotResultKeeps ==
  ASSUME IInv, GotResult
  PROVE  IInv'
<1> DEFINE f == [Head(stack) EXCEPT !.val = ctl.v]
<1>1. /\ ctl.m = "result" /\ ctl'.m = "prompt" /\ stack' = <<f>> \o Tail(stack)
      /\ UNCHANGED emacs
  BY DEF GotResult, At_prompt, Top, Below
<1>2. CallsOK(stack) /\ Head(stack).f = "repl"
  BY <1>1 DEF IInv, ControlOK, Top
<1>3. CallsOK(stack') /\ Len(stack') = Len(stack) /\ Head(stack').f = "repl"
  BY <1>1, <1>2, LoopUpdated
<1>4. Top.prints <=> Len(stack) = 1
  BY <1>2, InnermostLoop DEF Top
<1>5. emacs => sent[Len(sent)] = "f"
  BY <1>1 DEF IInv, SentOK, LastSent
<1>6. CASE Len(stack) = 1
  <2>1. Send(<<"v">>)
    BY <1>4, <1>6 DEF GotResult
  <2>2. emacs => <<sent[Len(sent)], "v">> \in MayFollow
    BY <1>5 DEF MayFollow
  <2>3. Told("v")
    BY <2>1, <2>2, OneSent
  <2>4. "v" \in LastSent(ctl'.m, stack')
    BY <1>1, <1>3, <1>6 DEF LastSent
  <2> QED
    BY <1>1, <1>3, <2>3, <2>4, Kept
<1>7. CASE Len(stack) # 1
  <2>1. Told(sent[Len(sent)])
    BY <1>4, <1>7, NoneSent DEF GotResult
  <2>2. emacs => sent[Len(sent)] \in LastSent(ctl'.m, stack')
    BY <1>1, <1>3, <1>5, <1>7 DEF LastSent
  <2> QED
    BY <1>1, <1>3, <2>1, <2>2, Kept
<1> QED
  BY <1>6, <1>7

\* An error, wherever it was, is told and leads back to the prompt.
LEMMA RecoverKeeps ==
  ASSUME IInv, Recover
  PROVE  IInv'
<1>1. /\ ctl.m = "error" /\ ctl'.m = "prompt" /\ stack' = Prompt
      /\ Send(<<"z", "w">>) /\ UNCHANGED emacs
  BY DEF Recover, At_prompt
<1>2. emacs => sent[Len(sent)] \in {"s", "f"}
  BY <1>1 DEF IInv, SentOK, LastSent
<1>3. (emacs => <<sent[Len(sent)], "z">> \in MayFollow) /\ <<"z", "w">> \in MayFollow
  BY <1>2 DEF MayFollow
<1>4. Told("w")
  BY <1>1, <1>3, TwoSent
<1>5. CallsOK(stack') /\ Len(stack') = 1 /\ Head(stack').f = "repl"
  BY <1>1, AtThePrompt
<1>6. "w" \in LastSent(ctl'.m, stack')
  BY <1>1, <1>5 DEF LastSent
<1> QED
  BY <1>1, <1>4, <1>5, <1>6, Kept

\* A command is evaluated by the loop that read it.
LEMMA Evaluates ==
  ASSUME IInv, ctl.m = "eval"
  PROVE  /\ CallsOK(stack) /\ Head(stack).f = "repl"
         /\ emacs => sent[Len(sent)] = "f"
BY DEF IInv, ControlOK, SentOK, LastSent, Top

\* Evaluation sends nothing; what it calls reads for it, after f.
LEMMA EvaluationKeeps ==
  ASSUME IInv, Evaluation
  PROVE  IInv'
<1>1. UNCHANGED <<sent, emacs>>
  BY DEF Evaluation, EvalConstant, EvalLoad, EvalRead, GotDatum, EvalReadChar, EvalOther, Same
<1>2. Told(sent[Len(sent)])
  BY <1>1, NoneSent
<1>3. CASE EvalConstant \/ EvalReadChar
  <2>1. ctl.m = "eval" /\ ctl'.m = "result" /\ UNCHANGED stack
    BY <1>3 DEF EvalConstant, EvalReadChar, Evaluating, Evaluated
  <2>2. emacs => sent[Len(sent)] \in LastSent(ctl'.m, stack')
    BY <2>1, Evaluates DEF LastSent
  <2> QED
    BY <1>1, <1>2, <2>1, <2>2, Evaluates, Kept
<1>4. CASE EvalOther
  <2>1. ctl.m = "eval" /\ ctl'.m = "error" /\ UNCHANGED stack
    BY <1>4 DEF EvalOther, Evaluating, error
  <2>2. emacs => sent[Len(sent)] \in LastSent(ctl'.m, stack')
    BY <2>1, Evaluates DEF LastSent
  <2> QED
    BY <1>1, <1>2, <2>1, <2>2, Evaluates, Kept
<1>5. CASE EvalLoad
  <2> DEFINE f == ReplFrame(Len(ports) + 1, FALSE, Nil)
  <2>1. ctl.m = "eval" /\ ctl'.m = "prompt" /\ stack' = <<f>> \o stack
    BY <1>5 DEF EvalLoad, Evaluating, At_prompt, Push
  <2>2. f.f = "repl" /\ LoopOK(f) /\ f.prints = FALSE
    BY DEF ReplFrame, LoopOK
  <2> HIDE DEF f
  <2>3. CallsOK(stack) /\ FrameOK(f, Head(stack))
    BY <2>1, <2>2, Evaluates DEF FrameOK
  <2>4. CallsOK(stack') /\ Head(stack') = f /\ Len(stack') # 1
    BY <2>1, <2>3, CallMade
  <2>5. emacs => sent[Len(sent)] \in LastSent(ctl'.m, stack')
    BY <2>1, <2>4, Evaluates DEF LastSent
  <2> QED
    BY <1>1, <1>2, <2>1, <2>2, <2>4, <2>5, Kept
<1>6. CASE EvalRead
  <2> DEFINE f == [f |-> "primitive"]
  <2>1. ctl.m = "eval" /\ ctl'.m = "read" /\ stack' = <<f>> \o stack
    BY <1>6 DEF EvalRead, Evaluating, Read, Push
  <2>2. f.f = "primitive" /\ "primitive" \notin ReaderFrames
    BY DEF ReaderFrames
  <2> HIDE DEF f
  <2>3. CallsOK(stack) /\ FrameOK(f, Head(stack))
    BY <2>1, <2>2, Evaluates DEF FrameOK
  <2>4. CallsOK(stack') /\ ~OnlyReader(stack')
    BY <2>1, <2>2, <2>3, CallMade
  <2>5. emacs => sent[Len(sent)] \in LastSent(ctl'.m, stack')
    BY <2>1, <2>4, Evaluates DEF LastSent
  <2> QED
    BY <1>1, <1>2, <2>1, <2>4, <2>5, Kept
<1>7. CASE GotDatum
  <2>1. /\ ctl.m = "value" /\ Head(stack).f = "primitive"
        /\ ctl'.m = "result" /\ stack' = Tail(stack)
    BY <1>7 DEF GotDatum, Returned, Evaluated, Top, Below
  <2>2. CallsOK(stack') /\ Head(stack').f = "repl" /\ ~OnlyReader(stack)
    BY <2>1, InnermostPrimitive DEF IInv
  <2>3. emacs => sent[Len(sent)] \in LastSent(ctl'.m, stack')
    BY <2>1, <2>2 DEF IInv, SentOK, LastSent
  <2> QED
    BY <1>1, <1>2, <2>1, <2>2, <2>3, Kept
<1> QED
  BY <1>3, <1>4, <1>5, <1>6, <1>7 DEF Evaluation

-----------------------------------------------------------------------------
(* The invariant. *)

\* The prompt, with s sent.
LEMMA Initially ==
  ASSUME Init
  PROVE  IInv
<1>1. CallsOK(stack) /\ Len(stack) = 1 /\ Head(stack).f = "repl"
  BY AtThePrompt DEF Init
<1>2. ctl.m = "prompt" /\ emacs \in BOOLEAN
  BY DEF Init
<1>3. Sequential(sent)
  <2>1. <<"w">> \in Seq({"w"}) /\ << >> \in Seq({"w"})
    OBVIOUS
  <2>2. sent = <<"w">> \/ sent = << >>
    BY DEF Init
  <2> QED
    BY <2>1, <2>2 DEF Sequential
<1>4. ASSUME emacs PROVE sent # << >> /\ Len(sent) = 1 /\ sent[1] = "w"
  BY <1>4 DEF Init
<1>5. SentOK
  BY <1>1, <1>2, <1>3, <1>4 DEF SentOK, Follow, LastSent
<1> QED
  BY <1>1, <1>2, <1>5 DEF IInv, ControlOK, Top

\* Every step of the loop, the reader and the evaluation keeps the invariant.
LEMMA Invariance == IInv /\ [Next]_vars => IInv'
<1> SUFFICES ASSUME IInv, [Next]_vars PROVE IInv'
  OBVIOUS
<1>1. CASE StartRead
  BY <1>1, StartReadKeeps
<1>2. CASE ReadStep
  BY <1>2, ReadStepKeeps
<1>3. CASE GotCommand
  BY <1>3, GotCommandKeeps
<1>4. CASE EndOfInput
  BY <1>4, EndOfInputKeeps
<1>5. CASE GotResult
  BY <1>5, GotResultKeeps
<1>6. CASE Recover
  BY <1>6, RecoverKeeps
<1>7. CASE Evaluation
  BY <1>7, EvaluationKeeps
<1>8. CASE UNCHANGED vars
  BY <1>8
  DEF vars, IInv, CallsOK, ControlOK, Reading, Top, SentOK, Follow, LastSent, OnlyReader, MayFollow
<1> QED
  BY <1>1, <1>2, <1>3, <1>4, <1>5, <1>6, <1>7, <1>8 DEF Next, Loop, Ended

\* Emacs is never out of step: s is the last escape it was sent exactly while
\* the loop at the prompt reads a command, whatever is typed, loaded or read
\* by the command itself, and each escape follows one that it may follow.
THEOREM EmacsKeepsStep == Spec => []EmacsInStep
<1>1. IInv => EmacsInStep
  <2> SUFFICES ASSUME IInv, emacs
               PROVE  /\ ctl.m \notin {"error", "done"} => (Last(sent) = "s" <=> ReadsCommand)
                      /\ \A i \in 1..(Len(sent) - 1) : <<sent[i], sent[i + 1]>> \in MayFollow
    BY DEF EmacsInStep
  <2>1. Last(sent) = sent[Len(sent)] /\ sent[Len(sent)] \in LastSent(ctl.m, stack)
    BY DEF IInv, SentOK, Last
  <2>2. ReadsCommand <=> Reading /\ OnlyReader(stack)
    BY DEF ReadsCommand, Reading, OnlyReader
  <2>3. ctl.m \notin {"error", "done"} => (Last(sent) = "s" <=> ReadsCommand)
    BY <2>1, <2>2 DEF LastSent, IInv, ControlOK, Reading
  <2>4. \A i \in 1..(Len(sent) - 1) : <<sent[i], sent[i + 1]>> \in MayFollow
    BY DEF IInv, SentOK, Follow
  <2> QED
    BY <2>3, <2>4
<1> QED
  BY <1>1, Initially, Invariance, PTL DEF Spec

-----------------------------------------------------------------------------
(* Where the lexer stands.                                                 *)

\* A text has an end.
Bounded(t) == Len(t) \in Nat

\* fgetc stands at a character or at the end.
LEMMA PastInside ==
  ASSUME NEW t, Bounded(t), NEW i \in Nat \ {0}
  PROVE  Past(t, i) \in 1..(Len(t) + 1)
BY DEF Past, Bounded

\* So does the lexer behind a token.
LEMMA TokenInside ==
  ASSUME NEW t, Bounded(t), NEW i \in Nat \ {0}, NEW v
  PROVE  Token(v, t, i).at \in 1..(Len(t) + 1) /\ Delimited(v, t, i).at \in 1..(Len(t) + 1)
BY PastInside DEF Token, Delimited

\* If something holds somewhere from i on, there is a first place.
LEMMA FirstThere ==
  ASSUME NEW A, NEW i \in Nat, NEW n \in Nat, i <= n, n \in A
  PROVE  \E p \in i..n : p \in A /\ \A q \in i..(p - 1) : q \notin A
<1> DEFINE B == {p \in Nat : p >= i /\ p \in A}
<1>1. n \in B
  OBVIOUS
<1> HIDE DEF B
<1>2. PICK m \in Nat : m \in B /\ m <= n /\ \A j \in 0..(m - 1) : j \notin B
  BY <1>1, Smallest
<1>3. m \in i..n /\ m \in A
  BY <1>2 DEF B
<1>4. ASSUME NEW q \in i..(m - 1) PROVE q \notin A
  <2>1. q \in 0..(m - 1) /\ q \in Nat /\ q >= i
    BY <1>2
  <2> QED
    BY <1>2, <2>1 DEF B
<1> QED
  BY <1>3, <1>4

\* Behind the last character there is the end.
LEMMA AtEnd ==
  ASSUME NEW t, Bounded(t), NEW i \in 1..(Len(t) + 1)
  PROVE  At(t, Len(t) + 1) = EOF /\ i <= Len(t) + 1 /\ i \in Nat /\ Len(t) + 1 \in Nat
<1>1. Len(t) \in Nat
  BY DEF Bounded
<1>2. ~(Len(t) + 1 <= Len(t))
  BY <1>1
<1> QED
  BY <1>1, <1>2 DEF At

\* The positions before one of the text are numbers.
LEMMA NumbersBetween ==
  \A i \in Nat, n \in Nat : \A p \in i..n : \A q \in i..(p - 1) : q \in Nat
OBVIOUS

\* Space ends at a character of the text or at its end.
LEMMA SpaceInside ==
  ASSUME NEW t, Bounded(t), NEW i \in 1..(Len(t) + 1)
  PROVE  skip_atmospheric(t, i) \in 1..(Len(t) + 1)
<1> DEFINE P(p) == At(t, p) = EOF \/ (At(t, p) \notin Spaces \cup {";"} /\ ~InComment(t, i, p))
           A == {p \in Nat : P(p)}
<1>1. Len(t) + 1 \in A /\ i <= Len(t) + 1 /\ i \in Nat /\ Len(t) + 1 \in Nat
  BY AtEnd
<1>2. \E p \in i..(Len(t) + 1) : p \in A /\ \A q \in i..(p - 1) : q \notin A
  <2> HIDE DEF A
  <2> QED
    BY <1>1, FirstThere
<1>3. \E p \in i..(Len(t) + 1) : P(p) /\ \A q \in i..(p - 1) : ~P(q)
  <2>1. PICK p \in i..(Len(t) + 1) : p \in A /\ \A q \in i..(p - 1) : q \notin A
    BY <1>2
  <2>2. \A q \in i..(p - 1) : q \in Nat
    BY ONLY <1>1, NumbersBetween
  <2> QED
    BY <2>1, <2>2
<1>4. skip_atmospheric(t, i) = CHOOSE p \in i..(Len(t) + 1) : P(p) /\ \A q \in i..(p - 1) : ~P(q)
  BY DEF skip_atmospheric, FirstFrom
<1> HIDE DEF P
<1>5. skip_atmospheric(t, i) \in i..(Len(t) + 1)
  BY <1>3, <1>4
<1> QED
  BY <1>1, <1>5

\* An identifier ends in the text.
LEMMA IdentifierInside ==
  ASSUME NEW t, Bounded(t), NEW i \in 1..(Len(t) + 1)
  PROVE  read_identifier(t, i).at \in 1..(Len(t) + 1)
<1> DEFINE P(p) == At(t, p) \notin Subsequents
           A == {p \in Nat : P(p)}
           end == FirstFrom(t, i, P)
<1>1. Len(t) + 1 \in A /\ i <= Len(t) + 1 /\ i \in Nat /\ Len(t) + 1 \in Nat
  <2>1. EOF \notin Subsequents
    BY EndAssumption
  <2> QED
    BY <2>1, AtEnd
<1>2. \E p \in i..(Len(t) + 1) : p \in A /\ \A q \in i..(p - 1) : q \notin A
  <2> HIDE DEF A
  <2> QED
    BY <1>1, FirstThere
<1>3. \E p \in i..(Len(t) + 1) : P(p) /\ \A q \in i..(p - 1) : ~P(q)
  <2>1. PICK p \in i..(Len(t) + 1) : p \in A /\ \A q \in i..(p - 1) : q \notin A
    BY <1>2
  <2>2. \A q \in i..(p - 1) : q \in Nat
    BY ONLY <1>1, NumbersBetween
  <2> QED
    BY <2>1, <2>2
<1>4. end = CHOOSE p \in i..(Len(t) + 1) : P(p) /\ \A q \in i..(p - 1) : ~P(q)
  BY DEF FirstFrom
<1>5. end \in Nat \ {0} /\ end + 1 \in Nat \ {0}
  <2> HIDE DEF P
  <2>1. end \in i..(Len(t) + 1)
    BY <1>3, <1>4
  <2> QED
    BY <1>1, <2>1
<1> DEFINE name == Sym(Text([j \in 1..(end - i) |-> tolower(t[i + j - 1])]))
<1>6. read_identifier(t, i) = IF At(t, end) \in Delimiters THEN Token(name, t, end) ELSE Token(Err, t, end + 1)
  BY DEF read_identifier
<1> HIDE DEF end, name
<1> QED
  BY <1>5, <1>6, TokenInside

\* A string too.
LEMMA StringInside ==
  ASSUME NEW t, Bounded(t), NEW i \in 1..(Len(t) + 1)
  PROVE  read_string(t, i).at \in 1..(Len(t) + 1)
<1> DEFINE P(p) == At(t, p) = EOF \/ (t[p] = "\"" /\ ~Escaped(t, i, p))
           A == {p \in Nat : P(p)}
           end == FirstFrom(t, i, P)
<1>1. Len(t) + 1 \in A /\ i <= Len(t) + 1 /\ i \in Nat /\ Len(t) + 1 \in Nat
  BY AtEnd
<1>2. \E p \in i..(Len(t) + 1) : p \in A /\ \A q \in i..(p - 1) : q \notin A
  <2> HIDE DEF A
  <2> QED
    BY <1>1, FirstThere
<1>3. \E p \in i..(Len(t) + 1) : P(p) /\ \A q \in i..(p - 1) : ~P(q)
  <2>1. PICK p \in i..(Len(t) + 1) : p \in A /\ \A q \in i..(p - 1) : q \notin A
    BY <1>2
  <2>2. \A q \in i..(p - 1) : q \in Nat
    BY ONLY <1>1, NumbersBetween
  <2> QED
    BY <2>1, <2>2
<1>4. end = CHOOSE p \in i..(Len(t) + 1) : P(p) /\ \A q \in i..(p - 1) : ~P(q)
  BY DEF FirstFrom
<1>5. Past(t, end + 1) \in Nat \ {0}
  <2> HIDE DEF P
  <2>1. end \in i..(Len(t) + 1)
    BY <1>3, <1>4
  <2> HIDE DEF end
  <2>2. end + 1 \in Nat \ {0}
    BY <1>1, <2>1
  <2> QED
    BY <1>1, <2>2, PastInside
<1>6. read_string(t, i).at = Past(t, Past(t, end + 1))
  BY DEF read_string, Delimited, Token
<1> HIDE DEF end
<1> QED
  BY <1>5, <1>6, PastInside

\* A character is at most a name long.
LEMMA CharacterInside ==
  ASSUME NEW t, Bounded(t), NEW i \in Nat \ {0}
  PROVE  read_character(t, i).at \in 1..(Len(t) + 1)
<1> DEFINE name == LongName(t, i)
           n == Len(name.rest)
           differs(j) == tolower(At(t, i + j)) # name.rest[j]
           first == {j \in 1..n : differs(j) /\ \A h \in 1..(j - 1) : ~differs(h)}
<1>1. n \in Nat
  <2>1. CASE tolower(At(t, i)) = "s" /\ tolower(At(t, i + 1)) = "p"
    BY <2>1 DEF LongName
  <2>2. CASE tolower(At(t, i)) = "n" /\ tolower(At(t, i + 1)) = "e"
    BY <2>2 DEF LongName
  <2>3. CASE /\ ~(tolower(At(t, i)) = "s" /\ tolower(At(t, i + 1)) = "p")
             /\ ~(tolower(At(t, i)) = "n" /\ tolower(At(t, i + 1)) = "e")
    BY <2>3 DEF LongName
  <2> QED
    BY <2>1, <2>2, <2>3
<1> HIDE DEF name, n, differs
<1>2. first # {} => Max(first) \in 1..n
  <2> SUFFICES ASSUME first # {} PROVE Max(first) \in 1..n
    OBVIOUS
  <2>1. PICK j \in first : TRUE
    OBVIOUS
  <2>2. ASSUME NEW k \in first PROVE k = j
    <3>1. j \in 1..n /\ k \in 1..n
      BY <2>1, <2>2
    <3>2. ~(j < k)
      <4> SUFFICES ASSUME j < k PROVE FALSE
        OBVIOUS
      <4>1. j \in 1..(k - 1)
        BY <1>1, <3>1
      <4> QED
        BY <2>1, <2>2, <4>1
    <3>3. ~(k < j)
      <4> SUFFICES ASSUME k < j PROVE FALSE
        OBVIOUS
      <4>1. k \in 1..(j - 1)
        BY <1>1, <3>1
      <4> QED
        BY <2>1, <2>2, <4>1
    <3> QED
      BY <1>1, <3>1, <3>2, <3>3
  <2>3. j \in 1..n
    BY <2>1
  <2>4. \E x \in first : \A y \in first : x >= y
    BY <1>1, <2>1, <2>2, <2>3
  <2> HIDE DEF first
  <2>5. Max(first) \in first
    BY <2>4 DEF Max
  <2> QED
    BY <2>2, <2>3, <2>5
<1>3. read_character(t, i) =
        CASE At(t, i) = EOF -> Token(Err, t, i)
          [] At(t, i) # EOF /\ first = {} -> Delimited(Chr(name.c), t, i + n + 1)
          [] OTHER -> Token(Err, t, i + Max(first) + 1)
  BY DEF read_character, name, n, differs
<1> HIDE DEF first
<1>4. CASE At(t, i) = EOF
  BY <1>3, <1>4, TokenInside
<1>5. CASE At(t, i) # EOF /\ first = {}
  <2>1. i + n + 1 \in Nat \ {0}
    BY <1>1
  <2> QED
    BY <1>3, <1>5, <2>1, TokenInside
<1>6. CASE At(t, i) # EOF /\ first # {}
  <2>1. i + Max(first) + 1 \in Nat \ {0}
    BY <1>1, <1>2, <1>6
  <2>2. read_character(t, i) = Token(Err, t, i + Max(first) + 1)
    BY <1>3, <1>6
  <2> QED
    BY <2>1, <2>2, TokenInside
<1> QED
  BY <1>4, <1>5, <1>6

\* What read_number knows of the number it reads.
NumberStates ==
  [v : {unspecified, Err} \cup {Num(k) : k \in Int}, at : Nat \ {0}, prefix : BOOLEAN, hash : BOOLEAN,
   base : {2, 8, 10, 16}, radix : BOOLEAN, exactness : BOOLEAN, sign : {1, -1}, signed : BOOLEAN,
   number : Int, digits : BOOLEAN]

\* A digit has its value.
LEMMA DigitValued ==
  ASSUME NEW base \in {2, 8, 10, 16}, NEW c \in DigitsOf(base)
  PROVE  DigitValue(c) \in Int
<1>1. PICK i \in 1..base : c = Digits[i]
  BY DEF DigitsOf
<1>2. i - 1 \in 0..15 /\ (i - 1) + 1 = i
  OBVIOUS
<1>3. \E v \in 0..15 : Digits[v + 1] = c
  BY <1>1, <1>2
<1>4. DigitValue(c) \in 0..15
  BY <1>3 DEF DigitValue
<1> QED
  BY <1>4

\* Each character leads from one such state to another.
LEMMA DigitRead ==
  ASSUME NEW t, Bounded(t), NEW s \in NumberStates
  PROVE  ReadDigit(s, t) \in NumberStates
<1> DEFINE c == tolower(At(t, s.at))
           more == At(t, s.at + 1) = "#"
           wrong == [s EXCEPT !.v = Err, !.at = Past(t, @ + 1)]
           next == [s EXCEPT !.at = @ + 1, !.prefix = FALSE]
           again == [s EXCEPT !.at = @ + 1, !.prefix = more, !.hash = more]
<1>1. s.at + 1 \in Nat \ {0} /\ Past(t, s.at + 1) \in Nat \ {0}
  <2>1. s.at + 1 \in Nat \ {0}
    BY DEF NumberStates
  <2> QED
    BY <2>1, PastInside DEF Bounded
<1>2. wrong \in NumberStates /\ next \in NumberStates /\ again \in NumberStates
  BY <1>1 DEF NumberStates
<1>3. next.number = s.number
  BY DEF NumberStates
<1> DEFINE hash == [s EXCEPT !.hash = FALSE, !.at = @ + 1]
           radix == [again EXCEPT !.radix = TRUE, !.base = Bases[c]]
           exact == [again EXCEPT !.exactness = TRUE]
           sign == [next EXCEPT !.signed = TRUE, !.sign = IF c = "+" THEN 1 ELSE -1]
           digit == [next EXCEPT !.number = @ * s.base + DigitValue(c), !.digits = TRUE]
           done == [s EXCEPT !.v = Num(s.sign * s.number)]
<1>4. ReadDigit(s, t) =
        CASE s.hash -> hash
          [] ~s.hash /\ s.prefix /\ c \in DOMAIN Bases -> IF s.radix THEN wrong ELSE radix
          [] ~s.hash /\ s.prefix /\ c \in {"e", "i"} -> IF s.exactness THEN wrong ELSE exact
          [] ~s.hash /\ c \in {"+", "-"} -> IF s.signed THEN wrong ELSE sign
          [] ~s.hash /\ c \in DigitsOf(s.base) /\ ~(s.prefix /\ c \in DOMAIN Bases \cup {"e", "i"}) -> digit
          [] ~s.hash /\ s.digits /\ c \in Delimiters -> done
          [] OTHER -> wrong
  BY DEF ReadDigit
<1>5. hash \in NumberStates
  BY <1>1 DEF NumberStates
<1> HIDE DEF wrong, next, again
<1>6. c \in DOMAIN Bases => radix \in NumberStates
  <2>1. c \in DOMAIN Bases => Bases[c] \in {2, 8, 10, 16}
    BY DEF Bases
  <2> HIDE DEF c
  <2> QED
    BY <1>2, <2>1 DEF NumberStates
<1>7. exact \in NumberStates
  BY <1>2 DEF NumberStates
<1>8. sign \in NumberStates
  BY <1>2 DEF NumberStates
<1>9. c \in DigitsOf(s.base) => digit \in NumberStates
  <2> SUFFICES ASSUME c \in DigitsOf(s.base) PROVE digit \in NumberStates
    OBVIOUS
  <2> HIDE DEF c
  <2>1. DigitValue(c) \in Int
    BY DigitValued DEF NumberStates
  <2>2. s.number \in Int /\ s.base \in Int
    BY DEF NumberStates
  <2>3. next.number * s.base + DigitValue(c) \in Int
    BY <1>3, <2>1, <2>2
  <2> QED
    BY <1>2, <2>3 DEF NumberStates
<1>10. done \in NumberStates
  <2>1. s.sign * s.number \in Int
    BY DEF NumberStates
  <2> QED
    BY <2>1 DEF NumberStates
<1> HIDE DEF c, hash, radix, exact, sign, digit, done
<1>11. \/ ReadDigit(s, t) \in {hash, wrong, exact, sign, done}
       \/ c \in DOMAIN Bases /\ ReadDigit(s, t) = radix
       \/ c \in DigitsOf(s.base) /\ ReadDigit(s, t) = digit
  BY <1>4
<1> QED
  BY <1>2, <1>5, <1>6, <1>7, <1>8, <1>9, <1>10, <1>11

\* And so do as many as there are.
LEMMA NumberInside ==
  ASSUME NEW t, Bounded(t), NEW i \in Nat \ {0}, i <= Len(t) + 2
  PROVE  read_number(t, i).at \in 1..(Len(t) + 1)
<1> DEFINE S == NumberStates
           step(s) == IF s.v = unspecified THEN ReadDigit(s, t) ELSE s
           F == [ns \in Nat \X S |-> step(ns[2])]
           Rec(h) == h = [n \in Nat |-> IF n = 0 THEN StartNumber(i)
                                        ELSE LET s == h[n - 1] IN IF s.v = unspecified THEN ReadDigit(s, t) ELSE s]
           start == StartNumber(i)
<1>1. start \in S
  BY DEF StartNumber, NumberStates
<1>2. F \in [Nat \X S -> S]
  BY DigitRead
<1> HIDE DEF S, start, step
<1>3. PICK g : DefinedOnNat(S, start, F, g)
  <2> HIDE DEF F
  <2> QED
    BY <1>1, <1>2, NatRecursion
<1>4. g \in [Nat -> S] /\ g[0] = start
  BY <1>3 DEF DefinedOnNat
<1>5. ASSUME NEW n \in Nat, n # 0 PROVE g[n] = step(g[n - 1])
  <2>1. n - 1 \in Nat
    BY <1>5
  <2>2. g[n] = F[<<n, g[n - 1]>>] /\ g[n - 1] \in S
    <3> HIDE DEF F
    <3> QED
      BY <1>3, <1>5, <2>1 DEF DefinedOnNat
  <2>3. <<n, g[n - 1]>> \in Nat \X S
    BY <2>2
  <2> QED
    BY <2>2, <2>3
<1>6. g = [n \in Nat |-> IF n = 0 THEN start ELSE step(g[n - 1])]
  BY <1>4, <1>5
<1>7. Rec(g)
  BY <1>6 DEF step, start
<1>8. NumberRead(t, i) = CHOOSE h : Rec(h)
  BY DEF NumberRead
<1>9. Rec(NumberRead(t, i))
  <2> HIDE DEF Rec
  <2> QED
    BY <1>7, <1>8
<1> DEFINE f == NumberRead(t, i)
<1>10. f = [n \in Nat |-> IF n = 0 THEN start ELSE step(f[n - 1])]
  BY <1>9 DEF step, start
<1> HIDE DEF f, Rec
<1> DEFINE A == {n \in Nat : f[n] \in S}
<1>11. 0 \in A
  BY <1>1, <1>10
<1>12. ASSUME NEW n \in Nat, n \in A PROVE n + 1 \in A
  <2>1. n + 1 \in Nat /\ n + 1 # 0 /\ (n + 1) - 1 = n
    OBVIOUS
  <2>2. f[n + 1] = step(f[n])
    BY <1>10, <2>1
  <2>3. step(f[n]) \in S
    BY <1>12, DigitRead DEF step, S
  <2> QED
    BY <2>1, <2>2, <2>3
<1> HIDE DEF A
<1>13. Nat \subseteq A
  BY <1>11, <1>12, SetInduction
<1>14. Len(t) + 2 - i \in Nat
  BY DEF Bounded
<1>15. f[Len(t) + 2 - i] \in S
  BY <1>13, <1>14 DEF A
<1> DEFINE s == f[Len(t) + 2 - i]
<1>16. s.at \in Nat \ {0}
  BY <1>15 DEF S, NumberStates
<1>17. read_number(t, i) = Token(s.v, t, s.at)
  BY DEF read_number, f
<1> HIDE DEF s
<1> QED
  BY <1>16, <1>17, TokenInside

\* Every token ends in the text.
LEMMA ReadInside ==
  ASSUME NEW t, Bounded(t), NEW i \in 1..(Len(t) + 1)
  PROVE  read_token(t, i).at \in 1..(Len(t) + 1)
<1> DEFINE c == At(t, i)
           next == At(t, i + 1)
           number == c \in Decimals \/ (c \in {"+", "-"} /\ next \in Decimals)
<1>1. i \in Nat \ {0} /\ i + 1 \in Nat \ {0} /\ i + 2 \in Nat \ {0} /\ i + 3 \in Nat \ {0}
      /\ i <= Len(t) + 2 /\ i + 1 <= Len(t) + 2
  BY DEF Bounded
<1>2. HashToken(t, i).at \in 1..(Len(t) + 1)
  <2>1. HashToken(t, i) \in {read_number(t, i + 1), Token(the_truth, t, i + 2), Token(the_falsity, t, i + 2),
                             read_character(t, i + 2), Token(Err, t, i + 2)}
    BY DEF HashToken
  <2> QED
    BY <1>1, <2>1, NumberInside, CharacterInside, TokenInside
<1>3. DotToken(t, i).at \in 1..(Len(t) + 1)
  <2>1. DotToken(t, i) \in {Token(Err, t, i + 1), Delimited(Sym("..."), t, i + 3), Token(Err, t, i + 2)}
    BY DEF DotToken
  <2> QED
    BY <1>1, <2>1, TokenInside
<1>4. c = "\"" => i + 1 \in 1..(Len(t) + 1)
  <2>1. c = "\"" => i <= Len(t)
    BY DEF At, EOF
  <2>2. \A l, k \in Nat : k <= l => k + 1 \in 1..(l + 1)
    OBVIOUS
  <2>3. Len(t) \in Nat /\ i \in Nat
    BY DEF Bounded
  <2> QED
    BY ONLY <2>1, <2>2, <2>3
<1>5. read_token(t, i) =
        CASE c = "#" -> HashToken(t, i)
          [] number -> read_number(t, i)
          [] c = "\"" -> read_string(t, i + 1)
          [] c \in Initials -> read_identifier(t, i)
          [] ~number /\ c \in {"+", "-"} /\ next \in Delimiters -> Token(Sym(c), t, i + 1)
          [] c = "." -> DotToken(t, i)
          [] OTHER -> Token(Err, t, i + 1)
  BY DEF read_token
<1> HIDE DEF c, next, number
<1>6. \/ read_token(t, i) \in {HashToken(t, i), read_number(t, i), read_identifier(t, i), Token(Sym(c), t, i + 1),
                               DotToken(t, i), Token(Err, t, i + 1)}
      \/ c = "\"" /\ read_token(t, i) = read_string(t, i + 1)
  BY ONLY <1>5
<1> QED
  BY <1>1, <1>2, <1>3, <1>4, <1>6, NumberInside, IdentifierInside, StringInside, TokenInside

-----------------------------------------------------------------------------
(* Where the ports stand.                                                  *)

PortOK(p) == p \in [text : Texts, at : Nat] /\ p.at \in 1..(Len(p.text) + 1)

PortsOK(ps) == Sequential(ps) /\ Len(ps) # 0 /\ \A p \in 1..Len(ps) : PortOK(ps[p])

\* The loop at the bottom reads the console, every other loop one of the
\* other n ports.
LoopsStand(s, n) ==
  /\ s[Len(s)].port = Console
  /\ \A i \in 1..(Len(s) - 1) : s[i].f = "repl" => s[i].port \in 2..n

\* What the type invariant needs besides IInv.
PlacesOK == PortsOK(ports) /\ in \in 1..Len(ports) /\ LoopsStand(stack, Len(ports))

\* The ports are numbered from the console on.
LEMMA PortsNumbered ==
  ASSUME NEW ps, PortsOK(ps)
  PROVE  Len(ps) \in Nat \ {0} /\ DOMAIN ps = 1..Len(ps) /\ Console \in 1..Len(ps)
<1>1. Len(ps) \in Nat /\ DOMAIN ps = 1..Len(ps)
  BY DEF PortsOK, Sequential
<1>2. \A n \in Nat : n # 0 => n \in Nat \ {0} /\ 1 \in 1..n
  OBVIOUS
<1> QED
  BY <1>1, <1>2 DEF PortsOK, Console

\* A text that is read has an end.
LEMMA TextBounded ==
  ASSUME NEW t \in Texts
  PROVE  Bounded(t)
<1>1. t \in Seq(Range(t))
  BY CharactersAssumption
<1>2. \A S : \A u \in Seq(S) : Len(u) \in Nat
  OBVIOUS
<1> QED
  BY ONLY <1>1, <1>2 DEF Bounded

\* A port is moved within its text.
LEMMA PortMoved ==
  ASSUME NEW ps, PortsOK(ps), NEW k \in 1..Len(ps), NEW a \in 1..(Len(ps[k].text) + 1)
  PROVE  /\ PortsOK([ps EXCEPT ![k].at = a])
         /\ Len([ps EXCEPT ![k].at = a]) = Len(ps)
<1> DEFINE q == [ps[k] EXCEPT !.at = a]
           r == [ps EXCEPT ![k] = q]
<1>1. [ps EXCEPT ![k].at = a] = r
  OBVIOUS
<1>2. PortOK(ps[k])
  BY DEF PortsOK
<1>3. PortOK(q)
  <2>1. ps[k] \in [text : Texts, at : Nat]
    BY <1>2 DEF PortOK
  <2>2. Len(ps[k].text) \in Nat
    <3>1. ps[k].text \in Texts
      BY <2>1
    <3> QED
      BY <3>1, TextBounded DEF Bounded
  <2>3. a \in Nat
    BY <2>2
  <2>4. q \in [text : Texts, at : Nat] /\ q.at = a /\ q.text = ps[k].text
    BY ONLY <2>1, <2>3
  <2> QED
    BY <2>4 DEF PortOK
<1> HIDE DEF q
<1>4. Sequential(r) /\ Len(r) = Len(ps) /\ \A p \in 1..Len(ps) : r[p] = IF p = k THEN q ELSE ps[p]
  <2>1. PICK S : ps \in Seq(S)
    BY DEF PortsOK, Sequential
  <2>2. ps \in Seq(S \cup {q}) /\ q \in S \cup {q} /\ k \in 1..Len(ps)
    BY <2>1
  <2> DEFINE T == S \cup {q}
  <2> HIDE DEF T
  <2>3. r \in Seq(T) /\ Len(r) = Len(ps)
    BY ONLY <2>2 DEF T
  <2>4. DOMAIN ps = 1..Len(ps)
    BY <2>1
  <2>5. \A p \in 1..Len(ps) : r[p] = IF p = k THEN q ELSE ps[p]
    BY ONLY <2>4
  <2> QED
    BY ONLY <2>3, <2>5 DEF Sequential
<1> HIDE DEF r
<1>5. \A p \in 1..Len(r) : PortOK(r[p])
  BY <1>3, <1>4 DEF PortsOK
<1> QED
  BY <1>1, <1>4, <1>5 DEF PortsOK

\* A file is opened.
LEMMA PortOpened ==
  ASSUME NEW ps, PortsOK(ps), NEW t \in Texts
  PROVE  PortsOK(Append(ps, Port(t))) /\ Len(Append(ps, Port(t))) = Len(ps) + 1
<1> DEFINE q == Port(t)
           r == Append(ps, q)
<1>1. PortOK(q)
  <2>1. Len(t) \in Nat
    BY TextBounded DEF Bounded
  <2>2. q \in [text : Texts, at : Nat] /\ q.at = 1 /\ q.text = t
    BY DEF Port
  <2>3. 1 \in 1..(Len(t) + 1)
    BY <2>1
  <2> QED
    BY <2>2, <2>3 DEF PortOK
<1> HIDE DEF q
<1>2. PICK S : ps \in Seq(S)
  BY DEF PortsOK, Sequential
<1> DEFINE T == S \cup {q}
<1>3. ps \in Seq(T) /\ q \in T
  BY <1>2
<1> HIDE DEF T
<1>4. /\ r \in Seq(T) /\ Len(r) = Len(ps) + 1 /\ Len(ps) \in Nat
      /\ \A p \in 1..Len(ps) : r[p] = ps[p]
      /\ r[Len(ps) + 1] = q
  BY ONLY <1>3
<1> HIDE DEF r
<1>5. ASSUME NEW p \in 1..Len(r) PROVE PortOK(r[p])
  <2>1. p \in 1..Len(ps) \/ p = Len(ps) + 1
    BY ONLY <1>4, <1>5
  <2> QED
    BY <1>1, <1>4, <2>1 DEF PortsOK
<1>6. Len(r) # 0
  BY ONLY <1>4
<1> QED
  BY <1>4, <1>5, <1>6 DEF PortsOK, Sequential, r, q

-----------------------------------------------------------------------------
(* Where the loops read.                                                   *)

\* A call is made.
LEMMA LoopsCalled ==
  ASSUME NEW s, CallsOK(s), NEW n \in Nat, LoopsStand(s, n),
         NEW f, FrameOK(f, Head(s)), f.f = "repl" => f.port \in 2..n
  PROVE  LoopsStand(<<f>> \o s, n)
<1> DEFINE t == <<f>> \o s
<1>1. Sequential(s) /\ s # << >> /\ Len(s) \in Nat \ {0}
  BY Innermost
<1>2. /\ Len(t) = Len(s) + 1 /\ t[1] = f
      /\ \A i \in 1..Len(s) : t[i + 1] = s[i]
  BY <1>1, Pushed
<1> HIDE DEF t
<1>3. t[Len(t)] = s[Len(s)]
  <2>1. Len(s) \in 1..Len(s)
    BY <1>1
  <2> QED
    BY <1>2, <2>1
<1>4. ASSUME NEW i \in 1..(Len(t) - 1), t[i].f = "repl" PROVE t[i].port \in 2..n
  <2>1. CASE i = 1
    BY <1>2, <1>4, <2>1
  <2>2. CASE i # 1
    <3>1. i - 1 \in 1..(Len(s) - 1) /\ i - 1 \in 1..Len(s) /\ (i - 1) + 1 = i
      BY <1>1, <1>2, <1>4, <2>2
    <3>2. t[i] = s[i - 1]
      BY <1>2, <3>1
    <3> QED
      BY <1>4, <3>1, <3>2 DEF LoopsStand
  <2> QED
    BY <2>1, <2>2
<1> QED
  BY <1>3, <1>4 DEF LoopsStand, t

\* A call returns.
LEMMA LoopsReturned ==
  ASSUME NEW s, CallsOK(s), Len(s) # 1, NEW n \in Nat, LoopsStand(s, n)
  PROVE  LoopsStand(Tail(s), n)
<1> DEFINE t == Tail(s)
<1>1. Sequential(s) /\ s # << >> /\ Len(s) \in Nat \ {0}
  BY Innermost
<1>2. Len(t) = Len(s) - 1 /\ \A i \in 1..(Len(s) - 1) : t[i] = s[i + 1]
  BY <1>1, Popped
<1> HIDE DEF t
<1>3. t[Len(t)] = s[Len(s)]
  <2>1. Len(t) \in 1..(Len(s) - 1) /\ Len(t) + 1 = Len(s)
    BY <1>1, <1>2
  <2> QED
    BY <1>2, <2>1
<1>4. ASSUME NEW i \in 1..(Len(t) - 1), t[i].f = "repl" PROVE t[i].port \in 2..n
  <2>1. i + 1 \in 1..(Len(s) - 1) /\ i \in 1..(Len(s) - 1)
    BY <1>1, <1>2
  <2>2. t[i] = s[i + 1]
    BY <1>2, <2>1
  <2> QED
    BY <1>4, <2>1, <2>2 DEF LoopsStand
<1> QED
  BY <1>3, <1>4 DEF LoopsStand, t

\* More ports are there.
LEMMA LoopsKept ==
  ASSUME NEW s, NEW n \in Nat, NEW m \in Nat, n <= m, LoopsStand(s, n)
  PROVE  LoopsStand(s, m)
<1>1. \A x \in 2..n : x \in 2..m
  OBVIOUS
<1> QED
  BY <1>1 DEF LoopsStand

\* The innermost loop.
LEMMA LoopInside ==
  ASSUME NEW s, CallsOK(s), Head(s).f = "repl", NEW n \in Nat \ {0}, LoopsStand(s, n)
  PROVE  Head(s).port \in 1..n
<1>1. Len(s) \in Nat \ {0} /\ Head(s) = s[1]
  BY Innermost
<1>2. CASE Len(s) = 1
  <2>1. Head(s).port = Console
    BY <1>1, <1>2 DEF LoopsStand
  <2> QED
    BY <2>1 DEF Console
<1>3. CASE Len(s) # 1
  <2>1. 1 \in 1..(Len(s) - 1)
    BY <1>1, <1>3, OneBelow
  <2>2. Head(s).port \in 2..n
    BY <1>1, <2>1 DEF LoopsStand
  <2> QED
    BY <2>2
<1> QED
  BY <1>2, <1>3

\* The loop keeps its port when it takes a value.
LEMMA LoopsUpdated ==
  ASSUME NEW s, CallsOK(s), Head(s).f = "repl", NEW n \in Nat, LoopsStand(s, n),
         NEW v, NEW f, f = [Head(s) EXCEPT !.val = v]
  PROVE  LoopsStand(<<f>> \o Tail(s), n)
<1>1. f = ReplFrame(Head(s).port, Head(s).prints, v)
  BY InnermostLoop DEF LoopOK, ReplFrame
<1>2. f.f = "repl" /\ f.port = Head(s).port /\ f.prints = Head(s).prints /\ LoopOK(f)
  BY <1>1 DEF LoopOK, ReplFrame
<1>3. Len(s) \in Nat \ {0} /\ Head(s) = s[1] /\ Sequential(s) /\ s # << >>
  BY Innermost
<1>4. CASE Len(s) # 1
  <2>1. CallsOK(Tail(s)) /\ FrameOK(Head(s), Head(Tail(s)))
    BY <1>4, CallReturned
  <2>2. FrameOK(f, Head(Tail(s)))
    <3>1. "repl" \notin ReaderFrames
      BY DEF ReaderFrames
    <3> QED
      BY <1>2, <2>1, <3>1 DEF FrameOK
  <2>3. 1 \in 1..(Len(s) - 1)
    BY <1>3, <1>4, OneBelow
  <2>4. f.port \in 2..n
    BY <1>2, <1>3, <2>3 DEF LoopsStand
  <2>5. LoopsStand(Tail(s), n)
    BY <1>4, LoopsReturned
  <2> QED
    BY ONLY <2>1, <2>2, <2>4, <2>5, n \in Nat, LoopsCalled
<1>5. CASE Len(s) = 1
  <2> DEFINE t == <<f>> \o Tail(s)
  <2>1. Sequential(Tail(s)) /\ Len(Tail(s)) = 0
    <3>1. Sequential(Tail(s)) /\ Len(Tail(s)) = Len(s) - 1
      BY Popped DEF CallsOK
    <3> QED
      BY <1>5, <3>1
  <2>2. Len(t) = 1 /\ t[1] = f
    BY <2>1, Pushed
  <2> HIDE DEF t
  <2>3. f.port = Console
    BY <1>2, <1>3, <1>5 DEF LoopsStand
  <2>4. LoopsStand(t, n)
    <3>1. 1..(Len(t) - 1) = {}
      BY <2>2
    <3>2. t[Len(t)].port = Console
      BY <2>2, <2>3
    <3> QED
      BY <3>1, <3>2 DEF LoopsStand
  <2> QED
    BY <2>4 DEF t
<1> QED
  BY <1>4, <1>5

\* The loop at the console alone.
LEMMA LoopAlone ==
  ASSUME NEW n
  PROVE  LoopsStand(Prompt, n)
<1> DEFINE f == ReplFrame(Console, TRUE, Nil)
<1>1. Prompt = <<f>> /\ f.port = Console
  BY DEF Prompt, ReplFrame
<1> HIDE DEF f
<1>2. Len(Prompt) = 1 /\ Prompt[1] = f
  BY <1>1
<1>3. 1..(1 - 1) = {}
  OBVIOUS
<1> QED
  BY <1>1, <1>2, <1>3 DEF LoopsStand

-----------------------------------------------------------------------------
(* The steps. *)

\* What the reader meets where it stands.
LEMMA Standing ==
  ASSUME PortsOK(ports), in \in 1..Len(ports)
  PROVE  /\ Input \in Texts /\ Bounded(Input) /\ Here \in 1..(Len(Input) + 1)
         /\ Here \in Nat \ {0} /\ Tokens[Input][Here].at \in Nat \ {0}
<1>1. PortOK(ports[in])
  BY DEF PortsOK
<1>2. Input \in Texts /\ ports[in].at \in 1..(Len(Input) + 1)
  BY <1>1 DEF PortOK, Input
<1>3. Bounded(Input) /\ Len(Input) \in Nat
  BY <1>2, TextBounded DEF Bounded
<1> DEFINE t == Input
           i == ports[in].at
<1>4. t \in Texts /\ i \in 1..(Len(t) + 1) /\ Bounded(t)
  BY <1>2, <1>3
<1>5. Here = AfterSpace[t][i]
  BY DEF Here
<1>6. ASSUME NEW j \in 1..(Len(t) + 1)
      PROVE  AfterSpace[t][j] = skip_atmospheric(t, j) /\ Tokens[t][j] = read_token(t, j)
  BY <1>4, <1>6 DEF AfterSpace, Tokens, Positions
<1> HIDE DEF t, i
<1>7. Here \in 1..(Len(t) + 1)
  <2>1. skip_atmospheric(t, i) \in 1..(Len(t) + 1)
    BY ONLY <1>4, SpaceInside
  <2> QED
    BY <1>4, <1>5, <1>6, <2>1
<1>8. Tokens[t][Here].at \in 1..(Len(t) + 1)
  <2>1. PICK h \in 1..(Len(t) + 1) : h = Here
    BY <1>7
  <2>2. read_token(t, h).at \in 1..(Len(t) + 1)
    BY ONLY <1>4, ReadInside, h \in 1..(Len(t) + 1)
  <2> QED
    BY <1>6, <2>1, <2>2
<1>9. \A n \in Nat : \A x \in 1..(n + 1) : x \in Nat \ {0}
  OBVIOUS
<1> QED
  BY <1>2, <1>3, <1>7, <1>8, <1>9 DEF t

\* The port that is read moves on.
LEMMA Moved ==
  ASSUME PortsOK(ports), in \in 1..Len(ports), NEW i \in Nat \ {0}, MoveTo(i)
  PROVE  PortsOK(ports') /\ Len(ports') = Len(ports) /\ in' = in
<1>1. Past(Input, i) \in 1..(Len(Input) + 1)
  BY Standing, PastInside
<1> DEFINE a == Past(Input, i)
<1>2. ports' = [ports EXCEPT ![in].at = a] /\ in' = in /\ a \in 1..(Len(ports[in].text) + 1)
  BY <1>1 DEF MoveTo, Input
<1> HIDE DEF a
<1> QED
  BY <1>2, PortMoved

\* The reader moves its port on or leaves it.
LEMMA ReaderMoves ==
  ASSUME PortsOK(ports), in \in 1..Len(ports), ReaderStep
  PROVE  PortsOK(ports') /\ Len(ports') = Len(ports) /\ in' = in
<1>1. \A n \in 0..2 : Here + n \in Nat \ {0}
  <2>1. \A h \in Nat \ {0} : \A n \in 0..2 : h + n \in Nat \ {0}
    OBVIOUS
  <2> QED
    BY <2>1, Standing
<1>2. ASSUME NEW n \in 0..2, Consume(n)
      PROVE  PortsOK(ports') /\ Len(ports') = Len(ports) /\ in' = in
  BY <1>1, <1>2, Moved DEF Consume
<1>3. ASSUME MoveTo(Tokens[Input][Here].at)
      PROVE  PortsOK(ports') /\ Len(ports') = Len(ports) /\ in' = in
  <2>1. PICK i \in Nat \ {0} : i = Tokens[Input][Here].at
    BY Standing
  <2> QED
    BY <1>3, <2>1, Moved
<1>4. \/ UNCHANGED <<ports, in>> \/ Consume(0) \/ Consume(1) \/ Consume(2)
      \/ MoveTo(Tokens[Input][Here].at)
  <2>1. CASE ReadEnd \/ ReadList \/ ReadVector \/ ReadCommentedForm
    BY <2>1 DEF ReadEnd, ReadList, ReadVector, ReadCommentedForm
  <2>2. CASE ReadQuotation
    BY <2>2 DEF ReadQuotation
  <2>3. CASE ReadToken
    BY <2>3 DEF ReadToken
  <2>4. CASE EndList \/ ReadElement \/ AfterElement
    BY <2>4 DEF EndList, ReadElement, AfterElement
  <2>5. CASE EndRest \/ EndDotted \/ EndQuotation \/ EndVector \/ Discard \/ StackOverflow
    BY <2>5 DEF EndRest, EndDotted, EndQuotation, EndVector, Discard, StackOverflow
  <2> QED
    BY <2>1, <2>2, <2>3, <2>4, <2>5 DEF ReaderStep
<1>5. CASE UNCHANGED <<ports, in>>
  BY <1>5
<1> QED
  BY <1>2, <1>3, <1>4, <1>5

\* The reader leaves the loops where they read.
LEMMA ReaderKeepsLoops ==
  ASSUME CallsOK(stack), NEW n \in Nat, LoopsStand(stack, n), ReaderStep
  PROVE  LoopsStand(stack', n)
<1>1. "repl" \notin ReaderFrames
  BY DEF ReaderFrames
<1>2. ASSUME NEW f, f.f \in ReaderFrames, stack' = <<f>> \o stack
      PROVE  LoopsStand(stack', n)
  BY <1>1, <1>2, LoopsCalled DEF FrameOK
<1>3. ASSUME stack' = Below, Top.f \in ReaderFrames
      PROVE  LoopsStand(stack', n)
  BY <1>3, InnermostReader, LoopsReturned DEF Top, Below
<1>4. ASSUME NEW f, f.f \in ReaderFrames, stack' = <<f>> \o Below, Top.f \in ReaderFrames
      PROVE  LoopsStand(stack', n)
  <2>1. CallsOK(Below) /\ LoopsStand(Below, n)
    BY <1>4, InnermostReader, LoopsReturned DEF Top, Below
  <2>2. FrameOK(f, Head(Below)) /\ f.f # "repl"
    BY <1>1, <1>4 DEF FrameOK
  <2> HIDE DEF Below
  <2> QED
    BY ONLY <1>4, <2>1, <2>2, n \in Nat, LoopsCalled
<1>5. CASE ReadEnd \/ ReadList \/ ReadToken \/ EndList \/ StackOverflow
  <2>1. UNCHANGED stack
    BY <1>5 DEF ReadEnd, ReadList, ReadToken, EndList, StackOverflow, error
  <2> QED
    BY <2>1
<1>6. CASE ReadVector
  BY <1>2, <1>6 DEF ReadVector, Push, ReaderFrames
<1>7. CASE ReadCommentedForm
  BY <1>2, <1>7 DEF ReadCommentedForm, Push, ReaderFrames
<1>8. CASE ReadQuotation
  <2>1. PICK name : stack' = <<[f |-> "quote", name |-> name]>> \o stack
    BY <1>8 DEF ReadQuotation, Push
  <2> QED
    BY <1>2, <2>1 DEF ReaderFrames
<1>9. CASE ReadElement
  BY <1>2, <1>9 DEF ReadElement, Push, ReaderFrames
<1>10. CASE AfterElement
  <2>1. Top.f \in ReaderFrames
    BY <1>10 DEF AfterElement, Returned, ReaderFrames
  <2>2. CASE UNCHANGED stack
    BY <2>2
  <2>3. CASE stack' = <<[f |-> "dotted", car |-> ctl.v]>> \o Below
    BY <1>4, <2>1, <2>3 DEF ReaderFrames
  <2>4. CASE stack' = <<[f |-> "cdr", car |-> ctl.v]>> \o Below
    BY <1>4, <2>1, <2>4 DEF ReaderFrames
  <2> QED
    BY <1>10, <2>2, <2>3, <2>4 DEF AfterElement, error
<1>11. CASE EndRest \/ EndDotted \/ EndQuotation \/ EndVector \/ Discard
  <2>1. Top.f \in ReaderFrames
    BY <1>11 DEF EndRest, EndDotted, EndQuotation, EndVector, Discard, Returned, ReaderFrames
  <2>2. stack' = Below \/ UNCHANGED stack
    BY <1>11 DEF EndRest, EndDotted, EndQuotation, EndVector, Discard, error
  <2> QED
    BY <1>3, <2>1, <2>2
<1> QED
  BY <1>5, <1>6, <1>7, <1>8, <1>9, <1>10, <1>11 DEF ReaderStep

\* Every step leaves the ports and the loops in their places.
LEMMA PlacesKept ==
  ASSUME IInv, PlacesOK, [Next]_vars
  PROVE  PlacesOK'
<1> DEFINE n == Len(ports)
<1>1. /\ PortsOK(ports) /\ in \in 1..n /\ LoopsStand(stack, n) /\ CallsOK(stack)
      /\ n \in Nat \ {0} /\ n \in Nat /\ Console \in 1..n
  BY PortsNumbered DEF PlacesOK, IInv
<1> HIDE DEF n
<1>2. ASSUME PortsOK(ports'), Len(ports') = n, in' \in 1..n, LoopsStand(stack', n)
      PROVE  PlacesOK'
  BY <1>2 DEF PlacesOK, PortsOK, PortOK, LoopsStand, Sequential, Console
<1>3. CASE StartRead
  <2>1. ctl.m = "prompt" /\ in' = Head(stack).port /\ UNCHANGED <<ports, stack>>
    BY <1>3 DEF StartRead, Top
  <2>2. Head(stack).f = "repl"
    BY <2>1 DEF IInv, ControlOK, Top
  <2>3. in' \in 1..n
    BY <1>1, <2>1, <2>2, LoopInside
  <2> QED
    BY <1>1, <1>2, <2>1, <2>3 DEF n
<1>4. CASE ReadStep
  <2>1. ReaderStep
    BY <1>4 DEF ReadStep
  <2>2. PortsOK(ports') /\ Len(ports') = n /\ in' = in
    BY <1>1, <2>1, ReaderMoves DEF n
  <2>3. LoopsStand(stack', n)
    BY ONLY <1>1, <2>1, ReaderKeepsLoops
  <2> QED
    BY <1>1, <1>2, <2>2, <2>3
<1>5. CASE UNCHANGED <<ports, in>> /\ LoopsStand(stack', n)
  BY <1>1, <1>2, <1>5 DEF n
<1>6. CASE GotCommand \/ EvalConstant \/ EvalOther \/ UNCHANGED vars
  <2>1. UNCHANGED <<ports, in, stack>>
    BY <1>6 DEF GotCommand, EvalConstant, EvalOther, error, vars
  <2> QED
    BY <1>1, <1>5, <2>1
<1>7. CASE EndOfInput
  <2>1. UNCHANGED <<ports, in>> /\ Returned("repl")
    BY <1>7 DEF EndOfInput
  <2>2. Below = << >> <=> Len(stack) = 1
    BY <1>1, Popped DEF CallsOK, Below
  <2>3. CASE Len(stack) = 1
    BY <1>1, <1>5, <1>7, <2>1, <2>2, <2>3 DEF EndOfInput
  <2>4. CASE Len(stack) # 1
    <3>1. stack' = Tail(stack)
      BY <1>7, <2>2, <2>4 DEF EndOfInput, Below
    <3>2. LoopsStand(Tail(stack), n)
      BY ONLY <1>1, <2>4, LoopsReturned
    <3> QED
      BY <1>5, <2>1, <3>1, <3>2
  <2> QED
    BY <2>3, <2>4
<1>8. CASE GotResult
  <2> DEFINE f == [Head(stack) EXCEPT !.val = ctl.v]
  <2>1. /\ ctl.m = "result" /\ stack' = <<f>> \o Tail(stack) /\ UNCHANGED <<ports, in>>
    BY <1>8 DEF GotResult, Top, Below
  <2>2. Head(stack).f = "repl"
    BY <2>1 DEF IInv, ControlOK, Top
  <2>3. LoopsStand(stack', n)
    BY <1>1, <2>1, <2>2, LoopsUpdated
  <2> QED
    BY <1>5, <2>1, <2>3
<1>9. CASE Recover
  <2>1. stack' = Prompt /\ UNCHANGED <<ports, in>>
    BY <1>9 DEF Recover
  <2> QED
    BY <1>5, <2>1, LoopAlone
<1>10. CASE EvalLoad
  <2> DEFINE t == Files[ctl.x.s[2].n]
             f == ReplFrame(n + 1, FALSE, Nil)
  <2>1. /\ ctl.m = "eval" /\ ports' = Append(ports, Port(t)) /\ stack' = <<f>> \o stack
        /\ UNCHANGED in
    BY <1>10 DEF EvalLoad, Evaluating, Push, n
  <2>2. t \in Texts
    <3>1. ctl.x.s[2].n \in DOMAIN Files
      BY <1>10 DEF EvalLoad, Evaluating, IsLoad
    <3>2. t \in Range(Files)
      BY <3>1 DEF Range
    <3> QED
      BY <3>2, TextsAssumption
  <2> HIDE DEF t
  <2>3. PortsOK(ports') /\ Len(ports') = n + 1
    BY <1>1, <2>1, <2>2, PortOpened DEF n
  <2>4. n + 1 \in 2..(n + 1) /\ n + 1 \in Nat /\ n <= n + 1 /\ in \in 1..(n + 1)
    BY <1>1
  <2>5. f.f = "repl" /\ LoopOK(f) /\ f.prints = FALSE /\ f.port = n + 1
    BY DEF ReplFrame, LoopOK
  <2> HIDE DEF f
  <2>6. FrameOK(f, Head(stack))
    BY <2>1, <2>5, Evaluates DEF FrameOK
  <2>7. LoopsStand(stack, n + 1)
    BY ONLY <1>1, <2>4, LoopsKept
  <2> DEFINE m == n + 1
  <2>8. m \in Nat /\ LoopsStand(stack, m) /\ f.port \in 2..m
    BY <2>4, <2>5, <2>7
  <2> HIDE DEF m
  <2>9. LoopsStand(stack', m)
    BY ONLY <1>1, <2>1, <2>6, <2>8, LoopsCalled
  <2> QED
    BY <2>1, <2>3, <2>4, <2>9 DEF m, PlacesOK, PortsOK, PortOK, LoopsStand, Sequential, Console
<1>11. CASE EvalRead
  <2> DEFINE f == [f |-> "primitive"]
  <2>1. ctl.m = "eval" /\ in' = Console /\ stack' = <<f>> \o stack /\ UNCHANGED ports
    BY <1>11 DEF EvalRead, Evaluating, Push
  <2>2. f.f = "primitive"
    OBVIOUS
  <2> HIDE DEF f
  <2>3. FrameOK(f, Head(stack)) /\ f.f # "repl"
    BY <2>1, <2>2, Evaluates DEF FrameOK
  <2>4. LoopsStand(stack', n)
    BY ONLY <1>1, <2>1, <2>3, LoopsCalled
  <2> QED
    BY <1>1, <1>2, <2>1, <2>4 DEF n
<1>12. CASE GotDatum
  <2>1. /\ Head(stack).f = "primitive" /\ stack' = Tail(stack) /\ UNCHANGED <<ports, in>>
    BY <1>12 DEF GotDatum, Returned, Top, Below
  <2>2. Len(stack) # 1
    BY <1>1, <2>1, InnermostPrimitive
  <2>3. LoopsStand(stack', n)
    BY <1>1, <2>1, <2>2, LoopsReturned
  <2> QED
    BY <1>5, <2>1, <2>3
<1>13. CASE EvalReadChar
  <2> DEFINE t == ports[Console].text
             at == ports[Console].at
             a == IF ctl.x.s[1] = Sym("read-char") THEN Past(t, at + 1) ELSE at
  <2>1. ports' = [ports EXCEPT ![Console].at = a] /\ UNCHANGED <<in, stack>>
    BY <1>13 DEF EvalReadChar
  <2>2. PortOK(ports[Console])
    BY <1>1 DEF PortsOK, n
  <2>3. Bounded(t) /\ at \in 1..(Len(t) + 1) /\ at \in Nat
    BY <2>2, TextBounded DEF PortOK
  <2>4. at + 1 \in Nat \ {0}
    BY <2>3
  <2>5. Past(t, at + 1) \in 1..(Len(t) + 1)
    BY ONLY <2>3, <2>4, PastInside
  <2>6. a \in 1..(Len(ports[Console].text) + 1)
    BY <2>3, <2>5
  <2> HIDE DEF a
  <2>7. PortsOK(ports') /\ Len(ports') = n
    BY <1>1, <2>1, <2>6, PortMoved DEF n
  <2> QED
    BY <1>1, <1>2, <2>1, <2>7
<1> QED
  BY <1>3, <1>4, <1>6, <1>7, <1>8, <1>9, <1>10, <1>11, <1>12, <1>13
  DEF Next, Loop, Evaluation, Ended

\* The console stands at what was typed.
LEMMA PlacesInitially ==
  ASSUME Init
  PROVE  PlacesOK
<1>1. script.text \in Texts
  BY TextsAssumption DEF Init
<1> DEFINE q == Port(script.text)
<1>2. ports = <<q>> /\ in = 1 /\ stack = Prompt
  BY DEF Init, Console
<1>3. PortOK(q)
  <2>1. Len(script.text) \in Nat
    BY <1>1, TextBounded DEF Bounded
  <2>2. q \in [text : Texts, at : Nat] /\ q.at = 1 /\ q.text = script.text
    BY <1>1 DEF Port
  <2>3. 1 \in 1..(Len(script.text) + 1)
    BY <2>1
  <2> QED
    BY <2>2, <2>3 DEF PortOK
<1> HIDE DEF q
<1>4. ports \in Seq({q}) /\ Len(ports) = 1 /\ ports[1] = q
  BY <1>2
<1>5. \A p \in 1..1 : p = 1
  OBVIOUS
<1>6. in \in 1..Len(ports) /\ Sequential(ports) /\ Len(ports) # 0
  <2>1. 1 \in 1..1 /\ 1 # 0
    OBVIOUS
  <2> QED
    BY ONLY <1>2, <1>4, <2>1 DEF Sequential
<1>7. \A p \in 1..Len(ports) : PortOK(ports[p])
  BY ONLY <1>3, <1>4, <1>5
<1> QED
  BY <1>2, <1>6, <1>7, LoopAlone DEF PlacesOK, PortsOK

\* Type correctness: wherever the reader stops, at the end of a datum, in an
\* error, at the end of the file or behind a character that read-char takes,
\* its port stands at a character of the text or at its end; the loop at the
\* console is never left, and a loop over a file reads a port of its own and
\* prints nothing.
THEOREM TypeCorrect == Spec => []TypeOK
<1>1. ASSUME IInv, PlacesOK PROVE TypeOK
  <2>1. /\ DOMAIN ports = 1..Len(ports) /\ Len(ports) \in Nat \ {0}
        /\ \A p \in 1..Len(ports) : PortOK(ports[p])
        /\ in \in 1..Len(ports) /\ LoopsStand(stack, Len(ports))
    BY <1>1, PortsNumbered DEF PlacesOK, PortsOK
  <2>2. \A p \in DOMAIN ports : ports[p].at \in 1..(Len(ports[p].text) + 1)
    BY <2>1 DEF PortOK
  <2>3. ctl.m \in {"prompt", "read", "pair", "value", "error", "eval", "result", "done", "overflow"}
    BY <1>1 DEF IInv, ControlOK, Reading
  <2>4. stack # << >> /\ Last(stack) = ReplFrame(Console, TRUE, Last(stack).val)
    <3>1. /\ stack # << >> /\ Last(stack) = stack[Len(stack)]
          /\ LoopOK(Last(stack)) /\ Last(stack).prints = TRUE /\ Last(stack).port = Console
      BY <1>1, <2>1 DEF IInv, CallsOK, LoopsStand, Last
    <3> QED
      BY ONLY <3>1 DEF LoopOK
  <2>5. ASSUME NEW i \in 1..(Len(stack) - 1)
        PROVE  \/ stack[i].f \in ReaderFrames \cup {"primitive"}
               \/ /\ stack[i].f = "repl" /\ stack[i].port \in DOMAIN ports \ {Console}
                  /\ ~stack[i].prints
    <3>1. FrameOK(stack[i], stack[i + 1])
      BY <1>1 DEF IInv, CallsOK
    <3>2. stack[i].f = "repl" => stack[i].port \in 2..Len(ports)
      BY <2>1 DEF LoopsStand
    <3>3. \A m \in Nat : \A x \in 2..m : x \in 1..m /\ x # 1
      OBVIOUS
    <3>4. stack[i].f = "repl" => stack[i].port \in DOMAIN ports \ {Console}
      BY <2>1, <3>2, <3>3 DEF Console
    <3> QED
      BY <3>1, <3>4 DEF FrameOK
  <2> QED
    BY <2>1, <2>2, <2>3, <2>4, <2>5 DEF TypeOK
<1>2. Init => IInv /\ PlacesOK
  BY Initially, PlacesInitially
<1>3. IInv /\ PlacesOK /\ [Next]_vars => (IInv /\ PlacesOK)'
  BY Invariance, PlacesKept
<1> QED
  BY <1>1, <1>2, <1>3, PTL DEF Spec
=============================================================================
