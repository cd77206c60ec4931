--------------------------- MODULE ClassInitProofs ---------------------------
(***************************************************************************)
(* Proofs about ClassInit, for any classes, supertypes, static             *)
(* initialisers and threads.                                               *)
(***************************************************************************)
EXTENDS ClassProgress, SequenceTheorems, TLAPS

\* Most steps are first-order reasoning over the invariants; those that need the SMT solver
\* say so.
USE Zenon

------------------------------------------------------------------------------
(* The inductive invariant *)

Label == {"start", "locked", "waited", "super", "interfaces", "clinit", "perform", "mark"}
Fn == {"verify", "init", "iface"}
FrameSet == [fn : Fn, c : Class, pc : Label, i : Nat \ {0}]

\* The frames of t counted from the outermost one, so that a call or a return leaves the
\* places of the others as they are.
Outer(s, p) == s[Len(s) + 1 - p]
Depth(t) == Len(stack[t])
Fr(t, p) == Outer(stack[t], p)
Top(t) == stack[t][1]

\* The frame verifies its class, or initialises it; one that does neither and does not wait
\* depends on nothing.
Verifies(f) == f.fn = "verify" /\ f.pc \in {"super", "interfaces", "perform"}
Inits(f) == f.fn = "init" /\ f.pc \in {"super", "interfaces", "clinit"}
Works(f) == Verifies(f) \/ Inits(f)
Waits(f) == f.fn = "init" /\ f.pc = "waited"
ToSuper(f) == f.fn = "init" /\ f.pc = "super"
PastSuper(f) == f.fn = "init" /\ f.pc \in {"interfaces", "clinit"}

Late == {"Initializing", "Initialized", "ErrorResolved"}

Types ==
    /\ stack = [t \in Thread |-> stack[t]] /\ \A t \in Thread : stack[t] \in Seq(FrameSet)
    /\ answer = [t \in Thread |-> answer[t]]
    /\ status = [c \in Class |-> status[c]]
    /\ clinit_thread = [c \in Class |-> clinit_thread[c]]
    /\ runs = [c \in Class |-> runs[c]]
    /\ program \in [Class -> Seq(Class)]

\* Class d is initialised, or a frame of t further out than p initialises it.
UsableBelow(t, p, d) ==
    \/ status[d] = "Initialized"
    \/ \E q \in 1..p - 1 : Inits(Fr(t, q)) /\ Fr(t, q).c = d

\* The class of a frame is in the state in which the frame left it, and the superclass of
\* one past its superclass stays usable until the frame returns.
FrameOK(t, p) ==
    /\ Verifies(Fr(t, p)) => status[Fr(t, p).c] = "Verifying"
    /\ Inits(Fr(t, p)) => /\ status[Fr(t, p).c] = "Initializing"
                          /\ clinit_thread[Fr(t, p).c] = t
                          /\ runs[Fr(t, p).c] = IF Fr(t, p).pc = "clinit" THEN 1 ELSE 0
    /\ Waits(Fr(t, p)) => status[Fr(t, p).c] \in Late
    /\ PastSuper(Fr(t, p)) /\ Fr(t, p).c \notin IsInterface /\ Super[Fr(t, p).c] # None
          => UsableBelow(t, p, Super[Fr(t, p).c])

\* A frame that initialises its superclass has called InitializeClass for it, or has its
\* answer.
LinkOK(t) ==
    /\ \A p \in 1..Depth(t) - 1 : ToSuper(Fr(t, p)) =>
          /\ Super[Fr(t, p).c] # None
          /\ Fr(t, p + 1).fn = "init" /\ Fr(t, p + 1).c = Super[Fr(t, p).c]
    /\ stack[t] # <<>> /\ ToSuper(Top(t)) /\ answer[t] # None =>
          /\ Super[Top(t).c] # None
          /\ answer[t].fn = "init" /\ answer[t].c = Super[Top(t).c]

AnswerOK(t) ==
    answer[t] # None /\ answer[t].fn = "init" =>
        /\ answer[t].c \in Class
        /\ IF answer[t].ok THEN K!Usable(t, answer[t].c) ELSE K!IsErroneous(answer[t].c)

ClassOK(c) ==
    /\ runs[c] \in {0, 1}
    /\ status[c] = "Initialized" => runs[c] = 1
    /\ status[c] \in {"Resolved", "Verifying", "Verified"} => runs[c] = 0
    /\ status[c] = "Initializing" => \E u \in Thread :
          /\ clinit_thread[c] = u
          /\ \E q \in 1..Depth(u) : Inits(Fr(u, q)) /\ Fr(u, q).c = c

\* No two frames work on the same class.
WorkersUnique ==
    \A t, u \in Thread : \A p \in 1..Depth(t), q \in 1..Depth(u) :
        Works(Fr(t, p)) /\ Works(Fr(u, q)) /\ Fr(t, p).c = Fr(u, q).c => t = u /\ p = q

ClassInv ==
    /\ Types
    /\ failed = FALSE
    /\ WorkersUnique
    /\ \A c \in Class : ClassOK(c)
    /\ \A t \in Thread : LinkOK(t) /\ AnswerOK(t) /\ \A p \in 1..Depth(t) : FrameOK(t, p)

------------------------------------------------------------------------------
(* Stacks *)

LEMMA OuterFirst ==
  ASSUME NEW S, NEW s \in Seq(S), s # <<>>
  PROVE  /\ Len(s) \in Nat /\ Len(s) >= 1 /\ Head(s) = s[1]
         /\ s[1] \in S /\ Outer(s, Len(s)) = s[1]
BY SMT DEF Outer

LEMMA OuterIn ==
  ASSUME NEW S, NEW s \in Seq(S), NEW p \in 1..Len(s) PROVE Outer(s, p) \in S
BY SMT DEF Outer

LEMMA Popped ==
  ASSUME NEW S, NEW s \in Seq(S), s # <<>>, NEW r, r = Tail(s)
  PROVE  /\ r \in Seq(S) /\ Len(r) = Len(s) - 1
         /\ \A p \in 1..Len(s) - 1 : Outer(r, p) = Outer(s, p)
         /\ r # <<>> => r[1] = Outer(s, Len(s) - 1) /\ Len(s) - 1 \in 1..Len(s) - 1
<1>1. /\ r \in Seq(S) /\ Len(r) = Len(s) - 1
      /\ \A i \in 1..Len(s) - 1 : r[i] = s[i + 1]
  BY SMT
<1> QED BY SMT, <1>1 DEF Outer

LEMMA TopFrame ==
  ASSUME Types, NEW t \in Thread, stack[t] # <<>>
  PROVE  /\ Depth(t) \in Nat /\ Depth(t) >= 1
         /\ Fr(t, Depth(t)) = Top(t) /\ Head(stack[t]) = Top(t)
         /\ Top(t) \in FrameSet
<1>1. stack[t] \in Seq(FrameSet)
  BY DEF Types
<1> QED BY <1>1, OuterFirst DEF Depth, Fr, Top

LEMMA FrameIn ==
  ASSUME Types, NEW t \in Thread, NEW p \in 1..Depth(t)
  PROVE  Fr(t, p) \in FrameSet
<1>1. stack[t] \in Seq(FrameSet)
  BY DEF Types
<1> QED BY <1>1, OuterIn DEF Fr, Depth

LEMMA DepthNat == ASSUME Types, NEW t \in Thread PROVE Depth(t) \in Nat
<1>1. stack[t] \in Seq(FrameSet)
  BY DEF Types
<1> QED BY SMT, <1>1 DEF Depth

\* A frame after the step; those up to n stay.
NewFr(t, p) == Outer(stack'[t], p)
Below(t, n) == \A p \in 1..n : NewFr(t, p) = Fr(t, p)
Others(t) == \A u \in Thread \ {t} : stack'[u] = stack[u]
StackTyped == /\ stack' = [t \in Thread |-> stack'[t]]
              /\ \A t \in Thread : stack'[t] \in Seq(FrameSet)

LEMMA TopReplaced ==
  ASSUME Types, NEW t \in Thread, stack[t] # <<>>, NEW f \in FrameSet,
         stack' = [stack EXCEPT ![t] = <<f>> \o Tail(stack[t])]
  PROVE  /\ StackTyped /\ Others(t)
         /\ Depth(t)' = Depth(t) /\ Below(t, Depth(t) - 1) /\ NewFr(t, Depth(t)) = f
         /\ stack'[t] # <<>> /\ Top(t)' = f
<1>1. PICK s : s = stack[t]
  OBVIOUS
<1>2. PICK r : r = <<f>> \o Tail(s)
  OBVIOUS
<1>3. s \in Seq(FrameSet) /\ s # <<>>
  BY <1>1 DEF Types
<1>4. stack'[t] = r /\ Others(t) /\ stack' = [u \in Thread |-> stack'[u]]
  BY <1>1, <1>2 DEF Types, Others
<1>5. /\ r \in Seq(FrameSet) /\ Len(r) = Len(s) /\ r[1] = f
      /\ \A i \in 2..Len(s) : r[i] = s[i]
  BY SMT, <1>2, <1>3
<1>6. StackTyped
  BY <1>4, <1>5 DEF StackTyped, Types, Others
<1>7. /\ r # <<>> /\ Len(r) = Len(s) /\ r[1] = f
      /\ Outer(r, Len(s)) = f
      /\ \A p \in 1..Len(s) - 1 : Outer(r, p) = Outer(s, p)
  BY SMT, <1>3, <1>5 DEF Outer
<1> QED BY <1>1, <1>4, <1>6, <1>7 DEF Depth, Fr, NewFr, Below, Top

LEMMA TopPushed ==
  ASSUME Types, NEW t \in Thread, stack[t] # <<>>, NEW f \in FrameSet, NEW g \in FrameSet,
         stack' = [stack EXCEPT ![t] = <<g, f>> \o Tail(stack[t])]
  PROVE  /\ StackTyped /\ Others(t)
         /\ Depth(t)' = Depth(t) + 1 /\ Below(t, Depth(t) - 1)
         /\ NewFr(t, Depth(t)) = f /\ NewFr(t, Depth(t) + 1) = g
         /\ stack'[t] # <<>> /\ Top(t)' = g
<1>1. PICK s : s = stack[t]
  OBVIOUS
<1>2. PICK r : r = <<g, f>> \o Tail(s)
  OBVIOUS
<1>3. s \in Seq(FrameSet) /\ s # <<>>
  BY <1>1 DEF Types
<1>4. stack'[t] = r /\ Others(t) /\ stack' = [u \in Thread |-> stack'[u]]
  BY <1>1, <1>2 DEF Types, Others
<1>5. /\ r \in Seq(FrameSet) /\ Len(r) = Len(s) + 1 /\ r[1] = g /\ r[2] = f
      /\ \A i \in 3..Len(s) + 1 : r[i] = s[i - 1]
  BY SMT, <1>2, <1>3
<1>6. StackTyped
  BY <1>4, <1>5 DEF StackTyped, Types, Others
<1>7. /\ r # <<>> /\ Len(r) = Len(s) + 1 /\ r[1] = g
      /\ Outer(r, Len(s)) = f /\ Outer(r, Len(s) + 1) = g
      /\ \A p \in 1..Len(s) - 1 : Outer(r, p) = Outer(s, p)
  BY SMT, <1>3, <1>5 DEF Outer
<1> QED BY <1>1, <1>4, <1>6, <1>7 DEF Depth, Fr, NewFr, Below, Top

LEMMA TopPopped ==
  ASSUME Types, NEW t \in Thread, stack[t] # <<>>,
         stack' = [stack EXCEPT ![t] = Tail(stack[t])]
  PROVE  /\ StackTyped /\ Others(t)
         /\ Depth(t)' = Depth(t) - 1 /\ Below(t, Depth(t) - 1)
         /\ stack'[t] # <<>> => Top(t)' = Fr(t, Depth(t) - 1) /\ Depth(t) - 1 \in 1..Depth(t) - 1
<1>1. PICK s : s = stack[t]
  OBVIOUS
<1>2. PICK r : r = Tail(s)
  OBVIOUS
<1>3. s \in Seq(FrameSet) /\ s # <<>>
  BY <1>1 DEF Types
<1>4. stack'[t] = r /\ Others(t) /\ stack' = [u \in Thread |-> stack'[u]]
  BY <1>1, <1>2 DEF Types, Others
<1>5. r \in Seq(FrameSet)
  BY <1>2, <1>3, Popped
<1>6. StackTyped
  BY <1>4, <1>5 DEF StackTyped, Types, Others
<1>7. /\ Len(r) = Len(s) - 1
      /\ \A p \in 1..Len(s) - 1 : Outer(r, p) = Outer(s, p)
      /\ r # <<>> => /\ r[1] = Outer(s, Len(s) - 1)
                     /\ Len(s) - 1 \in 1..Len(s) - 1
  BY <1>2, <1>3, Popped
<1> QED BY <1>1, <1>4, <1>6, <1>7 DEF Depth, Fr, NewFr, Below, Top

------------------------------------------------------------------------------
(* What a step of t leaves alone: the frames of the others and its own up to n, and every *)
(* class but c.                                                                            *)

\* Class c changes at most as SetStatus may change it; no other class changes.
OnlyClass(c) ==
    /\ \A d \in Class \ {c} : /\ status'[d] = status[d] /\ runs'[d] = runs[d]
                             /\ clinit_thread'[d] = clinit_thread[d]
    /\ status[c] \in {"Initialized", "ErrorResolved"} => status'[c] = status[c]
    /\ status[c] \in Late => status'[c] \in Late

SameClass(c) ==
    status'[c] = status[c] /\ runs'[c] = runs[c] /\ clinit_thread'[c] = clinit_thread[c]

\* Only frames of t above n may work on class c.
Mine(t, n, c) ==
    \A u \in Thread : \A q \in 1..Depth(u) :
        Works(Fr(u, q)) /\ Fr(u, q).c = c => u = t /\ q \notin 1..n

LEMMA Intervals ==
  ASSUME NEW n \in Nat, NEW k \in Nat, n <= k
  PROVE  /\ 1..n \subseteq 1..k
         /\ \A q \in 1..k : q \in 1..n \/ q \in n + 1..k
         /\ \A q \in n + 1..k : q \notin 1..n
         /\ \A q \in 1..k : 1..q - 1 \subseteq 1..k
BY SMT

\* The two frames are at the same place of the same call.
Alike(f, g) == f.fn = g.fn /\ f.c = g.c /\ f.pc = g.pc

LEMMA AlikeKinds ==
  ASSUME NEW f, NEW g, Alike(f, g)
  PROVE  /\ Verifies(f) <=> Verifies(g)
         /\ Inits(f) <=> Inits(g)
         /\ Works(f) <=> Works(g)
         /\ Waits(f) <=> Waits(g)
         /\ ToSuper(f) <=> ToSuper(g)
         /\ PastSuper(f) <=> PastSuper(g)
BY DEF Alike, Verifies, Inits, Works, Waits, ToSuper, PastSuper

\* A frame that stays where it is, with those further out, stays in order.
LEMMA FrameKept ==
  ASSUME ClassInv, NEW c \in Class, OnlyClass(c), NEW u \in Thread, NEW p \in 1..Depth(u),
         Alike(NewFr(u, p), Fr(u, p)), Below(u, p - 1),
         Works(Fr(u, p)) /\ Fr(u, p).c = c => SameClass(c)
  PROVE  FrameOK(u, p)'
<1>1. FrameOK(u, p) /\ Fr(u, p) \in FrameSet
  BY FrameIn DEF ClassInv
<1>2. PICK f : f = NewFr(u, p)
  OBVIOUS
<1>3. /\ f.c = Fr(u, p).c /\ f.pc = Fr(u, p).pc /\ f.c \in Class
      /\ Verifies(f) <=> Verifies(Fr(u, p))
      /\ Inits(f) <=> Inits(Fr(u, p))
      /\ Waits(f) <=> Waits(Fr(u, p))
      /\ PastSuper(f) <=> PastSuper(Fr(u, p))
  <2>1. Alike(f, Fr(u, p))
    BY <1>2
  <2>2. f.c = Fr(u, p).c /\ f.pc = Fr(u, p).pc /\ f.c \in Class
    BY <1>1, <2>1 DEF Alike, FrameSet
  <2> QED BY <2>1, <2>2, AlikeKinds
<1>4. Works(Fr(u, p)) => SameClass(f.c)
  BY <1>3 DEF OnlyClass, SameClass
<1>5. Waits(f) => status'[f.c] \in Late
  BY <1>1, <1>3 DEF FrameOK, OnlyClass
<1>6. ASSUME NEW d \in Class, UsableBelow(u, p, d) PROVE UsableBelow(u, p, d)'
  <2>1. \A q \in 1..p - 1 : Fr(u, q)' = Fr(u, q)
    BY DEF Below, Fr, NewFr
  <2>2. status[d] = "Initialized" => status'[d] = "Initialized"
    BY DEF OnlyClass
  <2> QED BY <1>6, <2>1, <2>2 DEF UsableBelow
<1>7. /\ Verifies(f) => status'[f.c] = "Verifying"
      /\ Inits(f) => /\ status'[f.c] = "Initializing" /\ clinit_thread'[f.c] = u
                     /\ runs'[f.c] = IF f.pc = "clinit" THEN 1 ELSE 0
  BY <1>1, <1>3, <1>4 DEF FrameOK, SameClass, Works
<1>8. PastSuper(f) /\ f.c \notin IsInterface /\ Super[f.c] # None => UsableBelow(u, p, Super[f.c])'
  <2>1. Super[f.c] # None => Super[f.c] \in Class
    BY <1>3, ClassAssumption DEF K!ClassAssumption
  <2> QED BY <1>1, <1>3, <1>6, <2>1 DEF FrameOK
<1>9. Fr(u, p)' = f
  BY <1>2 DEF Fr, NewFr
<1> QED BY <1>5, <1>7, <1>8, <1>9 DEF FrameOK

\* A frame that neither works on its class nor waits for it.
Plain(f) == f.fn = "iface" \/ f.pc \in {"start", "locked"}

LEMMA PlainKinds ==
  ASSUME NEW f, Plain(f)
  PROVE  ~Verifies(f) /\ ~Inits(f) /\ ~Works(f) /\ ~Waits(f) /\ ~ToSuper(f) /\ ~PastSuper(f)
BY DEF Plain, Verifies, Inits, Works, Waits, ToSuper, PastSuper

LEMMA FramePlain ==
  ASSUME NEW u, NEW p, Plain(NewFr(u, p)) PROVE FrameOK(u, p)'
<1>1. Fr(u, p)' = NewFr(u, p)
  BY DEF Fr, NewFr
<1> QED BY <1>1, PlainKinds DEF FrameOK

\* The frames of t above n, and the class c they work on, are in order after the step.
NewFrames(t, n, c) ==
    /\ \A p \in n + 1..Depth(t)' : FrameOK(t, p)'
    /\ \A p \in n + 1..Depth(t)' : Works(NewFr(t, p)) => NewFr(t, p).c = c /\ Mine(t, n, c)
    /\ \A p, q \in n + 1..Depth(t)' : Works(NewFr(t, p)) /\ Works(NewFr(t, q)) => p = q
    /\ \A p \in n + 1..Depth(t) : Works(Fr(t, p)) => Fr(t, p).c = c

OthersAnswers(t) == \A u \in Thread \ {t} : answer'[u] = answer[u]

LEMMA StepKeeps ==
  ASSUME ClassInv, Types', failed' = FALSE,
         NEW t \in Thread, NEW c \in Class, OnlyClass(c), Others(t), OthersAnswers(t),
         NEW n \in Nat, n <= Depth(t), n <= Depth(t)', Below(t, n),
         SameClass(c) \/ Mine(t, n, c), NewFrames(t, n, c),
         ClassOK(c)', LinkOK(t)', AnswerOK(t)'
  PROVE  ClassInv'
<1>1. /\ Types /\ WorkersUnique /\ \A d \in Class : ClassOK(d)
      /\ \A u \in Thread : LinkOK(u) /\ AnswerOK(u) /\ \A p \in 1..Depth(u) : FrameOK(u, p)
  BY DEF ClassInv
<1>2. Depth(t) \in Nat /\ Depth(t)' \in Nat
  <2>1. stack'[t] \in Seq(FrameSet)
    BY DEF Types
  <2> QED BY SMT, <1>1, <2>1, DepthNat DEF Depth
<1>3. /\ 1..n \subseteq 1..Depth(t) /\ 1..n \subseteq 1..Depth(t)'
      /\ \A q \in 1..Depth(t) : q \in 1..n \/ q \in n + 1..Depth(t)
      /\ \A q \in 1..Depth(t)' : q \in 1..n \/ q \in n + 1..Depth(t)'
      /\ \A q \in 1..n : 1..q - 1 \subseteq 1..n
  <2>1. /\ 1..n \subseteq 1..Depth(t)
        /\ \A q \in 1..Depth(t) : q \in 1..n \/ q \in n + 1..Depth(t)
    BY <1>2, Intervals
  <2>2. /\ 1..n \subseteq 1..Depth(t)'
        /\ \A q \in 1..Depth(t)' : q \in 1..n \/ q \in n + 1..Depth(t)'
    BY <1>2, Intervals
  <2>3. \A q \in 1..n : 1..q - 1 \subseteq 1..n
    BY Intervals, SMT
  <2> QED BY <2>1, <2>2, <2>3
<1>4. \A u \in Thread \ {t} : /\ Depth(u)' = Depth(u) /\ Top(u)' = Top(u)
                             /\ \A p : NewFr(u, p) = Fr(u, p)
  BY DEF Others, Depth, Top, Fr, NewFr
\* A frame of the new state is an old one, or one of t above n.
<1>5. \A u \in Thread : \A q \in 1..Depth(u)' :
         \/ q \in 1..Depth(u) /\ NewFr(u, q) = Fr(u, q) /\ (u = t => q \in 1..n)
         \/ u = t /\ q \in n + 1..Depth(t)'
  <2> SUFFICES ASSUME NEW u \in Thread, NEW q \in 1..Depth(u)'
               PROVE  \/ q \in 1..Depth(u) /\ NewFr(u, q) = Fr(u, q) /\ (u = t => q \in 1..n)
                      \/ u = t /\ q \in n + 1..Depth(t)'
    OBVIOUS
  <2>1. CASE u = t
    BY <1>3, <2>1 DEF Below
  <2>2. CASE u # t
    BY <1>4, <2>2
  <2> QED BY <2>1, <2>2
<1>6. \A u \in Thread : \A p \in 1..Depth(u)' : FrameOK(u, p)'
  <2> SUFFICES ASSUME NEW u \in Thread, NEW p \in 1..Depth(u)' PROVE FrameOK(u, p)'
    OBVIOUS
  <2>1. CASE u = t /\ p \in n + 1..Depth(t)'
    BY <2>1 DEF NewFrames
  <2>2. CASE p \in 1..Depth(u) /\ NewFr(u, p) = Fr(u, p) /\ (u = t => p \in 1..n)
    <3>1. Below(u, p - 1)
      BY <1>3, <1>4, <2>2 DEF Below
    <3>2. Works(Fr(u, p)) /\ Fr(u, p).c = c => SameClass(c)
      BY <2>2 DEF Mine
    <3>3. Alike(NewFr(u, p), Fr(u, p))
      BY <2>2 DEF Alike
    <3> QED BY <2>2, <3>1, <3>2, <3>3, FrameKept
  <2> QED BY <1>5, <2>1, <2>2
<1>7. WorkersUnique'
  <2> SUFFICES ASSUME NEW u \in Thread, NEW v \in Thread,
                      NEW p \in 1..Depth(u)', NEW q \in 1..Depth(v)',
                      Works(NewFr(u, p)), Works(NewFr(v, q)), NewFr(u, p).c = NewFr(v, q).c
               PROVE  u = v /\ p = q
    BY DEF WorkersUnique, Fr, NewFr
  <2>1. CASE u = t /\ p \in n + 1..Depth(t)' /\ v = t /\ q \in n + 1..Depth(t)'
    BY <2>1 DEF NewFrames
  <2>2. CASE /\ u = t /\ p \in n + 1..Depth(t)'
             /\ q \in 1..Depth(v) /\ NewFr(v, q) = Fr(v, q) /\ (v = t => q \in 1..n)
    BY <2>2 DEF NewFrames, Mine
  <2>3. CASE /\ v = t /\ q \in n + 1..Depth(t)'
             /\ p \in 1..Depth(u) /\ NewFr(u, p) = Fr(u, p) /\ (u = t => p \in 1..n)
    BY <2>3 DEF NewFrames, Mine
  <2>4. CASE /\ p \in 1..Depth(u) /\ NewFr(u, p) = Fr(u, p)
             /\ q \in 1..Depth(v) /\ NewFr(v, q) = Fr(v, q)
    <3>1. WorkersUnique
      BY <1>1
    <3>2. /\ p \in 1..Depth(u) /\ q \in 1..Depth(v)
          /\ Works(Fr(u, p)) /\ Works(Fr(v, q)) /\ Fr(u, p).c = Fr(v, q).c
      BY <2>4
    <3> QED BY <3>1, <3>2 DEF WorkersUnique
  <2> QED BY <1>5, <2>1, <2>2, <2>3, <2>4
<1>8. \A d \in Class : ClassOK(d)'
  <2> SUFFICES ASSUME NEW d \in Class \ {c} PROVE ClassOK(d)'
    OBVIOUS
  <2>1. /\ status'[d] = status[d] /\ runs'[d] = runs[d] /\ clinit_thread'[d] = clinit_thread[d]
        /\ ClassOK(d)
    BY <1>1 DEF OnlyClass
  <2>2. ASSUME status[d] = "Initializing", NEW u \in Thread, clinit_thread[d] = u,
               NEW q \in 1..Depth(u), Inits(Fr(u, q)), Fr(u, q).c = d
        PROVE  q \in 1..Depth(u)' /\ Fr(u, q)' = Fr(u, q)
    <3>1. u = t => q \in 1..n
      BY <1>3, <2>2 DEF NewFrames, Works
    <3> QED BY <1>3, <1>4, <2>2, <3>1 DEF Below, Fr, NewFr
  <2> QED BY <2>1, <2>2 DEF ClassOK
<1>9. \A u \in Thread \ {t} : LinkOK(u)' /\ AnswerOK(u)'
  <2> SUFFICES ASSUME NEW u \in Thread \ {t} PROVE LinkOK(u)' /\ AnswerOK(u)'
    OBVIOUS
  <2>1. LinkOK(u)'
    <3>1. LinkOK(u) /\ answer'[u] = answer[u] /\ stack'[u] = stack[u]
      BY <1>1 DEF OthersAnswers, Others
    <3> QED BY <3>1 DEF LinkOK, Fr, Depth, Top
  <2>2. AnswerOK(u)'
    <3>1. answer'[u] = answer[u] /\ AnswerOK(u)
      BY <1>1 DEF OthersAnswers
    <3>2. ASSUME NEW d \in Class, K!IsErroneous(d) PROVE K!IsErroneous(d)'
      BY <3>2 DEF OnlyClass, K!IsErroneous
    <3>3. ASSUME NEW d \in Class, K!Usable(u, d) PROVE K!Usable(u, d)'
      <4>1. CASE d # c \/ SameClass(c)
        BY <3>3, <4>1 DEF OnlyClass, SameClass, K!Usable, K!IsInitialized
      <4>2. CASE status[d] = "Initialized"
        BY <4>2 DEF OnlyClass, K!Usable, K!IsInitialized
      <4>3. CASE d = c /\ Mine(t, n, c) /\ status[c] = "Initializing" /\ clinit_thread[c] = u
        <5>1. PICK q \in 1..Depth(u) : Inits(Fr(u, q)) /\ Fr(u, q).c = c
          <6>1. ClassOK(c)
            BY <1>1
          <6> QED BY <4>3, <6>1 DEF ClassOK
        <5> QED BY <4>3, <5>1 DEF Mine, Works
      <4> QED BY <3>3, <4>1, <4>2, <4>3 DEF K!Usable, K!IsInitialized
    <3> QED BY <3>1, <3>2, <3>3 DEF AnswerOK
  <2> QED BY <2>1, <2>2
<1> QED BY <1>1, <1>6, <1>7, <1>8, <1>9 DEF ClassInv

------------------------------------------------------------------------------
(* Steps that change the stack and no class *)

ClassesSame ==
    /\ status' = status /\ runs' = runs /\ clinit_thread' = clinit_thread
    /\ program' = program /\ failed' = failed

LEMMA SameTypes ==
  ASSUME Types, ClassesSame, StackTyped, NEW t \in Thread, NEW a,
         answer' = [answer EXCEPT ![t] = a]
  PROVE  Types' /\ OthersAnswers(t) /\ answer'[t] = a
<1>1. answer' = [u \in Thread |-> answer'[u]] /\ OthersAnswers(t) /\ answer'[t] = a
  BY DEF Types, OthersAnswers
<1> QED BY <1>1 DEF Types, ClassesSame, StackTyped

LEMMA SameClasses ==
  ASSUME ClassesSame, NEW c PROVE OnlyClass(c) /\ SameClass(c)
BY DEF ClassesSame, OnlyClass, SameClass

\* The innermost frame of t is the only one to work on its class, and nobody works on a
\* class that is neither being verified nor being initialised.
LEMMA MineTop ==
  ASSUME ClassInv, NEW t \in Thread, stack[t] # <<>>, Works(Top(t))
  PROVE  Mine(t, Depth(t) - 1, Top(t).c)
<1>1. Types /\ WorkersUnique
  BY DEF ClassInv
<1>2. Depth(t) \in Nat /\ Depth(t) >= 1 /\ Fr(t, Depth(t)) = Top(t)
  BY <1>1, TopFrame
<1>3. Depth(t) \in 1..Depth(t) /\ Depth(t) \notin 1..Depth(t) - 1
  BY SMT, <1>2
<1>4. ASSUME NEW u \in Thread, NEW q \in 1..Depth(u), Works(Fr(u, q)), Fr(u, q).c = Top(t).c
      PROVE  u = t /\ q = Depth(t)
  <2>1. Works(Fr(t, Depth(t))) /\ Fr(u, q).c = Fr(t, Depth(t)).c
    BY <1>2, <1>4
  <2> QED BY <1>1, <1>3, <1>4, <2>1 DEF WorkersUnique
<1> QED BY <1>3, <1>4 DEF Mine

LEMMA NobodyWorks ==
  ASSUME ClassInv, NEW t \in Thread, NEW n, NEW c \in Class,
         status[c] \notin {"Verifying", "Initializing"}
  PROVE  Mine(t, n, c)
BY DEF ClassInv, FrameOK, Mine, Works

\* What the places of the innermost frames are.
LEMMA Places ==
  ASSUME NEW n \in Nat, n >= 1
  PROVE  /\ n - 1 \in Nat /\ n - 1 <= n /\ n - 1 <= n + 1 /\ n - 1 <= n - 1
         /\ \A p \in n - 1 + 1..n : p = n
         /\ \A p \in n - 1 + 1..n + 1 : p = n \/ p = n + 1
         /\ n - 1 + 1..n - 1 = {}
         /\ n \in 1..n /\ n \in 1..n + 1 /\ n \in n - 1 + 1..n
BY SMT

\* The class of the innermost frame after a step that keeps whether the frame initialises.
LEMMA ClassOfTop ==
  ASSUME ClassInv, ClassesSame, NEW t \in Thread, stack[t] # <<>>, Others(t),
         NEW c, c = Top(t).c,
         Below(t, Depth(t) - 1), 1..Depth(t) - 1 \subseteq 1..Depth(t)',
         Inits(Top(t)) => \E q \in 1..Depth(t)' : Inits(NewFr(t, q)) /\ NewFr(t, q).c = c
  PROVE  ClassOK(c)'
<1>1. Types /\ Top(t) \in FrameSet
  BY TopFrame DEF ClassInv
<1>2. c \in Class /\ ClassOK(c)
  BY <1>1 DEF FrameSet, ClassInv
<1>3. ASSUME NEW u \in Thread, NEW q \in 1..Depth(u), Inits(Fr(u, q)), Fr(u, q).c = c
      PROVE  \E r \in 1..Depth(u)' : Inits(Fr(u, r)') /\ (Fr(u, r)').c = c
  <2>1. CASE u # t
    BY <1>3, <2>1 DEF Others, Depth, Fr
  <2>2. CASE u = t /\ q \in 1..Depth(t) - 1
    BY <1>3, <2>2 DEF Below, Fr, NewFr
  <2>3. CASE u = t /\ q = Depth(t)
    <3>1. Fr(u, q) = Top(t)
      BY <1>1, <2>3, TopFrame
    <3> QED BY <1>3, <2>3, <3>1 DEF Fr, NewFr
  <2>4. q \in 1..Depth(u) - 1 \/ q = Depth(u)
    BY SMT, <1>1, DepthNat
  <2> QED BY <2>1, <2>2, <2>3, <2>4
<1> QED BY <1>2, <1>3 DEF ClassOK, ClassesSame

\* A call.  The caller goes on where it was, or comes from and gets to where it depends on
\* nothing.
LEMMA CallKeeps ==
  ASSUME ClassInv, ClassesSame, NEW t \in Thread, stack[t] # <<>>,
         NEW f \in FrameSet, NEW g \in FrameSet,
         stack' = [stack EXCEPT ![t] = <<g, f>> \o Tail(stack[t])],
         answer' = [answer EXCEPT ![t] = None],
         f.fn = Top(t).fn, f.c = Top(t).c,
         Alike(f, Top(t)) \/ (Plain(f) /\ Plain(Top(t))), g.pc = "start",
         ToSuper(f) => Super[f.c] # None /\ g.fn = "init" /\ g.c = Super[f.c]
  PROVE  ClassInv'
<1>1. PICK k : k = Depth(t)
  OBVIOUS
<1>2. Types /\ failed' = FALSE
  BY DEF ClassInv, ClassesSame
<1>3. k \in Nat /\ k >= 1 /\ Fr(t, k) = Top(t) /\ Top(t) \in FrameSet
  BY <1>1, <1>2, TopFrame
<1>4. /\ StackTyped /\ Others(t)
      /\ Depth(t)' = k + 1 /\ Below(t, k - 1)
      /\ NewFr(t, k) = f /\ NewFr(t, k + 1) = g /\ stack'[t] # <<>> /\ Top(t)' = g
  BY <1>1, <1>2, TopPushed
<1>5. Types' /\ OthersAnswers(t) /\ answer'[t] = None
  BY <1>2, <1>4, SameTypes
<1>6. PICK c \in Class : c = Top(t).c
  BY <1>3 DEF FrameSet
<1>7. OnlyClass(c) /\ SameClass(c)
  BY SameClasses
<1>8. Plain(g)
  BY DEF Plain
<1>9. (Works(f) <=> Works(Top(t))) /\ (Inits(f) <=> Inits(Top(t)))
  BY AlikeKinds, PlainKinds
<1>10. NewFrames(t, k - 1, c)
  <2>1. FrameOK(t, k + 1)'
    BY <1>4, <1>8, FramePlain
  <2>2. FrameOK(t, k)'
    <3>1. CASE Plain(f)
      BY <1>4, <3>1, FramePlain
    <3>2. CASE Alike(f, Top(t))
      <4>1. Alike(NewFr(t, k), Fr(t, k)) /\ k \in 1..Depth(t)
        BY <1>1, <1>3, <1>4, <3>2, Places
      <4> QED BY <1>4, <1>7, <4>1, FrameKept
    <3> QED BY <3>1, <3>2
  <2>3. Works(f) => Mine(t, k - 1, c)
    BY <1>1, <1>6, <1>9, MineTop
  <2>4. ~Works(g)
    BY <1>8, PlainKinds
  <2>5. \A p \in k - 1 + 1..Depth(t)' : p = k \/ p = k + 1
    BY <1>3, <1>4, Places
  <2>6. \A p \in k - 1 + 1..Depth(t) : p = k
    BY <1>1, <1>3, Places
  <2> QED BY <1>3, <1>4, <1>6, <2>1, <2>2, <2>3, <2>4, <2>5, <2>6 DEF NewFrames
<1>11. ClassOK(c)'
  <2>1. k \in 1..Depth(t)' /\ 1..k - 1 \subseteq 1..Depth(t)'
    BY SMT, <1>3, <1>4
  <2>2. Inits(Top(t)) => \E q \in 1..Depth(t)' : Inits(NewFr(t, q)) /\ NewFr(t, q).c = c
    BY <1>4, <1>6, <1>9, <2>1
  <2> QED BY <1>1, <1>4, <1>6, <2>1, <2>2, ClassOfTop
<1>12. LinkOK(t)' /\ AnswerOK(t)'
  <2>1. AnswerOK(t)'
    BY <1>5 DEF AnswerOK
  <2>2. ASSUME NEW p \in 1..k, ToSuper(NewFr(t, p))
        PROVE  /\ Super[NewFr(t, p).c] # None
               /\ NewFr(t, p + 1).fn = "init" /\ NewFr(t, p + 1).c = Super[NewFr(t, p).c]
    <3>1. CASE p = k
      BY <1>4, <2>2, <3>1
    <3>2. CASE p \in 1..k - 1 /\ p + 1 \in 1..k - 1
      <4>1. /\ NewFr(t, p) = Fr(t, p) /\ NewFr(t, p + 1) = Fr(t, p + 1)
            /\ p \in 1..Depth(t) - 1 /\ LinkOK(t)
        BY <1>1, <1>4, <3>2 DEF ClassInv, Below
      <4> QED BY <2>2, <4>1 DEF LinkOK
    <3>3. CASE p \in 1..k - 1 /\ p + 1 = k
      <4>1. NewFr(t, p + 1) = f /\ Fr(t, p + 1) = Top(t)
        BY <1>3, <1>4, <3>3
      <4>2. NewFr(t, p) = Fr(t, p) /\ p \in 1..Depth(t) - 1 /\ LinkOK(t)
        BY <1>1, <1>4, <3>3 DEF ClassInv, Below
      <4> QED BY <2>2, <4>1, <4>2 DEF LinkOK
    <3> QED BY SMT, <1>3, <3>1, <3>2, <3>3
  <2>3. Depth(t)' - 1 = k
    BY SMT, <1>3, <1>4
  <2>4. \A p : Fr(t, p)' = NewFr(t, p)
    BY DEF Fr, NewFr
  <2> QED BY <1>5, <2>1, <2>2, <2>3, <2>4 DEF LinkOK
<1>13. k - 1 \in Nat /\ k - 1 <= Depth(t) /\ k - 1 <= Depth(t)'
  BY SMT, <1>1, <1>3, <1>4
<1> QED BY <1>2, <1>4, <1>5, <1>7, <1>10, <1>11, <1>12, <1>13, StepKeeps

------------------------------------------------------------------------------
(* Steps that may change the class of the innermost frame *)

NewTypes ==
    /\ status' = [d \in Class |-> status'[d]]
    /\ clinit_thread' = [d \in Class |-> clinit_thread'[d]]
    /\ runs' = [d \in Class |-> runs'[d]]
    /\ program' = program /\ failed' = FALSE

\* What ClassOK says of the number of runs.
RunsOK(c) ==
    /\ runs[c] \in {0, 1}
    /\ status[c] = "Initialized" => runs[c] = 1
    /\ status[c] \in {"Resolved", "Verifying", "Verified"} => runs[c] = 0

LEMMA StepTypes ==
  ASSUME Types, NewTypes, StackTyped, NEW t \in Thread, NEW a,
         answer' = [answer EXCEPT ![t] = a]
  PROVE  Types' /\ OthersAnswers(t) /\ answer'[t] = a
<1>1. answer' = [u \in Thread |-> answer'[u]] /\ OthersAnswers(t) /\ answer'[t] = a
  BY DEF Types, OthersAnswers
<1> QED BY <1>1 DEF Types, NewTypes, StackTyped

\* A class whose initialising frame is not the innermost one of t keeps it.
LEMMA InitializerStays ==
  ASSUME ClassInv, NEW t \in Thread, stack[t] # <<>>, Others(t), NEW c \in Class,
         SameClass(c), ~Inits(Top(t)), status[c] = "Initializing",
         Below(t, Depth(t) - 1), 1..Depth(t) - 1 \subseteq 1..Depth(t)'
  PROVE  \E u \in Thread : /\ clinit_thread'[c] = u
                           /\ \E q \in 1..Depth(u)' : Inits(NewFr(u, q)) /\ NewFr(u, q).c = c
<1>1. Types /\ ClassOK(c)
  BY DEF ClassInv
<1>2. PICK u \in Thread : /\ clinit_thread[c] = u
                          /\ \E q \in 1..Depth(u) : Inits(Fr(u, q)) /\ Fr(u, q).c = c
  BY <1>1 DEF ClassOK
<1>3. PICK q \in 1..Depth(u) : Inits(Fr(u, q)) /\ Fr(u, q).c = c
  BY <1>2
<1>4. clinit_thread'[c] = u
  BY <1>2 DEF SameClass
<1>5. CASE u # t
  <2>1. Depth(u)' = Depth(u) /\ NewFr(u, q) = Fr(u, q)
    BY <1>5 DEF Others, Depth, Fr, NewFr
  <2> QED BY <1>3, <1>4, <2>1
<1>6. CASE u = t
  <2>1. q # Depth(t)
    BY <1>1, <1>3, <1>6, TopFrame
  <2>2. q \in 1..Depth(t) - 1
    BY SMT, <1>1, <1>6, <2>1, DepthNat
  <2> QED BY <1>3, <1>4, <1>6, <2>2 DEF Below
<1> QED BY <1>5, <1>6

\* The innermost frame goes on at another place.
LEMMA MoveKeeps ==
  ASSUME ClassInv, NewTypes, NEW t \in Thread, stack[t] # <<>>, NEW f \in FrameSet,
         NEW c, c = Top(t).c, f.fn = Top(t).fn, f.c = c,
         stack' = [stack EXCEPT ![t] = <<f>> \o Tail(stack[t])],
         answer' = [answer EXCEPT ![t] = None],
         OnlyClass(c), SameClass(c) \/ Mine(t, Depth(t) - 1, c), RunsOK(c)',
         Works(f) => Mine(t, Depth(t) - 1, c),
         status'[c] = "Initializing" => Inits(f) \/ (SameClass(c) /\ ~Inits(Top(t))),
         Verifies(f) => status'[c] = "Verifying",
         Inits(f) => /\ status'[c] = "Initializing" /\ clinit_thread'[c] = t
                     /\ runs'[c] = IF f.pc = "clinit" THEN 1 ELSE 0,
         Waits(f) => status'[c] \in Late,
         PastSuper(f) /\ c \notin IsInterface /\ Super[c] # None =>
             UsableBelow(t, Depth(t), Super[c])
  PROVE  ClassInv'
<1>1. PICK k : k = Depth(t)
  OBVIOUS
<1>2. Types /\ failed' = FALSE
  BY DEF ClassInv, NewTypes
<1>3. k \in Nat /\ k >= 1 /\ Fr(t, k) = Top(t) /\ Top(t) \in FrameSet
  BY <1>1, <1>2, TopFrame
<1>4. /\ StackTyped /\ Others(t)
      /\ Depth(t)' = k /\ Below(t, k - 1)
      /\ NewFr(t, k) = f /\ stack'[t] # <<>> /\ Top(t)' = f
  BY <1>1, <1>2, TopReplaced
<1>5. Types' /\ OthersAnswers(t) /\ answer'[t] = None
  BY <1>2, <1>4, StepTypes
<1>6. c \in Class
  BY <1>3 DEF FrameSet
<1>7. FrameOK(t, k)'
  <2>1. Fr(t, k)' = f
    BY <1>4 DEF Fr, NewFr
  <2>2. ASSUME Super[c] # None, UsableBelow(t, k, Super[c]) PROVE UsableBelow(t, k, Super[c])'
    <3>1. \A q \in 1..k - 1 : Fr(t, q)' = Fr(t, q)
      BY <1>4 DEF Below, Fr, NewFr
    <3>2. Super[c] \in Class \ {c}
      BY <1>6, <2>2, ClassAssumption DEF K!ClassAssumption
    <3>3. status'[Super[c]] = status[Super[c]]
      BY <3>2 DEF OnlyClass
    <3> QED BY <2>2, <3>1, <3>3 DEF UsableBelow
  <2> QED BY <1>1, <2>1, <2>2 DEF FrameOK
<1>8. NewFrames(t, k - 1, c)
  <2>1. (\A p \in k - 1 + 1..Depth(t)' : p = k) /\ (\A p \in k - 1 + 1..Depth(t) : p = k)
    BY <1>1, <1>3, <1>4, Places
  <2> QED BY <1>1, <1>3, <1>4, <1>7, <2>1 DEF NewFrames
<1>9. ClassOK(c)'
  <2>1. ASSUME status'[c] = "Initializing"
        PROVE  \E u \in Thread : /\ clinit_thread'[c] = u
                                 /\ \E q \in 1..Depth(u)' : Inits(NewFr(u, q)) /\ NewFr(u, q).c = c
    <3>1. k \in 1..Depth(t)' /\ 1..k - 1 \subseteq 1..Depth(t)'
      BY SMT, <1>3, <1>4
    <3>2. CASE Inits(f)
      BY <1>4, <3>1, <3>2
    <3>3. CASE SameClass(c) /\ ~Inits(Top(t))
      <4>1. status[c] = "Initializing"
        BY <2>1, <3>3 DEF SameClass
      <4> QED BY <1>1, <1>4, <1>6, <3>1, <3>3, <4>1, InitializerStays
    <3> QED BY <2>1, <3>2, <3>3
  <2>2. \A u, q : Fr(u, q)' = NewFr(u, q)
    BY DEF Fr, NewFr
  <2> QED BY <2>1, <2>2 DEF ClassOK, RunsOK
<1>10. LinkOK(t)' /\ AnswerOK(t)'
  <2>1. AnswerOK(t)'
    BY <1>5 DEF AnswerOK
  <2>2. ASSUME NEW p \in 1..k - 1, ToSuper(NewFr(t, p))
        PROVE  /\ Super[NewFr(t, p).c] # None
               /\ NewFr(t, p + 1).fn = "init" /\ NewFr(t, p + 1).c = Super[NewFr(t, p).c]
    <3>1. NewFr(t, p) = Fr(t, p) /\ p \in 1..Depth(t) - 1 /\ LinkOK(t)
      BY <1>1, <1>4 DEF ClassInv, Below
    <3>2. p + 1 \in 1..k - 1 \/ p + 1 = k
      BY SMT, <1>3
    <3>3. NewFr(t, p + 1).fn = Fr(t, p + 1).fn /\ NewFr(t, p + 1).c = Fr(t, p + 1).c
      <4>1. CASE p + 1 \in 1..k - 1
        BY <1>4, <4>1 DEF Below
      <4>2. CASE p + 1 = k
        BY <1>3, <1>4, <4>2
      <4> QED BY <3>2, <4>1, <4>2
    <3> QED BY <2>2, <3>1, <3>3 DEF LinkOK
  <2>3. \A p : Fr(t, p)' = NewFr(t, p)
    BY DEF Fr, NewFr
  <2> QED BY <1>4, <1>5, <2>1, <2>2, <2>3 DEF LinkOK
<1>11. k - 1 \in Nat /\ k - 1 <= Depth(t) /\ k - 1 <= Depth(t)'
  BY SMT, <1>1, <1>3, <1>4
<1> QED BY <1>1, <1>2, <1>4, <1>5, <1>6, <1>8, <1>9, <1>10, <1>11, StepKeeps

\* The innermost frame returns.
LEMMA ReturnKeeps ==
  ASSUME ClassInv, NewTypes, NEW t \in Thread, stack[t] # <<>>, NEW ok,
         NEW c, c = Top(t).c,
         stack' = [stack EXCEPT ![t] = Tail(stack[t])],
         answer' = [answer EXCEPT ![t] = [fn |-> Top(t).fn, c |-> c, ok |-> ok]],
         OnlyClass(c), SameClass(c) \/ Mine(t, Depth(t) - 1, c), RunsOK(c)',
         status'[c] = "Initializing" => SameClass(c) /\ ~Inits(Top(t)),
         Top(t).fn = "init" => IF ok THEN K!Usable(t, c)' ELSE K!IsErroneous(c)'
  PROVE  ClassInv'
<1>1. PICK k : k = Depth(t)
  OBVIOUS
<1>2. Types /\ failed' = FALSE
  BY DEF ClassInv, NewTypes
<1>3. k \in Nat /\ k >= 1 /\ Fr(t, k) = Top(t) /\ Top(t) \in FrameSet
  BY <1>1, <1>2, TopFrame
<1>4. /\ StackTyped /\ Others(t)
      /\ Depth(t)' = k - 1 /\ Below(t, k - 1)
      /\ stack'[t] # <<>> => Top(t)' = Fr(t, k - 1) /\ k - 1 \in 1..k - 1
  BY <1>1, <1>2, TopPopped
<1>5. /\ Types' /\ OthersAnswers(t)
      /\ answer'[t] = [fn |-> Top(t).fn, c |-> c, ok |-> ok]
  BY <1>2, <1>4, StepTypes
<1>6. c \in Class
  BY <1>3 DEF FrameSet
<1>7. NewFrames(t, k - 1, c)
  <2>1. (k - 1 + 1..Depth(t)' = {}) /\ (\A p \in k - 1 + 1..Depth(t) : p = k)
    BY <1>1, <1>3, <1>4, Places
  <2> QED BY <1>3, <2>1 DEF NewFrames
<1>8. ClassOK(c)'
  <2>1. ASSUME status'[c] = "Initializing"
        PROVE  \E u \in Thread : /\ clinit_thread'[c] = u
                                 /\ \E q \in 1..Depth(u)' : Inits(NewFr(u, q)) /\ NewFr(u, q).c = c
    <3>1. 1..k - 1 \subseteq 1..Depth(t)'
      BY <1>4
    <3>2. SameClass(c) /\ ~Inits(Top(t)) /\ status[c] = "Initializing"
      BY <2>1 DEF SameClass
    <3> QED BY <1>1, <1>4, <1>6, <3>1, <3>2, InitializerStays
  <2>2. \A u, q : Fr(u, q)' = NewFr(u, q)
    BY DEF Fr, NewFr
  <2> QED BY <2>1, <2>2 DEF ClassOK, RunsOK
<1>9. AnswerOK(t)'
  <2>1. /\ (answer'[t]).fn = Top(t).fn /\ (answer'[t]).c = c /\ (answer'[t]).ok = ok
    BY SMT, <1>5
  <2> QED BY <1>6, <2>1 DEF AnswerOK
<1>10. LinkOK(t)'
  <2>1. ASSUME NEW p \in 1..k - 1, ToSuper(Fr(t, p))
        PROVE  /\ Super[Fr(t, p).c] # None
               /\ Fr(t, p + 1).fn = "init" /\ Fr(t, p + 1).c = Super[Fr(t, p).c]
    <3>1. LinkOK(t) /\ p \in 1..Depth(t) - 1
      BY <1>1 DEF ClassInv
    <3> QED BY <2>1, <3>1 DEF LinkOK
  <2>2. ASSUME NEW p \in 1..Depth(t)' - 1
        PROVE  /\ p \in 1..k - 1 /\ NewFr(t, p) = Fr(t, p) /\ NewFr(t, p + 1) = Fr(t, p + 1)
    <3>1. p \in 1..k - 1 /\ p + 1 \in 1..k - 1
      BY SMT, <1>3, <1>4
    <3> QED BY <1>4, <3>1 DEF Below
  <2>3. ASSUME stack'[t] # <<>>, ToSuper(Top(t)')
        PROVE  /\ Super[(Top(t)').c] # None
               /\ (answer'[t]).fn = "init" /\ (answer'[t]).c = Super[(Top(t)').c]
    <3>1. PICK p : p = k - 1
      OBVIOUS
    <3>2. p \in 1..k - 1 /\ Top(t)' = Fr(t, p)
      BY <1>4, <2>3, <3>1
    <3>3. p + 1 = k
      BY SMT, <1>3, <3>1
    <3>4. Super[Fr(t, p).c] # None /\ Top(t).fn = "init" /\ Top(t).c = Super[Fr(t, p).c]
      BY <1>3, <2>1, <2>3, <3>2, <3>3
    <3>5. (answer'[t]).fn = Top(t).fn /\ (answer'[t]).c = Top(t).c
      BY SMT, <1>5
    <3> QED BY <3>2, <3>4, <3>5
  <2>4. \A p : Fr(t, p)' = NewFr(t, p)
    BY DEF Fr, NewFr
  <2> QED BY <2>1, <2>2, <2>3, <2>4 DEF LinkOK
<1>11. k - 1 \in Nat /\ k - 1 <= Depth(t) /\ k - 1 <= Depth(t)'
  BY SMT, <1>1, <1>3, <1>4
<1> QED BY <1>1, <1>2, <1>4, <1>5, <1>6, <1>7, <1>8, <1>9, <1>10, <1>11, StepKeeps

------------------------------------------------------------------------------
(* What the operators of ClassInit do *)

\* Places of the innermost frame, and what the invariant says of it.
LEMMA AtTop ==
  ASSUME ClassInv, NEW t \in Thread, stack[t] # <<>>
  PROVE  /\ Types /\ Top(t) \in FrameSet /\ Head(stack[t]) = Top(t)
         /\ K!Cls(t) = Top(t).c /\ K!Index(t) = Top(t).i
         /\ Top(t).c \in Class /\ Top(t).i \in Nat \ {0} /\ Top(t).pc \in Label
<1>1. Types /\ Top(t) \in FrameSet /\ Head(stack[t]) = Top(t)
  BY TopFrame DEF ClassInv
<1>2. Top(t).c \in Class /\ Top(t).i \in Nat \ {0} /\ Top(t).pc \in Label
  BY <1>1 DEF FrameSet
<1> QED BY <1>1, <1>2 DEF K!Cls, K!Index

LEMMA TopOK ==
  ASSUME ClassInv, NEW t \in Thread, stack[t] # <<>>, NEW c, c = Top(t).c
  PROVE  /\ Verifies(Top(t)) => status[c] = "Verifying"
         /\ Inits(Top(t)) => /\ status[c] = "Initializing" /\ clinit_thread[c] = t
                             /\ runs[c] = IF Top(t).pc = "clinit" THEN 1 ELSE 0
         /\ Waits(Top(t)) => status[c] \in Late
         /\ PastSuper(Top(t)) /\ c \notin IsInterface /\ Super[c] # None =>
               UsableBelow(t, Depth(t), Super[c])
         /\ RunsOK(c)
<1>1. Depth(t) \in 1..Depth(t) /\ Fr(t, Depth(t)) = Top(t) /\ c \in Class
  <2>1. Depth(t) \in Nat /\ Depth(t) >= 1 /\ Fr(t, Depth(t)) = Top(t)
    BY TopFrame DEF ClassInv
  <2>2. Depth(t) \in 1..Depth(t)
    BY SMT, <2>1
  <2> QED BY <2>1, <2>2, AtTop
<1>2. FrameOK(t, Depth(t)) /\ ClassOK(c)
  BY <1>1 DEF ClassInv
<1>3. RunsOK(c)
  BY <1>2 DEF ClassOK, RunsOK
<1> QED BY <1>1, <1>2, <1>3 DEF FrameOK

LEMMA GotoEffect ==
  ASSUME ClassInv, NEW t \in Thread, stack[t] # <<>>, NEW l \in Label, NEW i \in Nat \ {0},
         K!GotoAt(t, l, i)
  PROVE  \E f \in FrameSet :
            /\ f.fn = Top(t).fn /\ f.c = Top(t).c /\ f.pc = l
            /\ stack' = [stack EXCEPT ![t] = <<f>> \o Tail(stack[t])]
            /\ answer' = [answer EXCEPT ![t] = None]
<1>1. PICK m \in FrameSet : m = stack[t][1]
  BY AtTop DEF Top
<1>2. PICK f : f = [m EXCEPT !.pc = l, !.i = i]
  OBVIOUS
<1>3. f \in FrameSet /\ f.fn = m.fn /\ f.c = m.c /\ f.pc = l
  <2>1. PICK h : h = [m EXCEPT !.pc = l]
    OBVIOUS
  <2>2. h \in FrameSet /\ h.fn = m.fn /\ h.c = m.c /\ h.pc = l
    BY SMT, <2>1 DEF FrameSet
  <2>3. f = [h EXCEPT !.i = i]
    BY SMT, <1>2, <2>1 DEF FrameSet
  <2> QED BY SMT, <2>2, <2>3 DEF FrameSet
<1> QED BY <1>1, <1>2, <1>3 DEF K!GotoAt, Top

LEMMA CalleeFrame ==
  ASSUME NEW fn \in Fn, NEW d \in Class
  PROVE  \E g \in FrameSet : g = K!Frame(fn, d) /\ g.fn = fn /\ g.c = d /\ g.pc = "start"
<1>1. PICK g : g = K!Frame(fn, d)
  OBVIOUS
<1>2. g \in FrameSet /\ g.fn = fn /\ g.c = d /\ g.pc = "start"
  BY SMT, <1>1 DEF K!Frame, FrameSet, Label
<1> QED BY <1>1, <1>2

\* The two ways in which callers go on: at another place, or with the next index.
LEMMA CallerAt ==
  ASSUME ClassInv, NEW t \in Thread, stack[t] # <<>>, NEW l \in Label
  PROVE  \E f \in FrameSet : /\ f = [stack[t][1] EXCEPT !.pc = l]
                            /\ f.fn = Top(t).fn /\ f.c = Top(t).c /\ f.pc = l
<1>1. PICK m \in FrameSet : m = stack[t][1]
  BY AtTop DEF Top
<1>2. PICK f : f = [m EXCEPT !.pc = l]
  OBVIOUS
<1>3. f \in FrameSet /\ f.fn = m.fn /\ f.c = m.c /\ f.pc = l
  BY SMT, <1>2 DEF FrameSet
<1> QED BY <1>1, <1>2, <1>3 DEF Top

LEMMA CallerNext ==
  ASSUME ClassInv, NEW t \in Thread, stack[t] # <<>>
  PROVE  \E f \in FrameSet : /\ f = [stack[t][1] EXCEPT !.i = K!Index(t) + 1]
                            /\ Alike(f, Top(t))
<1>1. PICK m \in FrameSet : m = stack[t][1] /\ K!Index(t) = m.i
  BY AtTop DEF Top
<1>2. PICK f : f = [m EXCEPT !.i = m.i + 1]
  OBVIOUS
<1>3. f \in FrameSet /\ f.fn = m.fn /\ f.c = m.c /\ f.pc = m.pc
  BY SMT, <1>2 DEF FrameSet
<1> QED BY <1>1, <1>2, <1>3 DEF Top, Alike

LEMMA ReturnEffect ==
  ASSUME ClassInv, NEW t \in Thread, stack[t] # <<>>, NEW ok, K!Return(t, ok)
  PROVE  /\ stack' = [stack EXCEPT ![t] = Tail(stack[t])]
         /\ answer' = [answer EXCEPT ![t] = [fn |-> Top(t).fn, c |-> Top(t).c, ok |-> ok]]
BY AtTop DEF K!Return

LEMMA Ranks ==
  /\ K!Rank("Resolved") = 1 /\ K!Rank("Verifying") = 2 /\ K!Rank("Verified") = 3
  /\ K!Rank("Initializing") = 4 /\ K!Rank("Initialized") = 5
BY DEF K!Rank

\* The CHECKs of SetStatus hold for the changes the linker makes.
Advances(from, to) ==
    \/ from = "Resolved" /\ to = "Verifying"
    \/ from = "Verifying" /\ to = "Verified"
    \/ from = "Verified" /\ to = "Initializing"
    \/ from = "Initializing" /\ to = "Initialized"
    \/ from # "ErrorResolved" /\ from # "Initialized" /\ to = "ErrorResolved"

LEMMA SetStatusEffect ==
  ASSUME ClassInv, NEW c \in Class, NEW s, K!SetStatus(c, s), Advances(status[c], s)
  PROVE  /\ status' = [d \in Class |-> status'[d]] /\ status'[c] = s /\ failed' = FALSE
         /\ \A d \in Class \ {c} : status'[d] = status[d]
<1>1. /\ status' = [d \in Class |-> status'[d]] /\ status'[c] = s
      /\ \A d \in Class \ {c} : status'[d] = status[d]
  BY DEF ClassInv, Types, K!SetStatus
<1>2. failed = FALSE
  BY DEF ClassInv
<1>3. CASE s = "ErrorResolved"
  <2>1. ~K!IsErroneous(c)
    BY <1>3 DEF Advances, K!IsErroneous
  <2> QED BY <1>1, <1>2, <1>3, <2>1 DEF K!SetStatus
<1>4. CASE s # "ErrorResolved"
  <2>1. \E m, n \in Nat : m > n /\ K!Rank(s) = m /\ K!Rank(status[c]) = n
    <3>1. 2 > 1 /\ 3 > 2 /\ 4 > 3 /\ 5 > 4 /\ {1, 2, 3, 4, 5} \subseteq Nat
      BY SMT
    <3> QED BY <1>4, <3>1, Ranks DEF Advances
  <2>2. ~(K!Rank(s) <= K!Rank(status[c]))
    BY SMT, <2>1
  <2> QED BY <1>1, <1>2, <1>4, <2>2 DEF K!SetStatus
<1> QED BY <1>3, <1>4

LEMMA SameNew ==
  ASSUME ClassInv, ClassesSame, NEW c
  PROVE  NewTypes /\ OnlyClass(c) /\ SameClass(c) /\ (RunsOK(c) => RunsOK(c)')
<1>1. NewTypes
  BY DEF ClassInv, Types, ClassesSame, NewTypes
<1>2. RunsOK(c) => RunsOK(c)'
  BY DEF ClassesSame, RunsOK
<1> QED BY <1>1, <1>2, SameClasses

\* A return that changes no class.
LEMMA ReturnSame ==
  ASSUME ClassInv, ClassesSame, NEW t \in Thread, stack[t] # <<>>, NEW ok, K!Return(t, ok),
         NEW c, c = Top(t).c, status[c] = "Initializing" => ~Inits(Top(t)),
         Top(t).fn = "init" => IF ok THEN K!Usable(t, c) ELSE K!IsErroneous(c)
  PROVE  ClassInv'
<1>1. NewTypes /\ OnlyClass(c) /\ SameClass(c) /\ RunsOK(c)'
  BY SameNew, TopOK
<1>2. status'[c] = "Initializing" => SameClass(c) /\ ~Inits(Top(t))
  BY <1>1 DEF SameClass
<1>3. Top(t).fn = "init" => IF ok THEN K!Usable(t, c)' ELSE K!IsErroneous(c)'
  BY <1>1 DEF SameClass, K!Usable, K!IsInitialized, K!IsErroneous
<1>4. /\ stack' = [stack EXCEPT ![t] = Tail(stack[t])]
      /\ answer' = [answer EXCEPT ![t] = [fn |-> Top(t).fn, c |-> c, ok |-> ok]]
  BY ReturnEffect
<1> QED BY <1>1, <1>2, <1>3, <1>4, ReturnKeeps

\* A return that ends the work on a class.
LEMMA ReturnEnds ==
  ASSUME ClassInv, NEW t \in Thread, stack[t] # <<>>, NEW ok, K!Return(t, ok),
         NEW c, c = Top(t).c, NEW s \in {"Verified", "Initialized", "ErrorResolved"},
         K!SetStatus(c, s), Advances(status[c], s),
         runs' = runs, clinit_thread' = clinit_thread, program' = program,
         Works(Top(t)) \/ status[c] = "Verified",
         s = "Initialized" => runs[c] = 1,
         Top(t).fn = "init" => IF ok THEN s = "Initialized" ELSE s = "ErrorResolved"
  PROVE  ClassInv'
<1>1. c \in Class /\ RunsOK(c) /\ Types
  BY AtTop, TopOK
<1>2. /\ status' = [d \in Class |-> status'[d]] /\ status'[c] = s /\ failed' = FALSE
      /\ \A d \in Class \ {c} : status'[d] = status[d]
  BY <1>1, SetStatusEffect
<1>3. NewTypes
  BY <1>1, <1>2 DEF NewTypes, Types
<1>4. OnlyClass(c)
  BY <1>2 DEF OnlyClass, Advances, Late
<1>5. Mine(t, Depth(t) - 1, c)
  <2>1. CASE Works(Top(t))
    BY <2>1, MineTop
  <2>2. CASE status[c] = "Verified"
    BY <1>1, <2>2, NobodyWorks
  <2> QED BY <2>1, <2>2
<1>6. RunsOK(c)'
  BY <1>1, <1>2 DEF RunsOK, Advances
<1>7. status'[c] # "Initializing"
  BY <1>2
<1>8. Top(t).fn = "init" => IF ok THEN K!Usable(t, c)' ELSE K!IsErroneous(c)'
  BY <1>2 DEF K!Usable, K!IsInitialized, K!IsErroneous
<1>9. /\ stack' = [stack EXCEPT ![t] = Tail(stack[t])]
      /\ answer' = [answer EXCEPT ![t] = [fn |-> Top(t).fn, c |-> c, ok |-> ok]]
  BY ReturnEffect
<1> QED BY <1>3, <1>4, <1>5, <1>6, <1>7, <1>8, <1>9, ReturnKeeps

\* A move that changes no class: between the parts of VerifyClass, to the wait, over the
\* supertypes of a class, over those of an interface.
LEMMA MoveSame ==
  ASSUME ClassInv, ClassesSame, NEW t \in Thread, stack[t] # <<>>, NEW c, c = Top(t).c,
         NEW l \in Label, NEW i \in Nat \ {0}, K!GotoAt(t, l, i),
         \/ Verifies(Top(t)) /\ l \in {"interfaces", "perform"}
         \/ ~Works(Top(t)) /\ Top(t).fn = "init" /\ l = "waited" /\ status[c] = "Initializing"
         \/ /\ Inits(Top(t)) /\ Top(t).pc # "clinit" /\ l = "interfaces"
            /\ c \notin IsInterface /\ Super[c] # None => UsableBelow(t, Depth(t), Super[c])
         \/ Top(t).fn = "iface" /\ l = "start"
  PROVE  ClassInv'
<1>1. NewTypes /\ OnlyClass(c) /\ SameClass(c) /\ RunsOK(c)'
  BY SameNew, TopOK
<1>2. PICK f \in FrameSet :
         /\ f.fn = Top(t).fn /\ f.c = Top(t).c /\ f.pc = l
         /\ stack' = [stack EXCEPT ![t] = <<f>> \o Tail(stack[t])]
         /\ answer' = [answer EXCEPT ![t] = None]
  BY GotoEffect
<1>3. (Verifies(f) => Verifies(Top(t))) /\ (Inits(f) <=> Inits(Top(t)))
  BY <1>2 DEF Verifies, Inits, Works
<1>4. Works(f) => Mine(t, Depth(t) - 1, c)
  <2>1. Works(f) => Works(Top(t))
    BY <1>3 DEF Works
  <2> QED BY <2>1, MineTop
<1>5. /\ Verifies(f) => status'[c] = "Verifying"
      /\ Inits(f) => /\ status'[c] = "Initializing" /\ clinit_thread'[c] = t
                     /\ runs'[c] = IF f.pc = "clinit" THEN 1 ELSE 0
  <2>1. Verifies(f) => status[c] = "Verifying"
    BY <1>3, TopOK
  <2>2. Inits(f) => status[c] = "Initializing" /\ clinit_thread[c] = t
    BY <1>3, TopOK
  <2>3. Inits(f) => f.pc # "clinit" /\ Top(t).pc # "clinit"
    BY <1>2, <1>3 DEF Inits, Verifies, Works
  <2>4. Inits(f) => runs[c] = 0
    BY <1>3, <2>3, TopOK
  <2> QED BY <1>1, <2>1, <2>2, <2>3, <2>4 DEF SameClass
<1>6. Waits(f) => status'[c] \in Late
  BY <1>1, <1>2 DEF SameClass, Late, Waits, Verifies
<1>7. PastSuper(f) /\ c \notin IsInterface /\ Super[c] # None => UsableBelow(t, Depth(t), Super[c])
  BY <1>2 DEF PastSuper, Verifies
<1>8. status'[c] = "Initializing" => Inits(f) \/ (SameClass(c) /\ ~Inits(Top(t)))
  BY <1>1, <1>3
<1>9. f.c = c
  BY <1>2
<1> QED BY <1>1, <1>2, <1>4, <1>5, <1>6, <1>7, <1>8, <1>9, MoveKeeps

\* A frame of t calls fn(d) and goes on as f.
Calling(t, fn, d, f) ==
    /\ stack' = [stack EXCEPT ![t] = <<K!Frame(fn, d), f>> \o Tail(stack[t])]
    /\ answer' = [answer EXCEPT ![t] = None]

LEMMA CallSame ==
  ASSUME ClassInv, ClassesSame, NEW t \in Thread, stack[t] # <<>>,
         NEW fn \in Fn, NEW d \in Class, NEW f \in FrameSet, Calling(t, fn, d, f),
         f.fn = Top(t).fn, f.c = Top(t).c, Alike(f, Top(t)) \/ (Plain(f) /\ Plain(Top(t))),
         ToSuper(f) => Super[f.c] # None /\ fn = "init" /\ d = Super[f.c]
  PROVE  ClassInv'
<1>1. PICK g \in FrameSet : g = K!Frame(fn, d) /\ g.fn = fn /\ g.c = d /\ g.pc = "start"
  BY CalleeFrame
<1>2. ToSuper(f) => Super[f.c] # None /\ g.fn = "init" /\ g.c = Super[f.c]
  BY <1>1
<1>3. /\ stack' = [stack EXCEPT ![t] = <<g, f>> \o Tail(stack[t])]
      /\ answer' = [answer EXCEPT ![t] = None]
  BY <1>1 DEF Calling
<1> QED BY <1>1, <1>2, <1>3, CallKeeps

\* Steps after which every stack, answer and class is as it was.
LEMMA StillKeeps ==
  ASSUME ClassInv, ClassesSame, stack' = stack, answer' = answer PROVE ClassInv'
<1>1. /\ Types /\ failed = FALSE /\ WorkersUnique /\ \A c \in Class : ClassOK(c)
      /\ \A t \in Thread : LinkOK(t) /\ AnswerOK(t) /\ \A p \in 1..Depth(t) : FrameOK(t, p)
  BY DEF ClassInv
<1>2. /\ status' = status /\ runs' = runs /\ clinit_thread' = clinit_thread
      /\ program' = program /\ failed' = failed
  BY DEF ClassesSame
<1>3. \A t : /\ Depth(t)' = Depth(t) /\ Top(t)' = Top(t)
            /\ \A p : Fr(t, p)' = Fr(t, p)
  BY DEF Fr, Top, Depth
<1>4. Types' /\ failed' = FALSE
  BY <1>1, <1>2 DEF Types
<1>5. WorkersUnique'
  BY <1>1, <1>3 DEF WorkersUnique
<1>6. ASSUME NEW c \in Class PROVE ClassOK(c)'
  <2>1. ClassOK(c)
    BY <1>1
  <2>2. status'[c] = status[c] /\ runs'[c] = runs[c] /\ clinit_thread'[c] = clinit_thread[c]
    BY <1>2
  <2> QED BY <1>3, <2>1, <2>2 DEF ClassOK
<1>7. \A t \in Thread : LinkOK(t)'
  BY <1>1, <1>3 DEF LinkOK
<1>8. \A t \in Thread : AnswerOK(t)'
  BY <1>1, <1>2 DEF AnswerOK, K!Usable, K!IsInitialized, K!IsErroneous
<1>9. ASSUME NEW t \in Thread, NEW p \in 1..Depth(t)' PROVE FrameOK(t, p)'
  <2>1. FrameOK(t, p)
    BY <1>1, <1>3
  <2>2. \A d : UsableBelow(t, p, d)' <=> UsableBelow(t, p, d)
    BY <1>2, <1>3 DEF UsableBelow
  <2> QED BY <1>2, <1>3, <2>1, <2>2 DEF FrameOK
<1> QED BY <1>4, <1>5, <1>6, <1>7, <1>8, <1>9 DEF ClassInv

------------------------------------------------------------------------------
(* VerifyClass *)

LEMMA AttemptKeeps ==
  ASSUME ClassInv, NEW t \in Thread, stack[t] # <<>>, Verifies(Top(t)), NEW d \in Class,
         K!Attempt(t, d)
  PROVE  ClassInv'
<1>1. PICK l \in Label : l = Head(stack[t]).pc /\ l = Top(t).pc
  BY AtTop
<1>2. PICK f \in FrameSet : /\ f = [stack[t][1] EXCEPT !.pc = l]
                           /\ f.fn = Top(t).fn /\ f.c = Top(t).c /\ f.pc = l
  BY CallerAt
<1>3. Alike(f, Top(t))
  BY <1>1, <1>2 DEF Alike
<1>4. ~ToSuper(f)
  BY <1>2 DEF Verifies, ToSuper
<1>5. ClassesSame
  BY DEF K!Attempt, K!classes, ClassesSame
<1>6. Calling(t, "verify", d, f) /\ "verify" \in Fn
  BY <1>1, <1>2 DEF K!Attempt, K!Call, Calling, Fn
<1> QED BY <1>2, <1>3, <1>4, <1>5, <1>6, CallSame

LEMMA RejectKeeps ==
  ASSUME ClassInv, NEW t \in Thread, stack[t] # <<>>, Verifies(Top(t)), NEW d,
         K!Reject(t, d)
  PROVE  ClassInv'
<1>1. PICK c : c = Top(t).c
  OBVIOUS
<1>2. status[c] = "Verifying" /\ K!Cls(t) = c
  BY <1>1, TopOK, AtTop
<1>3. /\ K!SetStatus(c, "ErrorResolved") /\ K!Return(t, FALSE)
      /\ runs' = runs /\ clinit_thread' = clinit_thread /\ program' = program
  BY <1>2 DEF K!Reject
<1>4. Advances(status[c], "ErrorResolved") /\ Works(Top(t)) /\ Top(t).fn # "init"
  BY <1>2 DEF Advances, Works, Verifies
<1> QED BY <1>1, <1>3, <1>4, ReturnEnds

LEMMA VerifyKeeps ==
  ASSUME ClassInv, NEW t \in Thread,
         K!VerifyWait(t) \/ K!VerifyDone(t) \/ K!VerifyBegin(t) \/ K!VerifySuper(t)
           \/ K!VerifyInterfaces(t) \/ K!PerformClassVerification(t)
  PROVE  ClassInv'
<1>1. stack[t] # <<>>
  BY DEF K!VerifyWait, K!VerifyDone, K!VerifyBegin, K!VerifySuper, K!VerifyInterfaces,
         K!PerformClassVerification, K!At
<1>2. PICK c \in Class : c = Top(t).c /\ K!Cls(t) = c
  BY <1>1, AtTop
<1>3. Head(stack[t]) = Top(t) /\ K!Index(t) = Top(t).i /\ Top(t).i \in Nat \ {0} /\ Types
  BY <1>1, AtTop
<1>4. CASE K!VerifyWait(t)
  <2>1. ClassesSame /\ stack' = stack /\ answer' = answer
    BY <1>4 DEF K!VerifyWait, K!classes, K!control, ClassesSame
  <2> QED BY <2>1, StillKeeps
<1>5. CASE K!VerifyDone(t)
  <2>1. ClassesSame /\ K!Return(t, K!IsVerified(c))
    BY <1>2, <1>5 DEF K!VerifyDone, K!classes, ClassesSame
  <2>2. Top(t).fn = "verify" /\ ~Inits(Top(t))
    BY <1>3, <1>5 DEF K!VerifyDone, K!At, Inits
  <2> QED BY <1>1, <1>2, <2>1, <2>2, ReturnSame
<1>6. CASE K!VerifyBegin(t)
  <2>1. /\ status[c] = "Resolved" /\ K!SetStatus(c, "Verifying")
        /\ K!GotoAt(t, "super", Top(t).i)
        /\ runs' = runs /\ clinit_thread' = clinit_thread /\ program' = program
    BY <1>2, <1>3, <1>6 DEF K!VerifyBegin, K!Goto
  <2>2. Top(t).fn = "verify"
    BY <1>3, <1>6 DEF K!VerifyBegin, K!At
  <2>3. /\ status' = [d \in Class |-> status'[d]] /\ status'[c] = "Verifying"
        /\ failed' = FALSE /\ \A d \in Class \ {c} : status'[d] = status[d]
    <3>1. status[c] = "Resolved"
      BY <2>1
    <3>2. Advances(status[c], "Verifying")
      BY SMT, <3>1 DEF Advances
    <3> QED BY <2>1, <3>2, SetStatusEffect
  <2>4. NewTypes /\ OnlyClass(c)
    BY <1>3, <2>1, <2>3 DEF NewTypes, Types, OnlyClass, Late
  <2>5. Mine(t, Depth(t) - 1, c)
    BY <2>1, NobodyWorks
  <2>6. RunsOK(c)'
    <3>1. RunsOK(c)
      BY <1>1, <1>2, TopOK
    <3> QED BY <2>1, <2>3, <3>1 DEF RunsOK
  <2>7. PICK f \in FrameSet :
           /\ f.fn = Top(t).fn /\ f.c = Top(t).c /\ f.pc = "super"
           /\ stack' = [stack EXCEPT ![t] = <<f>> \o Tail(stack[t])]
           /\ answer' = [answer EXCEPT ![t] = None]
    <3>1. "super" \in Label
      BY DEF Label
    <3> QED BY <1>1, <1>3, <2>1, <3>1, GotoEffect
  <2>8. f.c = c /\ ~Inits(f) /\ ~Waits(f) /\ ~PastSuper(f)
    BY <1>2, <2>2, <2>7 DEF Inits, Waits, PastSuper
  <2>9. status'[c] # "Initializing"
    BY <2>3
  <2> QED BY <1>1, <1>2, <2>3, <2>4, <2>5, <2>6, <2>7, <2>8, <2>9, MoveKeeps
<1>7. CASE K!VerifySuper(t)
  <2>1. Verifies(Top(t))
    BY <1>3, <1>7 DEF K!VerifySuper, K!At, Verifies
  <2>2. PICK d : d = Super[c]
    OBVIOUS
  <2>3. CASE d # None /\ K!Attempt(t, d)
    <3>1. d \in Class
      BY <1>2, <2>2, <2>3, ClassAssumption DEF K!ClassAssumption
    <3> QED BY <1>1, <2>1, <2>3, <3>1, AttemptKeeps
  <2>4. CASE K!Reject(t, d)
    BY <1>1, <2>1, <2>4, RejectKeeps
  <2>5. CASE /\ K!Goto(t, IF c \in IsInterface THEN "perform" ELSE "interfaces")
             /\ UNCHANGED <<program, K!classes, failed>>
    <3>1. ClassesSame
      BY <2>5 DEF K!classes, ClassesSame
    <3>2. PICK l \in {"interfaces", "perform"} : K!GotoAt(t, l, Top(t).i)
      BY <1>3, <2>5 DEF K!Goto
    <3>3. l \in Label
      BY DEF Label
    <3> QED BY <1>1, <1>2, <1>3, <2>1, <3>1, <3>2, <3>3, MoveSame
  <2> QED BY <1>2, <1>7, <2>2, <2>3, <2>4, <2>5 DEF K!VerifySuper
<1>8. CASE K!VerifyInterfaces(t)
  <2>1. Verifies(Top(t)) /\ "perform" \in Label /\ "interfaces" \in Label
    BY <1>3, <1>8 DEF K!VerifyInterfaces, K!At, Verifies, Label
  <2>2. CASE \E i \in Nat \ {0}, l \in {"interfaces", "perform"} :
                K!GotoAt(t, l, i) /\ UNCHANGED <<program, K!classes, failed>>
    <3>1. ClassesSame
      BY <2>2 DEF K!classes, ClassesSame
    <3> QED BY <1>1, <1>2, <2>1, <2>2, <3>1, MoveSame
  <2>3. CASE Top(t).i > Len(IfTable[c])
    BY <1>2, <1>3, <1>8, <2>2, <2>3 DEF K!VerifyInterfaces, K!Goto
  <2>4. CASE ~(Top(t).i > Len(IfTable[c]))
    <3>1. PICK d : d = IfTable[c][Top(t).i]
      OBVIOUS
    <3>2. d \in Class /\ Top(t).i + 1 \in Nat \ {0}
      <4>1. IfTable[c] \in Seq(Class)
        BY <1>2, ClassAssumption DEF K!ClassAssumption
      <4>2. PICK s \in Seq(Class) : s = IfTable[c]
        BY <4>1
      <4>3. PICK i \in Nat \ {0} : i = Top(t).i
        BY <1>3
      <4>4. s[i] \in Class /\ i + 1 \in Nat \ {0}
        BY SMT, <2>4, <4>2, <4>3
      <4> QED BY <3>1, <4>2, <4>3, <4>4
    <3>3. CASE K!Attempt(t, d)
      BY <1>1, <2>1, <3>2, <3>3, AttemptKeeps
    <3>4. CASE K!Reject(t, d)
      BY <1>1, <2>1, <3>4, RejectKeeps
    <3>5. CASE /\ K!GotoAt(t, "interfaces", Top(t).i + 1)
               /\ UNCHANGED <<program, K!classes, failed>>
      BY <2>2, <3>2, <3>5
    <3> QED BY <1>2, <1>3, <1>8, <2>4, <3>1, <3>3, <3>4, <3>5 DEF K!VerifyInterfaces
  <2> QED BY <2>3, <2>4
<1>9. CASE K!PerformClassVerification(t)
  <2>1. Verifies(Top(t)) /\ Works(Top(t)) /\ Top(t).fn # "init"
    BY <1>3, <1>9 DEF K!PerformClassVerification, K!At, Verifies, Works
  <2>2. status[c] = "Verifying"
    BY <1>1, <1>2, <2>1, TopOK
  <2>3. PICK ok \in BOOLEAN, s \in {"Verified", "Initialized", "ErrorResolved"} :
           s # "Initialized" /\ K!SetStatus(c, s) /\ K!Return(t, ok)
    BY <1>2, <1>9 DEF K!PerformClassVerification
  <2>4. runs' = runs /\ clinit_thread' = clinit_thread /\ program' = program
    BY <1>9 DEF K!PerformClassVerification
  <2>5. Advances(status[c], s)
    BY <2>2, <2>3 DEF Advances
  <2> QED BY <1>1, <1>2, <2>1, <2>3, <2>4, <2>5, ReturnEnds
<1> QED BY <1>4, <1>5, <1>6, <1>7, <1>8, <1>9

------------------------------------------------------------------------------
(* InitializeClass *)

LEMMA LockedTop ==
  ASSUME ClassInv, NEW t \in Thread, K!Locked(t)
  PROVE  /\ stack[t] # <<>> /\ Top(t).fn = "init" /\ Top(t).pc \in {"start", "locked"}
         /\ Plain(Top(t)) /\ ~Works(Top(t)) /\ ~Inits(Top(t))
<1>1. stack[t] # <<>>
  BY DEF K!Locked, K!At
<1>2. Head(stack[t]) = Top(t)
  BY <1>1, AtTop
<1>3. Top(t).fn = "init" /\ Top(t).pc \in {"start", "locked"}
  BY <1>2 DEF K!Locked, K!At
<1>4. Plain(Top(t))
  BY <1>3 DEF Plain
<1> QED BY <1>1, <1>3, <1>4, PlainKinds

\* The calls that find the class initialised, erroneous or being initialised.
LEMMA FoundKeeps ==
  ASSUME ClassInv, NEW t \in Thread,
         K!AlreadyInitialized(t) \/ K!AlreadyErroneous(t) \/ K!InitializingByUs(t)
           \/ K!InitializingByOther(t) \/ K!WaitForInitializeClass(t)
  PROVE  ClassInv'
<1>1. CASE K!AlreadyInitialized(t)
  <2>1. stack[t] # <<>>
    BY <1>1 DEF K!AlreadyInitialized, K!At
  <2>2. PICK c \in Class : c = Top(t).c /\ K!Cls(t) = c
    BY <2>1, AtTop
  <2>3. status[c] = "Initialized" /\ K!Return(t, TRUE) /\ ClassesSame
    BY <1>1, <2>2 DEF K!AlreadyInitialized, K!IsInitialized, K!classes, ClassesSame
  <2>4. K!Usable(t, c)
    BY <2>3 DEF K!Usable, K!IsInitialized
  <2>5. status[c] # "Initializing"
    BY <2>3
  <2> QED BY <2>1, <2>2, <2>3, <2>4, <2>5, ReturnSame
<1>2. CASE K!AlreadyErroneous(t)
  <2>1. K!Locked(t)
    BY <1>2 DEF K!AlreadyErroneous
  <2>2. stack[t] # <<>> /\ ~Inits(Top(t))
    BY <2>1, LockedTop
  <2>3. PICK c \in Class : c = Top(t).c /\ K!Cls(t) = c
    BY <2>2, AtTop
  <2>4. K!IsErroneous(c) /\ K!Return(t, FALSE) /\ ClassesSame
    BY <1>2, <2>3 DEF K!AlreadyErroneous, K!classes, ClassesSame
  <2> QED BY <2>2, <2>3, <2>4, ReturnSame
<1>3. CASE K!InitializingByUs(t)
  <2>1. K!Locked(t)
    BY <1>3 DEF K!InitializingByUs
  <2>2. stack[t] # <<>> /\ ~Inits(Top(t))
    BY <2>1, LockedTop
  <2>3. PICK c \in Class : c = Top(t).c /\ K!Cls(t) = c
    BY <2>2, AtTop
  <2>4. /\ status[c] = "Initializing" /\ clinit_thread[c] = t
        /\ K!Return(t, TRUE) /\ ClassesSame
    BY <1>3, <2>3 DEF K!InitializingByUs, K!classes, ClassesSame
  <2>5. K!Usable(t, c)
    BY <2>4 DEF K!Usable
  <2> QED BY <2>2, <2>3, <2>4, <2>5, ReturnSame
<1>4. CASE K!InitializingByOther(t)
  <2>1. K!Locked(t)
    BY <1>4 DEF K!InitializingByOther
  <2>2. stack[t] # <<>> /\ ~Works(Top(t)) /\ Top(t).fn = "init"
    BY <2>1, LockedTop
  <2>3. PICK c \in Class : c = Top(t).c /\ K!Cls(t) = c
    BY <2>2, AtTop
  <2>4. PICK i \in Nat \ {0} : K!Index(t) = i
    BY <2>2, AtTop
  <2>5. status[c] = "Initializing" /\ K!GotoAt(t, "waited", i) /\ ClassesSame
    BY <1>4, <2>3, <2>4 DEF K!InitializingByOther, K!Goto, K!classes, ClassesSame
  <2>6. "waited" \in Label
    BY DEF Label
  <2> QED BY <2>2, <2>3, <2>5, <2>6, MoveSame
<1>5. CASE K!WaitForInitializeClass(t)
  <2>1. stack[t] # <<>>
    BY <1>5 DEF K!WaitForInitializeClass, K!At
  <2>2. PICK c \in Class : c = Top(t).c /\ K!Cls(t) = c
    BY <2>1, AtTop
  <2>3. Waits(Top(t)) /\ ~Inits(Top(t))
    BY <1>5, <2>1, AtTop DEF K!WaitForInitializeClass, K!At, Waits, Inits
  <2>4. status[c] \in Late
    BY <2>1, <2>2, <2>3, TopOK
  <2>5. ClassesSame
    <3>1. failed' = failed
      <4>1. failed = FALSE
        BY DEF ClassInv
      <4> QED BY <1>5, <2>2, <2>4, <4>1 DEF K!WaitForInitializeClass, Late
    <3> QED BY <1>5, <3>1 DEF K!WaitForInitializeClass, K!classes, ClassesSame
  <2>6. CASE status[c] = "Initializing"
    <3>1. stack' = stack /\ answer' = answer
      BY <1>5, <2>2, <2>6 DEF K!WaitForInitializeClass
    <3> QED BY <2>5, <3>1, StillKeeps
  <2>7. CASE status[c] # "Initializing"
    <3>1. K!Return(t, K!IsInitialized(c))
      BY <1>5, <2>2, <2>7 DEF K!WaitForInitializeClass
    <3>2. CASE status[c] = "Initialized"
      <4>1. K!IsInitialized(c) = TRUE /\ K!Usable(t, c)
        BY <3>2 DEF K!IsInitialized, K!Usable
      <4>2. K!Return(t, TRUE)
        BY <3>1, <4>1
      <4> QED BY <2>1, <2>2, <2>3, <2>5, <4>1, <4>2, ReturnSame
    <3>3. CASE status[c] # "Initialized"
      <4>1. K!IsInitialized(c) = FALSE /\ K!IsErroneous(c)
        BY <2>4, <2>7, <3>3 DEF K!IsInitialized, K!IsErroneous, Late
      <4>2. K!Return(t, FALSE)
        BY <3>1, <4>1
      <4> QED BY <2>1, <2>2, <2>3, <2>5, <4>1, <4>2, ReturnSame
    <3> QED BY <3>2, <3>3
  <2> QED BY <2>6, <2>7
<1> QED BY <1>1, <1>2, <1>3, <1>4, <1>5

\* The steps that end the initialisation of a class.
LEMMA EndKeeps ==
  ASSUME ClassInv, NEW t \in Thread,
         K!DescriptorsInvalid(t) \/ K!SupertypeFailed(t) \/ K!ClinitDone(t)
  PROVE  ClassInv'
<1>1. CASE K!DescriptorsInvalid(t)
  <2>1. K!Locked(t)
    BY <1>1 DEF K!DescriptorsInvalid
  <2>2. stack[t] # <<>>
    BY <2>1, LockedTop
  <2>3. PICK c \in Class : c = Top(t).c /\ K!Cls(t) = c
    BY <2>2, AtTop
  <2>4. /\ status[c] = "Verified" /\ K!SetStatus(c, "ErrorResolved") /\ K!Return(t, FALSE)
        /\ runs' = runs /\ clinit_thread' = clinit_thread /\ program' = program
    BY <1>1, <2>3 DEF K!DescriptorsInvalid
  <2>5. Advances(status[c], "ErrorResolved")
    BY <2>4 DEF Advances
  <2> QED BY <2>2, <2>3, <2>4, <2>5, ReturnEnds
<1>2. CASE K!SupertypeFailed(t)
  <2>1. stack[t] # <<>>
    BY <1>2 DEF K!SupertypeFailed, K!At
  <2>2. PICK c \in Class : c = Top(t).c /\ K!Cls(t) = c
    BY <2>1, AtTop
  <2>3. Inits(Top(t)) /\ Works(Top(t))
    BY <1>2, <2>1, AtTop DEF K!SupertypeFailed, K!At, Inits, Works
  <2>4. status[c] = "Initializing"
    BY <2>1, <2>2, <2>3, TopOK
  <2>5. /\ K!SetStatus(c, "ErrorResolved") /\ K!Return(t, FALSE)
        /\ runs' = runs /\ clinit_thread' = clinit_thread /\ program' = program
    BY <1>2, <2>2 DEF K!SupertypeFailed
  <2>6. Advances(status[c], "ErrorResolved")
    BY <2>4 DEF Advances
  <2> QED BY <2>1, <2>2, <2>3, <2>5, <2>6, ReturnEnds
<1>3. CASE K!ClinitDone(t)
  <2>1. stack[t] # <<>>
    BY <1>3 DEF K!ClinitDone, K!At
  <2>2. PICK c \in Class : c = Top(t).c /\ K!Cls(t) = c
    BY <2>1, AtTop
  <2>3. Top(t).fn = "init" /\ Top(t).pc = "clinit"
    BY <1>3, <2>1, AtTop DEF K!ClinitDone, K!At
  <2>4. Inits(Top(t)) /\ Works(Top(t))
    BY <2>3 DEF Inits, Works
  <2>5. status[c] = "Initializing" /\ runs[c] = 1
    BY <2>1, <2>2, <2>3, <2>4, TopOK
  <2>6. PICK ok \in BOOLEAN, s \in {"Verified", "Initialized", "ErrorResolved"} :
           /\ K!SetStatus(c, s) /\ K!Return(t, ok)
           /\ IF ok THEN s = "Initialized" ELSE s = "ErrorResolved"
    BY <1>3, <2>2 DEF K!ClinitDone
  <2>7. runs' = runs /\ clinit_thread' = clinit_thread /\ program' = program
    BY <1>3 DEF K!ClinitDone
  <2>8. Advances(status[c], s)
    BY <2>5, <2>6 DEF Advances
  <2> QED BY <2>1, <2>2, <2>4, <2>5, <2>6, <2>7, <2>8, ReturnEnds
<1> QED BY <1>1, <1>2, <1>3

\* The step that takes the class.
LEMMA InitBeginKeeps ==
  ASSUME ClassInv, NEW t \in Thread, K!InitBegin(t) PROVE ClassInv'
<1>1. stack[t] # <<>> /\ Top(t).fn = "init" /\ ~Inits(Top(t))
  <2>1. K!Locked(t)
    BY DEF K!InitBegin
  <2> QED BY <2>1, LockedTop
<1>2. PICK c \in Class : c = Top(t).c /\ K!Cls(t) = c
  BY <1>1, AtTop
<1>3. PICK i \in Nat \ {0} : K!Index(t) = i
  BY <1>1, AtTop
<1>4. Types /\ RunsOK(c)
  BY <1>1, <1>2, AtTop, TopOK
<1>5. /\ status[c] = "Verified" /\ K!SetStatus(c, "Initializing") /\ program' = program
      /\ clinit_thread' = [clinit_thread EXCEPT ![c] = t]
      /\ runs' = IF c \in IsInterface THEN [runs EXCEPT ![c] = runs[c] + 1] ELSE runs
  BY <1>2 DEF K!InitBegin
<1>6. PICK l : l = IF c \in IsInterface THEN "clinit" ELSE "super"
  OBVIOUS
<1>7. K!GotoAt(t, l, i) /\ l \in Label
  BY <1>2, <1>3, <1>6 DEF K!InitBegin, K!Goto, Label
<1>8. /\ status' = [d \in Class |-> status'[d]] /\ status'[c] = "Initializing"
      /\ failed' = FALSE /\ \A d \in Class \ {c} : status'[d] = status[d]
  <2>1. status[c] = "Verified"
    BY <1>5
  <2>2. Advances(status[c], "Initializing")
    BY <2>1 DEF Advances
  <2> QED BY <1>5, <2>2, SetStatusEffect
<1>9. /\ clinit_thread' = [d \in Class |-> clinit_thread'[d]] /\ clinit_thread'[c] = t
      /\ \A d \in Class \ {c} : clinit_thread'[d] = clinit_thread[d]
  BY <1>4, <1>5 DEF Types
<1>10. runs[c] = 0
  BY <1>4, <1>5 DEF RunsOK
<1>11. /\ runs' = [d \in Class |-> runs'[d]]
       /\ runs'[c] = IF c \in IsInterface THEN 1 ELSE 0
       /\ \A d \in Class \ {c} : runs'[d] = runs[d]
  <2>1. CASE c \in IsInterface
    <3>1. runs' = [runs EXCEPT ![c] = 1]
      <4>1. runs[c] + 1 = 1
        BY SMT, <1>10
      <4> QED BY <1>5, <2>1, <4>1
    <3> QED BY <1>4, <2>1, <3>1 DEF Types
  <2>2. CASE c \notin IsInterface
    BY <1>4, <1>5, <1>10, <2>2 DEF Types
  <2> QED BY <2>1, <2>2
<1>12. NewTypes
  BY <1>5, <1>8, <1>9, <1>11 DEF NewTypes
<1>13. OnlyClass(c)
  BY <1>5, <1>8, <1>9, <1>11 DEF OnlyClass, Late
<1>14. Mine(t, Depth(t) - 1, c)
  BY <1>5, NobodyWorks
<1>15. RunsOK(c)'
  BY <1>8, <1>11 DEF RunsOK
<1>16. PICK f \in FrameSet :
          /\ f.fn = Top(t).fn /\ f.c = Top(t).c /\ f.pc = l
          /\ stack' = [stack EXCEPT ![t] = <<f>> \o Tail(stack[t])]
          /\ answer' = [answer EXCEPT ![t] = None]
  BY <1>1, <1>7, GotoEffect
<1>17. f.c = c /\ Inits(f) /\ ~Verifies(f) /\ ~Waits(f)
  BY <1>1, <1>2, <1>6, <1>16 DEF Inits, Verifies, Waits
<1>18. PastSuper(f) => c \in IsInterface
  BY <1>6, <1>16 DEF PastSuper
<1>19. runs'[c] = IF f.pc = "clinit" THEN 1 ELSE 0
  BY <1>6, <1>11, <1>16
<1> QED BY <1>1, <1>2, <1>8, <1>9, <1>12, <1>13, <1>14, <1>15, <1>16, <1>17, <1>18, <1>19,
           MoveKeeps

\* The step that starts <clinit> of a class that is no interface.
LEMMA InterfacesDoneKeeps ==
  ASSUME ClassInv, NEW t \in Thread, K!InterfacesDone(t) PROVE ClassInv'
<1>1. stack[t] # <<>>
  BY DEF K!InterfacesDone, K!At
<1>2. Top(t).fn = "init" /\ Top(t).pc = "interfaces"
  BY <1>1, AtTop DEF K!InterfacesDone, K!At
<1>3. PICK c \in Class : c = Top(t).c /\ K!Cls(t) = c
  BY <1>1, AtTop
<1>4. Inits(Top(t)) /\ Works(Top(t)) /\ PastSuper(Top(t))
  BY <1>2 DEF Inits, Works, PastSuper
<1>5. status[c] = "Initializing" /\ clinit_thread[c] = t /\ runs[c] = 0
  BY <1>1, <1>2, <1>3, <1>4, TopOK
<1>6. /\ status' = status /\ clinit_thread' = clinit_thread /\ program' = program
      /\ failed' = failed /\ failed = FALSE /\ Types
  BY DEF K!InterfacesDone, ClassInv
<1>7. /\ runs' = [d \in Class |-> runs'[d]] /\ runs'[c] = 1
      /\ \A d \in Class \ {c} : runs'[d] = runs[d]
  <2>1. runs[c] + 1 = 1
    BY SMT, <1>5
  <2>2. runs' = [runs EXCEPT ![c] = 1]
    BY <1>3, <2>1 DEF K!InterfacesDone
  <2> QED BY <1>6, <2>2 DEF Types
<1>8. NewTypes /\ OnlyClass(c)
  BY <1>5, <1>6, <1>7 DEF NewTypes, OnlyClass, Types
<1>9. Mine(t, Depth(t) - 1, c)
  BY <1>1, <1>3, <1>4, MineTop
<1>10. RunsOK(c)'
  BY <1>5, <1>6, <1>7 DEF RunsOK
<1>11. PICK f \in FrameSet :
          /\ f.fn = Top(t).fn /\ f.c = Top(t).c /\ f.pc = "clinit"
          /\ stack' = [stack EXCEPT ![t] = <<f>> \o Tail(stack[t])]
          /\ answer' = [answer EXCEPT ![t] = None]
  <2>1. "clinit" \in Label /\ 1 \in Nat \ {0} /\ K!GotoAt(t, "clinit", 1)
    <3>1. 1 \in Nat \ {0}
      BY SMT
    <3> QED BY <3>1 DEF Label, K!InterfacesDone
  <2> QED BY <1>1, <2>1, GotoEffect
<1>12. f.c = c /\ Inits(f) /\ ~Verifies(f) /\ ~Waits(f)
  BY <1>2, <1>3, <1>11 DEF Inits, Verifies, Waits
<1>13. c \notin IsInterface /\ Super[c] # None => UsableBelow(t, Depth(t), Super[c])
  BY <1>1, <1>3, <1>4, TopOK
<1>14. /\ status'[c] = "Initializing" /\ clinit_thread'[c] = t
       /\ runs'[c] = IF f.pc = "clinit" THEN 1 ELSE 0
  BY <1>5, <1>6, <1>7, <1>11
<1> QED BY <1>1, <1>3, <1>8, <1>9, <1>10, <1>11, <1>12, <1>13, <1>14, MoveKeeps

\* The superclass of a class whose InitializeClass has answered true for it is usable
\* further out: it is initialised, or being initialised by an outer frame.
LEMMA SuperDoneKeeps ==
  ASSUME ClassInv, NEW t \in Thread, K!SuperDone(t) PROVE ClassInv'
<1>1. stack[t] # <<>>
  BY DEF K!SuperDone, K!At
<1>2. Top(t).fn = "init" /\ Top(t).pc = "super"
  BY <1>1, AtTop DEF K!SuperDone, K!At
<1>3. PICK c \in Class : c = Top(t).c /\ K!Cls(t) = c
  BY <1>1, AtTop
<1>4. PICK i \in Nat \ {0} : K!Index(t) = i
  BY <1>1, AtTop
<1>5. Inits(Top(t)) /\ Top(t).pc # "clinit" /\ ToSuper(Top(t))
  BY <1>2 DEF Inits, ToSuper
<1>6. ClassesSame /\ K!GotoAt(t, "interfaces", i) /\ "interfaces" \in Label
  BY <1>4 DEF K!SuperDone, K!Goto, K!classes, ClassesSame, Label
<1>7. ASSUME Super[c] # None PROVE UsableBelow(t, Depth(t), Super[c])
  <2>1. PICK d \in Class \ {c} : d = Super[c]
    BY <1>7, ClassAssumption DEF K!ClassAssumption
  <2>2. K!Usable(t, d)
    <3>1. CASE answer[t] # None
      <4>1. answer[t].ok
        BY <3>1 DEF K!SuperDone, K!Returned
      <4>2. answer[t].fn = "init" /\ answer[t].c = d
        <5>1. LinkOK(t)
          BY DEF ClassInv
        <5> QED BY <1>1, <1>3, <1>5, <2>1, <3>1, <5>1 DEF LinkOK
      <4>3. AnswerOK(t)
        BY DEF ClassInv
      <4> QED BY <3>1, <4>1, <4>2, <4>3 DEF AnswerOK
    <3>2. CASE answer[t] = None
      <4>1. d \in {None} \cup {e \in Class : K!IsInitialized(e)}
        BY <1>3, <2>1, <3>2 DEF K!SuperDone, K!Returned
      <4> QED BY <1>7, <2>1, <4>1 DEF K!Usable
    <3> QED BY <3>1, <3>2
  <2>3. CASE status[d] = "Initialized"
    BY <2>1, <2>3 DEF UsableBelow
  <2>4. CASE status[d] = "Initializing" /\ clinit_thread[d] = t
    <3>1. ClassOK(d)
      BY DEF ClassInv
    <3>2. PICK q \in 1..Depth(t) : Inits(Fr(t, q)) /\ Fr(t, q).c = d
      BY <2>4, <3>1 DEF ClassOK
    <3>3. Types /\ Depth(t) \in Nat /\ Fr(t, Depth(t)) = Top(t)
      BY <1>1, TopFrame DEF ClassInv
    <3>4. q # Depth(t)
      BY <1>3, <2>1, <3>2, <3>3
    <3>5. q \in 1..Depth(t) - 1
      BY SMT, <3>3, <3>4
    <3> QED BY <2>1, <3>2, <3>5 DEF UsableBelow
  <2> QED BY <2>2, <2>3, <2>4 DEF K!Usable, K!IsInitialized
<1> QED BY <1>1, <1>3, <1>5, <1>6, <1>7, MoveSame

\* The steps over the supertypes and the uses of <clinit>.
LEMMA InitCallKeeps ==
  ASSUME ClassInv, NEW t \in Thread,
         K!InitVerify(t) \/ K!InitSuper(t) \/ K!InitInterface(t) \/ K!ClinitUses(t)
  PROVE  ClassInv'
<1>1. stack[t] # <<>>
  BY DEF K!InitVerify, K!InitSuper, K!InitInterface, K!ClinitUses, K!At
<1>2. PICK c \in Class : c = Top(t).c /\ K!Cls(t) = c
  BY <1>1, AtTop
<1>3. PICK i \in Nat \ {0} : i = Top(t).i /\ K!Index(t) = i
  BY <1>1, AtTop
<1>4. Head(stack[t]) = Top(t) /\ "verify" \in Fn /\ "init" \in Fn /\ "iface" \in Fn
  BY <1>1, AtTop DEF Fn
<1>5. CASE K!InitVerify(t)
  <2>1. Top(t).fn = "init" /\ Top(t).pc = "start" /\ ClassesSame /\ "locked" \in Label
    BY <1>4, <1>5 DEF K!InitVerify, K!At, K!classes, ClassesSame, Label
  <2>2. PICK f \in FrameSet : /\ f = [stack[t][1] EXCEPT !.pc = "locked"]
                             /\ f.fn = Top(t).fn /\ f.c = Top(t).c /\ f.pc = "locked"
    <3>1. PICK l \in Label : l = "locked"
      BY <2>1
    <3>2. PICK f \in FrameSet : /\ f = [stack[t][1] EXCEPT !.pc = l]
                               /\ f.fn = Top(t).fn /\ f.c = Top(t).c /\ f.pc = l
      BY <1>1, CallerAt
    <3> QED BY <3>1, <3>2
  <2>3. Plain(f) /\ Plain(Top(t))
    BY <2>1, <2>2 DEF Plain
  <2>4. ~ToSuper(f)
    BY <2>3, PlainKinds
  <2>5. Calling(t, "verify", c, f)
    BY <1>2, <1>5, <2>2 DEF K!InitVerify, K!Call, Calling
  <2> QED BY <1>1, <1>4, <2>1, <2>2, <2>3, <2>4, <2>5, CallSame
<1>6. CASE K!InitSuper(t)
  <2>1. Top(t).fn = "init" /\ Top(t).pc = "super" /\ ClassesSame /\ "super" \in Label
    BY <1>4, <1>6 DEF K!InitSuper, K!At, K!classes, ClassesSame, Label
  <2>2. PICK f \in FrameSet : /\ f = [stack[t][1] EXCEPT !.pc = "super"]
                             /\ f.fn = Top(t).fn /\ f.c = Top(t).c /\ f.pc = "super"
    <3>1. PICK l \in Label : l = "super"
      BY <2>1
    <3>2. PICK f \in FrameSet : /\ f = [stack[t][1] EXCEPT !.pc = l]
                               /\ f.fn = Top(t).fn /\ f.c = Top(t).c /\ f.pc = l
      BY <1>1, CallerAt
    <3> QED BY <3>1, <3>2
  <2>3. Alike(f, Top(t))
    BY <2>1, <2>2 DEF Alike
  <2>4. PICK d \in Class : d = Super[c] /\ Super[c] # None
    BY <1>2, <1>6, ClassAssumption DEF K!InitSuper, K!ClassAssumption
  <2>5. Calling(t, "init", d, f)
    BY <1>2, <1>6, <2>2, <2>4 DEF K!InitSuper, K!Call, Calling
  <2>6. Super[f.c] # None /\ d = Super[f.c]
    BY <1>2, <2>2, <2>4
  <2> QED BY <1>1, <1>4, <2>1, <2>2, <2>3, <2>5, <2>6, CallSame
<1>7. PICK h \in FrameSet : h = [stack[t][1] EXCEPT !.i = K!Index(t) + 1] /\ Alike(h, Top(t))
  BY <1>1, CallerNext
<1>8. h.fn = Top(t).fn /\ h.c = Top(t).c /\ (ToSuper(h) => ToSuper(Top(t)))
  BY <1>7, AlikeKinds DEF Alike
<1>9. CASE K!InitInterface(t)
  <2>1. Top(t).fn = "init" /\ Top(t).pc = "interfaces" /\ ClassesSame /\ "interfaces" \in Label
    BY <1>4, <1>9 DEF K!InitInterface, K!At, K!classes, ClassesSame, Label
  <2>2. PICK d : d = Interfaces[c][i]
    OBVIOUS
  <2>3. d \in Class /\ i + 1 \in Nat \ {0}
    <3>1. PICK s \in Seq(Class) : s = Interfaces[c]
      BY <1>2, ClassAssumption DEF K!ClassAssumption
    <3>2. i <= Len(s)
      BY <1>2, <1>3, <1>9, <3>1 DEF K!InitInterface
    <3>3. s[i] \in Class /\ i + 1 \in Nat \ {0}
      BY SMT, <3>2
    <3> QED BY <2>2, <3>1, <3>3
  <2>4. Inits(Top(t)) /\ PastSuper(Top(t)) /\ Top(t).pc # "clinit" /\ ~ToSuper(Top(t))
    BY <2>1 DEF Inits, PastSuper, ToSuper
  <2>5. CASE K!GotoAt(t, "interfaces", i + 1)
    <3>1. c \notin IsInterface /\ Super[c] # None => UsableBelow(t, Depth(t), Super[c])
      BY <1>1, <1>2, <2>4, TopOK
    <3> QED BY <1>1, <1>2, <2>1, <2>3, <2>4, <2>5, <3>1, MoveSame
  <2>6. CASE Calling(t, "iface", d, h)
    BY <1>1, <1>4, <1>7, <1>8, <2>1, <2>3, <2>4, <2>6, CallSame
  <2> QED BY <1>2, <1>3, <1>7, <1>9, <2>2, <2>5, <2>6 DEF K!InitInterface, K!CallNext, Calling
<1>10. CASE K!ClinitUses(t)
  <2>1. Top(t).fn = "init" /\ Top(t).pc = "clinit" /\ ClassesSame
    BY <1>4, <1>10 DEF K!ClinitUses, K!At, K!classes, ClassesSame
  <2>2. PICK d : d = program[c][i]
    OBVIOUS
  <2>3. d \in Class
    <3>1. PICK s \in Seq(Class) : s = program[c]
      BY <1>2 DEF ClassInv, Types
    <3>2. i <= Len(s)
      BY <1>2, <1>3, <1>10, <3>1 DEF K!ClinitUses
    <3>3. s[i] \in Class
      BY SMT, <3>2
    <3> QED BY <2>2, <3>1, <3>3
  <2>4. ~ToSuper(Top(t))
    BY <2>1 DEF ToSuper
  <2>5. Calling(t, "init", d, h)
    BY <1>2, <1>3, <1>7, <1>10, <2>2 DEF K!ClinitUses, K!CallNext, Calling
  <2> QED BY <1>1, <1>4, <1>7, <1>8, <2>1, <2>3, <2>4, <2>5, CallSame
<1> QED BY <1>5, <1>6, <1>9, <1>10

------------------------------------------------------------------------------
(* InitializeDefaultInterfaceRecursive, and the outermost calls *)

LEMMA InterfaceKeeps ==
  ASSUME ClassInv, NEW t \in Thread,
         K!SuperInterface(t) \/ K!InitializeInterface(t) \/ K!MarkInterface(t)
           \/ K!InterfaceFailed(t)
  PROVE  ClassInv'
<1>1. stack[t] # <<>>
  BY DEF K!SuperInterface, K!InitializeInterface, K!MarkInterface, K!InterfaceFailed, K!At
<1>2. Head(stack[t]) = Top(t) /\ "init" \in Fn /\ "iface" \in Fn
  BY <1>1, AtTop DEF Fn
<1>3. Top(t).fn = "iface"
  BY <1>2 DEF K!SuperInterface, K!InitializeInterface, K!MarkInterface, K!InterfaceFailed, K!At
<1>4. Plain(Top(t)) /\ ~Inits(Top(t)) /\ Top(t).fn # "init"
  BY <1>3 DEF Plain, Inits
<1>5. PICK c \in Class : c = Top(t).c /\ K!Cls(t) = c
  BY <1>1, AtTop
<1>6. PICK i \in Nat \ {0} : i = Top(t).i /\ K!Index(t) = i
  BY <1>1, AtTop
<1>7. CASE K!SuperInterface(t)
  <2>1. ClassesSame /\ "start" \in Label
    BY <1>7 DEF K!SuperInterface, K!classes, ClassesSame, Label
  <2>2. PICK d : d = Interfaces[c][i]
    OBVIOUS
  <2>3. d \in Class /\ i + 1 \in Nat \ {0}
    <3>1. PICK s \in Seq(Class) : s = Interfaces[c]
      BY ClassAssumption DEF K!ClassAssumption
    <3>2. i <= Len(s)
      BY <1>5, <1>6, <1>7, <3>1 DEF K!SuperInterface
    <3>3. s[i] \in Class /\ i + 1 \in Nat \ {0}
      BY SMT, <3>2
    <3> QED BY <2>2, <3>1, <3>3
  <2>4. CASE K!GotoAt(t, "start", i + 1)
    BY <1>1, <1>3, <1>5, <2>1, <2>3, <2>4, MoveSame
  <2>5. PICK h \in FrameSet : h = [stack[t][1] EXCEPT !.i = K!Index(t) + 1] /\ Alike(h, Top(t))
    BY <1>1, CallerNext
  <2>6. h.fn = Top(t).fn /\ h.c = Top(t).c /\ ~ToSuper(h)
    BY <1>3, <2>5 DEF Alike, ToSuper
  <2>7. CASE Calling(t, "iface", d, h)
    BY <1>1, <1>2, <2>1, <2>3, <2>5, <2>6, <2>7, CallSame
  <2> QED BY <1>5, <1>6, <1>7, <2>2, <2>4, <2>5, <2>7 DEF K!SuperInterface, K!CallNext, Calling
<1>8. CASE K!InitializeInterface(t)
  <2>1. ClassesSame
    BY <1>8 DEF K!InitializeInterface, K!classes, ClassesSame
  <2>2. PICK l \in Label : l = "mark"
    BY DEF Label
  <2>3. PICK f \in FrameSet : /\ f = [stack[t][1] EXCEPT !.pc = l]
                             /\ f.fn = Top(t).fn /\ f.c = Top(t).c /\ f.pc = l
    BY <1>1, CallerAt
  <2>4. Plain(f) /\ ~ToSuper(f)
    BY <1>3, <2>3 DEF Plain, ToSuper
  <2>5. Calling(t, "init", c, f)
    BY <1>5, <1>8, <2>2, <2>3 DEF K!InitializeInterface, K!Call, Calling
  <2> QED BY <1>1, <1>2, <1>4, <2>1, <2>3, <2>4, <2>5, CallSame
<1>9. CASE K!MarkInterface(t)
  <2>1. ClassesSame /\ K!Return(t, TRUE)
    BY <1>9 DEF K!MarkInterface, ClassesSame
  <2> QED BY <1>1, <1>4, <1>5, <2>1, ReturnSame
<1>10. CASE K!InterfaceFailed(t)
  <2>1. ClassesSame /\ K!Return(t, FALSE)
    BY <1>10 DEF K!InterfaceFailed, K!classes, ClassesSame
  <2> QED BY <1>1, <1>4, <1>5, <2>1, ReturnSame
<1> QED BY <1>7, <1>8, <1>9, <1>10

LEMMA BeginKeeps ==
  ASSUME ClassInv, NEW t \in Thread, K!Begin(t) PROVE ClassInv'
<1>1. PICK c \in Class, fn \in Fn : stack' = [stack EXCEPT ![t] = <<K!Frame(fn, c)>>]
  BY ClassAssumption DEF K!Begin, K!ClassAssumption, Fn
<1>2. PICK g \in FrameSet : g = K!Frame(fn, c) /\ g.fn = fn /\ g.c = c /\ g.pc = "start"
  BY CalleeFrame
<1>3. /\ stack[t] = <<>> /\ ClassesSame /\ answer' = [answer EXCEPT ![t] = None]
      /\ Types /\ failed' = FALSE /\ ClassOK(c)
  BY DEF K!Begin, K!classes, ClassesSame, ClassInv
<1>4. PICK r : r = <<g>>
  OBVIOUS
<1>5. r \in Seq(FrameSet) /\ Len(r) = 1 /\ r # <<>> /\ Outer(r, 1) = g
  BY SMT, <1>4 DEF Outer
<1>6. stack'[t] = r /\ Others(t) /\ stack' = [u \in Thread |-> stack'[u]]
  BY <1>1, <1>2, <1>3, <1>4 DEF Types, Others
<1>7. StackTyped
  BY <1>3, <1>5, <1>6 DEF StackTyped, Types, Others
<1>8. Types' /\ OthersAnswers(t) /\ answer'[t] = None
  BY <1>3, <1>7, SameTypes
<1>9. Depth(t) = 0 /\ Depth(t)' = 1 /\ NewFr(t, 1) = g
  <2>1. Len(<<>>) = 0
    BY SMT
  <2> QED BY <1>3, <1>5, <1>6, <2>1 DEF Depth, NewFr
<1>10. /\ 0 \in Nat /\ 0 <= 0 /\ 0 <= 1 /\ 1..0 = {} /\ 0 + 1..0 = {}
       /\ (\A p \in 0 + 1..1 : p = 1) /\ 1..1 - 1 = {}
  BY SMT
<1>11. OnlyClass(c) /\ SameClass(c) /\ Below(t, 0)
  BY <1>3, <1>10, SameClasses DEF Below
<1>12. Plain(g)
  BY <1>2 DEF Plain
<1>13. NewFrames(t, 0, c)
  <2>1. FrameOK(t, 1)'
    BY <1>9, <1>12, FramePlain
  <2>2. ~Works(NewFr(t, 1))
    BY <1>9, <1>12, PlainKinds
  <2> QED BY <1>9, <1>10, <2>1, <2>2 DEF NewFrames
<1>14. ClassOK(c)'
  <2>1. ASSUME NEW u \in Thread, NEW q \in 1..Depth(u)
        PROVE  q \in 1..Depth(u)' /\ Fr(u, q)' = Fr(u, q)
    <3>1. u # t
      BY <1>9, <1>10
    <3> QED BY <1>6, <3>1 DEF Others, Depth, Fr
  <2>2. status'[c] = status[c] /\ runs'[c] = runs[c] /\ clinit_thread'[c] = clinit_thread[c]
    BY <1>11 DEF SameClass
  <2> QED BY <1>3, <2>1, <2>2 DEF ClassOK
<1>15. LinkOK(t)' /\ AnswerOK(t)'
  BY <1>8, <1>9, <1>10 DEF LinkOK, AnswerOK
<1> QED BY <1>3, <1>6, <1>8, <1>9, <1>10, <1>11, <1>13, <1>14, <1>15, StepKeeps

------------------------------------------------------------------------------
(* The theorem *)

LEMMA ClassInvInit == K!Init => ClassInv
<1> SUFFICES ASSUME K!Init PROVE ClassInv
  OBVIOUS
<1>1. /\ program \in [Class -> Seq(Class)] /\ failed = FALSE
      /\ \A t \in Thread : stack[t] = <<>> /\ answer[t] = None
      /\ \A c \in Class : status[c] = "Resolved" /\ runs[c] = 0
  BY ClassAssumption DEF K!Init, K!ClassAssumption
<1>2. <<>> \in Seq(FrameSet) /\ Len(<<>>) = 0 /\ 1..0 = {} /\ 1..0 - 1 = {}
  BY SMT
<1>3. Types
  BY <1>1, <1>2 DEF Types, K!Init
<1>4. \A t \in Thread : Depth(t) = 0
  BY <1>1, <1>2 DEF Depth
<1>5. WorkersUnique /\ \A t \in Thread : \A p \in 1..Depth(t) : FrameOK(t, p)
  BY <1>2, <1>4 DEF WorkersUnique
<1>6. \A c \in Class : ClassOK(c)
  BY <1>1 DEF ClassOK
<1>7. \A t \in Thread : LinkOK(t) /\ AnswerOK(t)
  BY <1>1, <1>2, <1>4 DEF LinkOK, AnswerOK
<1> QED BY <1>1, <1>3, <1>5, <1>6, <1>7 DEF ClassInv

LEMMA ClassInvNext == ClassInv /\ [K!Next]_K!vars => ClassInv'
<1> SUFFICES ASSUME ClassInv, [K!Next]_K!vars PROVE ClassInv'
  OBVIOUS
<1>1. ASSUME NEW t \in Thread, K!Step(t) PROVE ClassInv'
  BY <1>1, VerifyKeeps, FoundKeeps, EndKeeps, InitBeginKeeps, InterfacesDoneKeeps,
     SuperDoneKeeps, InitCallKeeps, InterfaceKeeps DEF K!Step
<1>2. ASSUME NEW t \in Thread, K!WakeSpuriously(t) PROVE ClassInv'
  <2>1. ClassesSame /\ stack' = stack /\ answer' = answer
    BY <1>2 DEF K!WakeSpuriously, K!classes, K!control, ClassesSame
  <2> QED BY <2>1, StillKeeps
<1>3. CASE UNCHANGED K!vars
  <2>1. ClassesSame /\ stack' = stack /\ answer' = answer
    BY <1>3 DEF K!vars, K!classes, K!control, ClassesSame
  <2> QED BY <2>1, StillKeeps
<1> QED BY <1>1, <1>2, <1>3, BeginKeeps DEF K!Next

LEMMA ClassInvSafe == ClassInv => K!InitializedOnce /\ K!SuperInitializedFirst
<1> SUFFICES ASSUME ClassInv PROVE K!InitializedOnce /\ K!SuperInitializedFirst
  OBVIOUS
<1>1. /\ Types /\ failed = FALSE /\ \A c \in Class : ClassOK(c)
      /\ \A t \in Thread : AnswerOK(t) /\ \A p \in 1..Depth(t) : FrameOK(t, p)
  BY DEF ClassInv
<1>2. K!InitializedOnce
  <2>1. \A c \in Class : runs[c] \in {0, 1} /\ (K!IsInitialized(c) => runs[c] = 1)
    BY <1>1 DEF ClassOK, K!IsInitialized
  <2>2. \A c \in Class : runs[c] <= 1
    BY SMT, <2>1
  <2>3. \A t \in Thread : K!Returned(t) /\ answer[t].fn = "init" =>
           IF answer[t].ok THEN K!Usable(t, answer[t].c) ELSE K!IsErroneous(answer[t].c)
    BY <1>1 DEF AnswerOK, K!Returned
  <2> QED BY <1>1, <2>1, <2>2, <2>3 DEF K!InitializedOnce
<1>3. ASSUME NEW t \in Thread, NEW c \in Class, K!RunsClinit(t, c), c \notin IsInterface,
             Super[c] # None
      PROVE  K!Usable(t, Super[c])
  <2>1. PICK p \in 1..Depth(t) : Fr(t, p).fn = "init" /\ Fr(t, p).c = c /\ Fr(t, p).pc = "clinit"
    <3>1. PICK i \in DOMAIN stack[t] :
             stack[t][i].fn = "init" /\ stack[t][i].c = c /\ stack[t][i].pc = "clinit"
      BY <1>3 DEF K!RunsClinit, K!Frames
    <3>2. PICK s \in Seq(FrameSet) : s = stack[t]
      BY <1>1 DEF Types
    <3>3. Len(s) + 1 - i \in 1..Len(s) /\ Outer(s, Len(s) + 1 - i) = s[i]
      BY SMT, <3>1, <3>2 DEF Outer
    <3>4. PICK p \in 1..Len(s) : Outer(s, p) = s[i]
      BY <3>3
    <3> QED BY <3>1, <3>2, <3>4 DEF Fr, Depth
  <2>2. UsableBelow(t, p, Super[c])
    <3>1. FrameOK(t, p)
      BY <1>1
    <3>2. PastSuper(Fr(t, p))
      BY <2>1 DEF PastSuper
    <3> QED BY <1>3, <2>1, <3>1, <3>2 DEF FrameOK
  <2>3. CASE status[Super[c]] = "Initialized"
    BY <2>3 DEF K!Usable, K!IsInitialized
  <2>4. ASSUME NEW q \in 1..p - 1, Inits(Fr(t, q)), Fr(t, q).c = Super[c]
        PROVE  K!Usable(t, Super[c])
    <3>1. q \in 1..Depth(t)
      BY SMT, <1>1, DepthNat
    <3>2. FrameOK(t, q)
      BY <1>1, <3>1
    <3> QED BY <2>4, <3>2 DEF FrameOK, K!Usable
  <2> QED BY <2>2, <2>3, <2>4 DEF UsableBelow
<1> QED BY <1>2, <1>3 DEF K!SuperInitializedFirst

\* Whatever the classes, their static initialisers and the threads: InitializeClass runs
\* <clinit> at most once, answers true only to a thread that may use the class and false
\* only for an erroneous one, no CHECK of SetStatus fails, and the superclass is usable
\* while <clinit> runs.
THEOREM InitializedOnceHolds == K!Spec => []InitializedOnce
<1>1. ClassInv => InitializedOnce
  BY ClassInvSafe DEF InitializedOnce
<1> QED BY <1>1, ClassInvInit, ClassInvNext, PTL DEF K!Spec

==============================================================================
