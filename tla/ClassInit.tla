------------------------------- MODULE ClassInit -------------------------------
(***************************************************************************)
(* Verification and initialisation of classes by concurrent threads:       *)
(* InitializeClass, WaitForInitializeClass, VerifyClass,                   *)
(* AttemptSupertypeVerification and InitializeDefaultInterfaceRecursive of *)
(* runtime/class_linker.cc, with Class::SetStatus of runtime/mirror.       *)
(*                                                                         *)
(* A thread has a stack of frames, one per call.  What a call does under   *)
(* the class's monitor without calling out is one step, so a monitor has   *)
(* an owner between steps only where InitializeClass keeps it across its   *)
(* call of VerifyClass.  The outcome of the verifier, of                   *)
(* ValidateSuperClassDescriptors and of <clinit> is free; <clinit> uses    *)
(* the classes its program says.  Initialized stands for both kInitialized *)
(* and kVisiblyInitialized; the exceptions thrown are not told apart.      *)
(***************************************************************************)
EXTENDS Integers, Sequences, FiniteSets

CONSTANTS
    Thread,
    Class,
    Super,         \* per class: its superclass or None
    Interfaces,    \* per class: the sequence of its direct interfaces
    IfTable,       \* per class: the sequence of all its interfaces
    IsInterface,   \* the classes that are interfaces
    HasDefault,    \* the interfaces that declare default methods
    Programs,      \* the possible <clinit>s: per class the sequence of classes it uses
    Calls,         \* the classes threads ask for
    MaxCalls,      \* bound on the outermost calls of a thread
    None

\* No class is its own superclass.
ClassAssumption ==
    /\ Super \in [Class -> Class \cup {None}] /\ \A c \in Class : Super[c] # c
    /\ Interfaces \in [Class -> Seq(Class)] /\ IfTable \in [Class -> Seq(Class)]
    /\ Programs \subseteq [Class -> Seq(Class)]
    /\ Calls \subseteq Class
BoundAssumption == MaxCalls \in Nat

VARIABLES
    program,                  \* chosen initially, never changed
    status,                   \* per class: its ClassStatus
    clinit_thread,            \* per class: the thread that runs <clinit>
    recursively_initialized,  \* interfaces with kAccRecursivelyInitialized
    owner,                    \* per class: the owner of its monitor
    waiting,                  \* per thread: the class it waits on, or None
    stack,                    \* per thread: its frames, innermost first
    ret,                      \* per thread: the call that returned last, or None
    runs,                     \* per class: how often <clinit> was started
    calls,                    \* per thread: outermost calls left
    failed                    \* a CHECK of the code did not hold

classes == <<status, clinit_thread, recursively_initialized, runs>>
monitors == <<owner, waiting>>
control == <<stack, ret, calls>>
vars == <<program, classes, monitors, control, failed>>

\* The order of ClassStatus, in which an error is below the rest.
Rank(s) == CASE s = "ErrorResolved" -> 0 [] s = "Resolved" -> 1 [] s = "Verifying" -> 2
             [] s = "Verified" -> 3 [] s = "Initializing" -> 4 [] s = "Initialized" -> 5

IsErroneous(c) == status[c] = "ErrorResolved"
IsVerified(c) == Rank(status[c]) >= Rank("Verified")
IsInitialized(c) == status[c] = "Initialized"

Init ==
    /\ program \in Programs
    /\ status = [c \in Class |-> "Resolved"]
    /\ clinit_thread = [c \in Class |-> None]
    /\ recursively_initialized = {}
    /\ owner = [c \in Class |-> None]
    /\ waiting = [t \in Thread |-> None]
    /\ stack = [t \in Thread |-> <<>>]
    /\ ret = [t \in Thread |-> None]
    /\ runs = [c \in Class |-> 0]
    /\ calls = [t \in Thread |-> MaxCalls]
    /\ failed = FALSE

------------------------------------------------------------------------------
(* Frames *)

Frame(fn, c) == [fn |-> fn, c |-> c, pc |-> "start", i |-> 1]

At(t, fn, l) ==
    /\ stack[t] # <<>> /\ waiting[t] = None
    /\ Head(stack[t]).fn = fn /\ Head(stack[t]).pc = l

Cls(t) == Head(stack[t]).c
Index(t) == Head(stack[t]).i

Returned(t) == ret[t] # None

\* The frame of t continues at l with loop index i, and the last result is consumed.
GotoAt(t, l, i) ==
    /\ stack' = [stack EXCEPT ![t] = <<[@[1] EXCEPT !.pc = l, !.i = i]>> \o Tail(@)]
    /\ ret' = [ret EXCEPT ![t] = None]

Goto(t, l) == GotoAt(t, l, Index(t))

\* The frame of t calls fn(c) and will continue at l.
Call(t, l, fn, c) ==
    /\ stack' = [stack EXCEPT ![t] =
                     <<Frame(fn, c), [@[1] EXCEPT !.pc = l]>> \o Tail(@)]
    /\ ret' = [ret EXCEPT ![t] = None]

\* The same in a loop, which will continue with the next index.
CallNext(t, fn, c) ==
    /\ stack' = [stack EXCEPT ![t] =
                     <<Frame(fn, c), [@[1] EXCEPT !.i = Index(t) + 1]>> \o Tail(@)]
    /\ ret' = [ret EXCEPT ![t] = None]

Return(t, ok) ==
    /\ stack' = [stack EXCEPT ![t] = Tail(@)]
    /\ ret' = [ret EXCEPT ![t] = [fn |-> Head(stack[t]).fn, c |-> Cls(t), ok |-> ok]]

\* The monitor of c can be taken by t now.
Free(t, c) == owner[c] \in {None, t}

NotifyAll(c) == waiting' = [u \in Thread |-> IF waiting[u] = c THEN None ELSE waiting[u]]

\* Mutant of SetStatus: a change to an error does not notify.
SetStatus_SilentError(c, s) ==
    /\ status' = [status EXCEPT ![c] = s]
    /\ UNCHANGED failed
    /\ IF s = "ErrorResolved" THEN UNCHANGED waiting ELSE NotifyAll(c)

\* SetStatus with the CHECKs of CheckSetStatus: the status never goes back, and an
\* erroneous class is not made erroneous again; every change notifies.
SetStatus(c, s) ==
    /\ status' = [status EXCEPT ![c] = s]
    /\ failed' = (failed \/ IF s = "ErrorResolved" THEN IsErroneous(c)
                            ELSE Rank(s) <= Rank(status[c]))
    /\ NotifyAll(c)

------------------------------------------------------------------------------
(* VerifyClass *)

\* InitializeClass of the same class is the caller and holds the monitor around us.
Nested(t) == Len(stack[t]) > 1 /\ stack[t][2].fn = "init" /\ stack[t][2].c = Cls(t)

\* Somebody verifies the class: wait, which gives up the monitor, the caller's hold
\* of it included.
VerifyWait(t) ==
    /\ At(t, "verify", "start") /\ Free(t, Cls(t))
    /\ status[Cls(t)] = "Verifying"
    /\ waiting' = [waiting EXCEPT ![t] = Cls(t)]
    /\ owner' = [owner EXCEPT ![Cls(t)] = None]
    /\ UNCHANGED <<program, classes, control, failed>>

\* The class is verified or erroneous already.
VerifyDone(t) ==
    /\ At(t, "verify", "start") /\ Free(t, Cls(t))
    /\ IsErroneous(Cls(t)) \/ IsVerified(Cls(t))
    /\ Return(t, IsVerified(Cls(t)))
    /\ owner' = [owner EXCEPT ![Cls(t)] = IF Nested(t) THEN t ELSE None]
    /\ UNCHANGED <<program, classes, waiting, calls, failed>>

\* We verify it.  Only the inner hold of the monitor is released.
VerifyBegin(t) ==
    /\ At(t, "verify", "start") /\ Free(t, Cls(t))
    /\ status[Cls(t)] = "Resolved"
    /\ SetStatus(Cls(t), "Verifying")
    /\ Goto(t, "super")
    /\ owner' = [owner EXCEPT ![Cls(t)] = IF Nested(t) THEN t ELSE None]
    /\ UNCHANGED <<program, clinit_thread, recursively_initialized, runs, calls>>

\* AttemptSupertypeVerification of d: nothing to do, verify it, or reject the class
\* because d is erroneous.
Attempt(t, d) ==
    /\ ~IsVerified(d) /\ ~IsErroneous(d)
    /\ Call(t, Head(stack[t]).pc, "verify", d)
    /\ UNCHANGED <<program, classes, monitors, calls, failed>>

Reject(t, d) ==
    /\ IsErroneous(d) /\ Free(t, Cls(t))
    /\ SetStatus(Cls(t), "ErrorResolved")
    /\ Return(t, FALSE)
    /\ UNCHANGED <<program, clinit_thread, recursively_initialized, runs, owner, calls>>

\* The superclass, then the interfaces with default methods, unless the class is an
\* interface itself.
VerifySuper(t) ==
    /\ At(t, "verify", "super")
    /\ LET d == Super[Cls(t)] IN
       \/ d # None /\ Attempt(t, d)
       \/ d # None /\ Reject(t, d)
       \/ /\ d \in {None} \cup {c \in Class : IsVerified(c)}
          /\ Goto(t, IF Cls(t) \in IsInterface THEN "perform" ELSE "interfaces")
          /\ UNCHANGED <<program, classes, monitors, calls, failed>>

VerifyInterfaces(t) ==
    /\ At(t, "verify", "interfaces")
    /\ IF Index(t) > Len(IfTable[Cls(t)])
       THEN Goto(t, "perform") /\ UNCHANGED <<program, classes, monitors, calls, failed>>
       ELSE LET d == IfTable[Cls(t)][Index(t)] IN
            \/ d \in HasDefault /\ Attempt(t, d)
            \/ d \in HasDefault /\ Reject(t, d)
            \/ /\ d \notin HasDefault \/ IsVerified(d)
               /\ GotoAt(t, "interfaces", Index(t) + 1)
               /\ UNCHANGED <<program, classes, monitors, calls, failed>>

\* The verifier's answer, applied under the monitor.
PerformClassVerification(t) ==
    /\ At(t, "verify", "perform") /\ Free(t, Cls(t))
    /\ \E ok \in BOOLEAN :
           /\ SetStatus(Cls(t), IF ok THEN "Verified" ELSE "ErrorResolved")
           /\ Return(t, ok)
    /\ UNCHANGED <<program, clinit_thread, recursively_initialized, runs, owner, calls>>

------------------------------------------------------------------------------
(* InitializeClass *)

\* The test without the monitor, and the same test under it.
AlreadyInitialized(t) ==
    /\ \/ At(t, "init", "start")
       \/ At(t, "init", "locked") /\ Returned(t)
    /\ IsInitialized(Cls(t))
    /\ Return(t, TRUE)
    /\ owner' = [owner EXCEPT ![Cls(t)] = IF @ = t THEN None ELSE @]
    /\ UNCHANGED <<program, classes, waiting, calls, failed>>

\* Under the monitor, first or after VerifyClass.
Locked(t) ==
    \/ At(t, "init", "start") /\ owner[Cls(t)] = None
    \/ At(t, "init", "locked")

Unlock(t) == owner' = [owner EXCEPT ![Cls(t)] = None]

AlreadyErroneous(t) ==
    /\ Locked(t)
    /\ IsErroneous(Cls(t))
    /\ Return(t, FALSE)
    /\ Unlock(t)
    /\ UNCHANGED <<program, classes, waiting, calls, failed>>

\* VerifyClass is called with the monitor held.
InitVerify(t) ==
    /\ At(t, "init", "start") /\ owner[Cls(t)] = None
    /\ ~IsErroneous(Cls(t)) /\ ~IsVerified(Cls(t))
    /\ owner' = [owner EXCEPT ![Cls(t)] = t]
    /\ Call(t, "locked", "verify", Cls(t))
    /\ UNCHANGED <<program, classes, waiting, calls, failed>>

\* "We caught somebody else in the act; was it us?"
InitializingByUs(t) ==
    /\ Locked(t)
    /\ status[Cls(t)] = "Initializing" /\ clinit_thread[Cls(t)] = t
    /\ Return(t, TRUE)
    /\ Unlock(t)
    /\ UNCHANGED <<program, classes, waiting, calls, failed>>

\* "Wait for another thread to finish initializing."
InitializingByOther(t) ==
    /\ Locked(t)
    /\ status[Cls(t)] = "Initializing" /\ clinit_thread[Cls(t)] # t
    /\ waiting' = [waiting EXCEPT ![t] = Cls(t)]
    /\ Goto(t, "waited")
    /\ Unlock(t)
    /\ UNCHANGED <<program, classes, calls, failed>>

\* Mutant of WaitForInitializeClass: the first wakeup is taken for the end.
WaitForInitializeClass_NoLoop(t) ==
    /\ At(t, "init", "waited") /\ owner[Cls(t)] = None
    /\ Return(t, ~IsErroneous(Cls(t)))
    /\ UNCHANGED <<program, classes, monitors, calls, failed>>

\* Woken: wait again, fail or succeed with the class; any other status is fatal.
WaitForInitializeClass(t) ==
    /\ At(t, "init", "waited") /\ owner[Cls(t)] = None
    /\ IF status[Cls(t)] = "Initializing"
       THEN /\ waiting' = [waiting EXCEPT ![t] = Cls(t)]
            /\ UNCHANGED <<stack, ret>>
       ELSE Return(t, IsInitialized(Cls(t))) /\ UNCHANGED waiting
    /\ failed' = (failed \/ status[Cls(t)] \notin {"Initializing", "Initialized", "ErrorResolved"})
    /\ UNCHANGED <<program, classes, owner, calls>>

\* ValidateSuperClassDescriptors fails.
DescriptorsInvalid(t) ==
    /\ Locked(t)
    /\ status[Cls(t)] = "Verified"
    /\ SetStatus(Cls(t), "ErrorResolved")
    /\ Return(t, FALSE)
    /\ Unlock(t)
    /\ UNCHANGED <<program, clinit_thread, recursively_initialized, runs, calls>>

\* The class is ours to initialise.
InitBegin(t) ==
    /\ Locked(t)
    /\ status[Cls(t)] = "Verified"
    /\ clinit_thread' = [clinit_thread EXCEPT ![Cls(t)] = t]
    /\ SetStatus(Cls(t), "Initializing")
    /\ Goto(t, IF Cls(t) \in IsInterface THEN "clinit" ELSE "super")
    /\ runs' = IF Cls(t) \in IsInterface THEN [runs EXCEPT ![Cls(t)] = @ + 1] ELSE runs
    /\ Unlock(t)
    /\ UNCHANGED <<program, recursively_initialized, calls>>

\* The superclass is initialised first.
InitSuper(t) ==
    /\ At(t, "init", "super") /\ ~Returned(t)
    /\ Super[Cls(t)] # None /\ ~IsInitialized(Super[Cls(t)])
    /\ Call(t, "super", "init", Super[Cls(t)])
    /\ UNCHANGED <<program, classes, monitors, calls, failed>>

SuperDone(t) ==
    /\ At(t, "init", "super")
    /\ IF Returned(t) THEN ret[t].ok
                      ELSE Super[Cls(t)] \in {None} \cup {c \in Class : IsInitialized(c)}
    /\ Goto(t, "interfaces")
    /\ UNCHANGED <<program, classes, monitors, calls, failed>>

\* The superclass or an interface failed, and so does the class.
SupertypeFailed(t) ==
    /\ At(t, "init", "super") \/ At(t, "init", "interfaces")
    /\ Returned(t) /\ ~ret[t].ok
    /\ owner[Cls(t)] = None
    /\ SetStatus(Cls(t), "ErrorResolved")
    /\ Return(t, FALSE)
    /\ UNCHANGED <<program, clinit_thread, recursively_initialized, runs, owner, calls>>

\* The next direct interface, skipped when it carries the flag.
InitInterface(t) ==
    /\ At(t, "init", "interfaces") /\ (Returned(t) => ret[t].ok)
    /\ Index(t) <= Len(Interfaces[Cls(t)])
    /\ LET d == Interfaces[Cls(t)][Index(t)] IN
       IF d \in recursively_initialized
       THEN GotoAt(t, "interfaces", Index(t) + 1)
       ELSE CallNext(t, "iface", d)
    /\ UNCHANGED <<program, classes, monitors, calls, failed>>

InterfacesDone(t) ==
    /\ At(t, "init", "interfaces") /\ (Returned(t) => ret[t].ok)
    /\ Index(t) > Len(Interfaces[Cls(t)])
    /\ GotoAt(t, "clinit", 1)
    /\ runs' = [runs EXCEPT ![Cls(t)] = @ + 1]
    /\ UNCHANGED <<program, status, clinit_thread, recursively_initialized, monitors, calls,
                   failed>>

\* <clinit> uses another class, if the use before did not throw or it was caught.
ClinitUses(t) ==
    /\ At(t, "init", "clinit")
    /\ Index(t) <= Len(program[Cls(t)])
    /\ CallNext(t, "init", program[Cls(t)][Index(t)])
    /\ UNCHANGED <<program, classes, monitors, calls, failed>>

\* <clinit> is over, with or without an exception: the last section under the monitor.
ClinitDone(t) ==
    /\ At(t, "init", "clinit") /\ owner[Cls(t)] = None
    /\ \E ok \in BOOLEAN :
           /\ ok => Index(t) > Len(program[Cls(t)])
           /\ SetStatus(Cls(t), IF ok THEN "Initialized" ELSE "ErrorResolved")
           /\ Return(t, ok)
    /\ UNCHANGED <<program, clinit_thread, recursively_initialized, runs, owner, calls>>

------------------------------------------------------------------------------
(* InitializeDefaultInterfaceRecursive *)

\* The superinterfaces that do not carry the flag, in their order.
SuperInterface(t) ==
    /\ At(t, "iface", "start") /\ (Returned(t) => ret[t].ok)
    /\ Index(t) <= Len(Interfaces[Cls(t)])
    /\ LET d == Interfaces[Cls(t)][Index(t)] IN
       IF d \in recursively_initialized
       THEN GotoAt(t, "start", Index(t) + 1)
       ELSE CallNext(t, "iface", d)
    /\ UNCHANGED <<program, classes, monitors, calls, failed>>

\* Then the interface itself, only if it has default methods.
InitializeInterface(t) ==
    /\ At(t, "iface", "start") /\ (Returned(t) => ret[t].ok)
    /\ Index(t) > Len(Interfaces[Cls(t)])
    /\ Cls(t) \in HasDefault
    /\ Call(t, "mark", "init", Cls(t))
    /\ UNCHANGED <<program, classes, monitors, calls, failed>>

\* The flag is set if the monitor can be taken without blocking.
MarkInterface(t) ==
    /\ \/ /\ At(t, "iface", "start") /\ (Returned(t) => ret[t].ok)
          /\ Index(t) > Len(Interfaces[Cls(t)]) /\ Cls(t) \notin HasDefault
       \/ At(t, "iface", "mark") /\ ret[t].ok
    /\ recursively_initialized' =
           IF Free(t, Cls(t)) THEN recursively_initialized \cup {Cls(t)}
                              ELSE recursively_initialized
    /\ Return(t, TRUE)
    /\ UNCHANGED <<program, status, clinit_thread, runs, monitors, calls, failed>>

InterfaceFailed(t) ==
    /\ At(t, "iface", "start") \/ At(t, "iface", "mark")
    /\ Returned(t) /\ ~ret[t].ok
    /\ Return(t, FALSE)
    /\ UNCHANGED <<program, classes, monitors, calls, failed>>

------------------------------------------------------------------------------
\* A thread asks for a class: bytecode initialises it, or the background verifier calls
\* VerifyClass.
Begin(t) ==
    /\ stack[t] = <<>> /\ calls[t] > 0
    /\ \E c \in Calls, fn \in {"init", "verify"} :
           stack' = [stack EXCEPT ![t] = <<Frame(fn, c)>>]
    /\ ret' = [ret EXCEPT ![t] = None]
    /\ calls' = [calls EXCEPT ![t] = @ - 1]
    /\ UNCHANGED <<program, classes, monitors, failed>>

\* "WaitIgnoringInterrupts can still receive an interrupt and return early".
WakeSpuriously(t) ==
    /\ waiting[t] # None
    /\ waiting' = [waiting EXCEPT ![t] = None]
    /\ UNCHANGED <<program, classes, owner, control, failed>>

Step(t) ==
    \/ VerifyWait(t) \/ VerifyDone(t) \/ VerifyBegin(t) \/ VerifySuper(t)
    \/ VerifyInterfaces(t) \/ PerformClassVerification(t)
    \/ AlreadyInitialized(t) \/ AlreadyErroneous(t) \/ InitVerify(t)
    \/ InitializingByUs(t) \/ InitializingByOther(t) \/ WaitForInitializeClass(t)
    \/ DescriptorsInvalid(t) \/ InitBegin(t) \/ InitSuper(t) \/ SuperDone(t)
    \/ SupertypeFailed(t) \/ InitInterface(t) \/ InterfacesDone(t) \/ ClinitUses(t)
    \/ ClinitDone(t)
    \/ SuperInterface(t) \/ InitializeInterface(t) \/ MarkInterface(t) \/ InterfaceFailed(t)

Next == \E t \in Thread : Begin(t) \/ Step(t) \/ WakeSpuriously(t)

Spec == Init /\ [][Next]_vars

Fairness == \A t \in Thread : WF_vars(Step(t))

FairSpec == Spec /\ Fairness

------------------------------------------------------------------------------
(* Properties *)

Frames(t) == {stack[t][i] : i \in DOMAIN stack[t]}

\* <clinit> of class c is running in thread t.
RunsClinit(t, c) == \E f \in Frames(t) : f.fn = "init" /\ f.c = c /\ f.pc = "clinit"

\* Class d is initialised, or t is the thread initialising it.
Usable(t, d) == IsInitialized(d) \/ (status[d] = "Initializing" /\ clinit_thread[d] = t)

\* <clinit> runs at most once per class, for an initialised class exactly once;
\* InitializeClass answers true only to a thread that may use the class, and false only
\* if the class is erroneous for good; no CHECK on the status of a class fails.
InitializedOnce ==
    /\ ~failed
    /\ \A c \in Class : runs[c] <= 1
    /\ \A c \in Class : IsInitialized(c) => runs[c] = 1
    /\ \A t \in Thread : Returned(t) /\ ret[t].fn = "init" =>
           IF ret[t].ok THEN Usable(t, ret[t].c) ELSE IsErroneous(ret[t].c)

\* While <clinit> of a class runs, its superclass is initialised or being initialised by
\* the same thread, whatever the other threads do.
SuperInitializedFirst ==
    \A t \in Thread, c \in Class :
        RunsClinit(t, c) /\ c \notin IsInterface /\ Super[c] # None => Usable(t, Super[c])

\* What the code says of the interfaces of a class ("we need to ensure that ALL
\* interfaces with default methods are initialized"), which the flag breaks: a thread
\* sets it for an interface it is itself still initialising.
InterfacesInitializedFirst ==
    \A t \in Thread, c \in Class :
        RunsClinit(t, c) /\ c \notin IsInterface =>
            \A i \in DOMAIN Interfaces[c] :
                Interfaces[c][i] \in HasDefault => Usable(t, Interfaces[c][i])

\* The classes c needs: its supertypes and what its <clinit> uses.
Needs(c) ==
    ((IF Super[c] = None THEN {} ELSE {Super[c]})
        \cup {Interfaces[c][i] : i \in DOMAIN Interfaces[c]}
        \cup {program[c][i] : i \in DOMAIN program[c]}) \ {c}

\* No class needs itself through others.
Acyclic ==
    ~ \E S \in SUBSET Class : S # {} /\ \A c \in S : Needs(c) \cap S # {}

==============================================================================
