----------------------------- MODULE AcppBackend -----------------------------
(***************************************************************************)
(* The AdaptiveCpp backend of src/backend_acpp.cpp: a cache of read-only   *)
(* device buffers keyed by host address, two scratch vectors that grow,    *)
(* and an in-order queue whose commands the device executes while the host *)
(* goes on.  Its caller is either the program, which preloads every        *)
(* projection, multiplies and tears everything down after the first        *)
(* failure, or any other client of src/backend.h, which uploads on demand  *)
(* and keeps calling.  The SYCL runtime and the device are external.       *)
(***************************************************************************)
EXTENDS Naturals, Integers, Sequences, FiniteSets

CONSTANTS
    Addrs,          \* device addresses; their number bounds device memory
    Null,           \* nullptr
    Callers,        \* who may call: the "program" or another "client"
    Buffers,        \* read-only host buffers: weights and biases
    NoBuffer,       \* the bias of a projection without one
    Matvecs,        \* the products each caller asks for, as sets of
                    \* [weights, bias, in, out]
    Vectors,        \* contents of the host vector x
    Junk,           \* contents of memory nothing has written
    Failures        \* which calls of the SYCL runtime may throw, per caller

FailureKinds == {"none", "mismatch", "allocation", "copy", "scratch", "submit"}

ASSUME CallerAssumption  ==
    /\ Callers \subseteq {"program", "client"}
    /\ Failures \in [Callers -> SUBSET FailureKinds]
ASSUME NullAssumption    == Null \notin Addrs /\ NoBuffer \notin Buffers
ASSUME MatvecAssumption  ==
    \A c \in Callers : \A m \in Matvecs[c] :
        /\ m.weights \in Buffers
        /\ m.bias \in Buffers \cup {NoBuffer}
        /\ m.in \in Nat \ {0} /\ m.out \in Nat \ {0}

VARIABLES
    caller,             \* fixed in the initial state
    phase,              \* "attach", "serve", "closing", "closed"
    pc,                 \* where the host thread is inside the call
    call,               \* the call in progress: [kind, buffers, matvec]
    uploads,            \* buffers the call has still to find or upload
    fresh,              \* device_data of upload_readonly, before emplace
    readonly_buffers,   \* host buffer -> [ptr, count]
    scratch_x, scratch_y,
    scratch_x_count, scratch_y_count,
    queue,
    memory,             \* device memory: address -> [size, data]
    host_x, host_out,
    host_live,          \* gpt2_free has not run
    result,             \* what the last call returned
    y_valid,            \* the last chris_backend_matvec returned 0
    failure             \* what made the last call return -1

backendVars == <<readonly_buffers, scratch_x, scratch_y,
                 scratch_x_count, scratch_y_count>>
hostVars    == <<host_x, host_out, host_live>>
outcomeVars == <<result, y_valid, failure>>
vars == <<caller, phase, pc, call, uploads, fresh, backendVars, queue, memory,
          hostVars, outcomeVars>>

NoCall     == [kind |-> "none"]
Free       == [size |-> 0, data |-> Junk]
Live       == {a \in Addrs : memory[a] # Free}

Program == caller = "program"

(* Elements of a buffer: the matrix of a product, or its bias.             *)
Products  == Matvecs[caller]
Shapes(b) == {m.in * m.out : m \in {n \in Products : n.weights = b}}
                 \cup {m.out : m \in {n \in Products : n.bias = b}}
Projections == {b \in Buffers : Shapes(b) # {}}

Init ==
    /\ caller \in Callers
    /\ phase = IF Program THEN "attach" ELSE "serve"
    /\ pc = "idle"
    /\ call = NoCall /\ uploads = <<>> /\ fresh = Null
    /\ readonly_buffers = <<>>
    /\ scratch_x = Null /\ scratch_y = Null
    /\ scratch_x_count = 0 /\ scratch_y_count = 0
    /\ queue = <<>>
    /\ memory = [a \in Addrs |-> Free]
    /\ host_x \in Vectors /\ host_out = Junk /\ host_live = TRUE
    /\ result = 0 /\ y_valid = FALSE /\ failure = "none"

----------------------------------------------------------------------------
(* How a call begins and ends.                                             *)

Return ==
    /\ pc' = "idle"
    /\ call' = NoCall
    /\ result' = 0
    /\ y_valid' = IF call.kind = "matvec" THEN TRUE ELSE y_valid
    /\ UNCHANGED failure

(* The catch blocks: nothing is undone and the queue is not waited for.    *)
Throw(why) ==
    /\ pc' = "idle"
    /\ call' = NoCall /\ uploads' = <<>> /\ fresh' = Null
    /\ result' = -1
    /\ failure' = why
    /\ UNCHANGED y_valid

MayThrow(why) == why \in Failures[caller] /\ Throw(why)

Calling == pc = "idle" /\ phase \in {"attach", "serve"}

(* The program stops calling after the first failure.                      *)
MayCall == Calling /\ (Program => result = 0)

Preload(b, count) ==
    /\ MayCall
    /\ Program => phase = "attach" /\ b \notin DOMAIN readonly_buffers
    /\ call' = [kind |-> "preload"]
    /\ uploads' = <<[buffer |-> b, count |-> count]>>
    /\ pc' = "upload"
    /\ UNCHANGED <<caller, phase, fresh, backendVars, queue, memory, hostVars,
                   outcomeVars>>

Attached ==
    /\ phase = "attach" /\ Calling /\ result = 0
    /\ DOMAIN readonly_buffers = Projections
    /\ phase' = "serve"
    /\ UNCHANGED <<caller, pc, call, uploads, fresh, backendVars, queue, memory,
                   hostVars, outcomeVars>>

(* The caller fills x, then calls chris_backend_matvec.                    *)
Multiply(m, v) ==
    /\ MayCall /\ phase = "serve"
    /\ host_x' = v
    /\ y_valid' = FALSE
    /\ call' = [kind |-> "matvec", matvec |-> m, x |-> v]
    /\ uploads' = <<[buffer |-> m.weights, count |-> m.in * m.out]>> \o
                  (IF m.bias = NoBuffer THEN <<>>
                   ELSE <<[buffer |-> m.bias, count |-> m.out]>>)
    /\ pc' = "upload"
    /\ UNCHANGED <<caller, phase, fresh, backendVars, queue, memory, host_out,
                   host_live, result, failure>>

----------------------------------------------------------------------------
(* upload_readonly.                                                        *)

UploadsDone ==
    /\ pc = "upload" /\ uploads = <<>>
    /\ IF call.kind = "preload" THEN Return
       ELSE pc' = "scratch_x" /\ UNCHANGED <<call, outcomeVars>>
    /\ UNCHANGED <<caller, phase, uploads, fresh, backendVars, queue, memory, hostVars>>

Resident(b) == b \in DOMAIN readonly_buffers
Wanted      == Head(uploads)

UploadHitInPlace ==                                     \* seeded fault
    /\ pc = "upload" /\ uploads # <<>>
    /\ Resident(Wanted.buffer)
    /\ readonly_buffers[Wanted.buffer].count = Wanted.count
    /\ UNCHANGED vars

UploadHit ==
    /\ pc = "upload" /\ uploads # <<>>
    /\ Resident(Wanted.buffer)
    /\ readonly_buffers[Wanted.buffer].count = Wanted.count
    /\ uploads' = Tail(uploads)
    /\ UNCHANGED <<caller, phase, pc, call, fresh, backendVars, queue, memory,
                   hostVars, outcomeVars>>

UploadMismatch ==
    /\ pc = "upload" /\ uploads # <<>>
    /\ Resident(Wanted.buffer)
    /\ readonly_buffers[Wanted.buffer].count # Wanted.count
    /\ Throw("mismatch")
    /\ UNCHANGED <<caller, phase, backendVars, queue, memory, hostVars>>

(* sycl::malloc_device returns any free address, or nullptr.               *)
Allocated(a, size) == [memory EXCEPT ![a] = [size |-> size, data |-> Junk]]

UploadAllocates ==
    /\ pc = "upload" /\ uploads # <<>>
    /\ ~Resident(Wanted.buffer)
    /\ \E a \in Addrs \ Live :
          /\ fresh' = a
          /\ memory' = Allocated(a, Wanted.count)
    /\ pc' = "copy"
    /\ UNCHANGED <<caller, phase, call, uploads, backendVars, queue, hostVars,
                   outcomeVars>>

UploadAllocationFails ==
    /\ pc = "upload" /\ uploads # <<>>
    /\ ~Resident(Wanted.buffer)
    /\ MayThrow("allocation")
    /\ UNCHANGED <<caller, phase, backendVars, queue, memory, hostVars>>

Enqueue(command) == queue' = Append(queue, command)

UploadCopies ==
    /\ pc = "copy"
    /\ Enqueue([op |-> "upload", dst |-> fresh, buffer |-> Wanted.buffer,
                n |-> Wanted.count])
    /\ pc' = "copying"
    /\ UNCHANGED <<caller, phase, call, uploads, fresh, backendVars, memory, hostVars,
                   outcomeVars>>

(* The new allocation is not in the cache yet and nobody frees it.         *)
UploadCopyFails ==
    /\ pc = "copy"
    /\ MayThrow("copy")
    /\ UNCHANGED <<caller, phase, backendVars, queue, memory, hostVars>>

Waited == queue = <<>>

Emplaced == [b \in DOMAIN readonly_buffers \cup {Wanted.buffer} |->
                IF b = Wanted.buffer
                THEN [ptr |-> fresh, count |-> Wanted.count]
                ELSE readonly_buffers[b]]

UploadEmplacesUnwaited ==                               \* seeded fault
    /\ pc = "copying"
    /\ readonly_buffers' = Emplaced
    /\ fresh' = Null
    /\ uploads' = Tail(uploads)
    /\ pc' = "upload"
    /\ UNCHANGED <<caller, phase, call, scratch_x, scratch_y, scratch_x_count,
                   scratch_y_count, queue, memory, hostVars, outcomeVars>>

UploadEmplaces ==
    /\ pc = "copying" /\ Waited
    /\ readonly_buffers' = Emplaced
    /\ fresh' = Null
    /\ uploads' = Tail(uploads)
    /\ pc' = "upload"
    /\ UNCHANGED <<caller, phase, call, scratch_x, scratch_y, scratch_x_count,
                   scratch_y_count, queue, memory, hostVars, outcomeVars>>

----------------------------------------------------------------------------
(* ensure_scratch.                                                         *)

Freed(a) == IF a = Null THEN memory ELSE [memory EXCEPT ![a] = Free]

FreeAfter(a) == (Addrs \ Live) \cup ({a} \ {Null})

KeepScratchX ==
    /\ pc = "scratch_x"
    /\ call.matvec.in <= scratch_x_count
    /\ pc' = "scratch_y"
    /\ UNCHANGED <<caller, phase, call, uploads, fresh, backendVars, queue, memory,
                   hostVars, outcomeVars>>

GrowScratchX ==
    /\ pc = "scratch_x"
    /\ call.matvec.in > scratch_x_count
    /\ \E a \in FreeAfter(scratch_x) :
          /\ scratch_x' = a
          /\ memory' = [Freed(scratch_x) EXCEPT
                             ![a] = [size |-> call.matvec.in, data |-> Junk]]
    /\ scratch_x_count' = call.matvec.in
    /\ pc' = "scratch_y"
    /\ UNCHANGED <<caller, phase, call, uploads, fresh, readonly_buffers, scratch_y,
                   scratch_y_count, queue, hostVars, outcomeVars>>

GrowScratchXFailsInPlace ==                             \* seeded fault
    /\ pc = "scratch_x"
    /\ call.matvec.in > scratch_x_count
    /\ MayThrow("scratch")
    /\ memory' = Freed(scratch_x)
    /\ UNCHANGED <<caller, phase, backendVars, queue, hostVars>>

(* The old vector is gone, and its count stays.                            *)
GrowScratchXFails ==
    /\ pc = "scratch_x"
    /\ call.matvec.in > scratch_x_count
    /\ MayThrow("scratch")
    /\ memory' = Freed(scratch_x)
    /\ scratch_x' = Null
    /\ UNCHANGED <<caller, phase, readonly_buffers, scratch_y, scratch_x_count,
                   scratch_y_count, queue, hostVars>>

KeepScratchYAlways ==                                   \* seeded fault
    /\ pc = "scratch_y"
    /\ call.matvec.out <= scratch_y_count \/ scratch_y # Null
    /\ pc' = "copy_in"
    /\ UNCHANGED <<caller, phase, call, uploads, fresh, backendVars, queue, memory,
                   hostVars, outcomeVars>>

KeepScratchY ==
    /\ pc = "scratch_y"
    /\ call.matvec.out <= scratch_y_count
    /\ pc' = "copy_in"
    /\ UNCHANGED <<caller, phase, call, uploads, fresh, backendVars, queue, memory,
                   hostVars, outcomeVars>>

GrowScratchY ==
    /\ pc = "scratch_y"
    /\ call.matvec.out > scratch_y_count
    /\ \E a \in FreeAfter(scratch_y) :
          /\ scratch_y' = a
          /\ memory' = [Freed(scratch_y) EXCEPT
                             ![a] = [size |-> call.matvec.out, data |-> Junk]]
    /\ scratch_y_count' = call.matvec.out
    /\ pc' = "copy_in"
    /\ UNCHANGED <<caller, phase, call, uploads, fresh, readonly_buffers, scratch_x,
                   scratch_x_count, queue, hostVars, outcomeVars>>

GrowScratchYFails ==
    /\ pc = "scratch_y"
    /\ call.matvec.out > scratch_y_count
    /\ MayThrow("scratch")
    /\ memory' = Freed(scratch_y)
    /\ scratch_y' = Null
    /\ UNCHANGED <<caller, phase, readonly_buffers, scratch_x, scratch_x_count,
                   scratch_y_count, queue, hostVars>>

----------------------------------------------------------------------------
(* The three commands of chris_backend_matvec, each of which may throw     *)
(* when it is submitted, and wait_and_throw.                               *)

CopyIn ==
    /\ pc = "copy_in"
    /\ Enqueue([op |-> "copy_in", dst |-> scratch_x, n |-> call.matvec.in])
    /\ pc' = "kernel"
    /\ UNCHANGED <<caller, phase, call, uploads, fresh, backendVars, memory, hostVars,
                   outcomeVars>>

DeviceBias(m) == IF m.bias = NoBuffer THEN Null ELSE readonly_buffers[m.bias].ptr

Kernel ==
    /\ pc = "kernel"
    /\ Enqueue([op |-> "kernel", in |-> call.matvec.in, out |-> call.matvec.out,
                w |-> readonly_buffers[call.matvec.weights].ptr,
                b |-> DeviceBias(call.matvec),
                x |-> scratch_x, y |-> scratch_y])
    /\ pc' = "copy_out"
    /\ UNCHANGED <<caller, phase, call, uploads, fresh, backendVars, memory, hostVars,
                   outcomeVars>>

CopyOut ==
    /\ pc = "copy_out"
    /\ Enqueue([op |-> "copy_out", src |-> scratch_y, n |-> call.matvec.out])
    /\ pc' = "wait"
    /\ UNCHANGED <<caller, phase, call, uploads, fresh, backendVars, memory, hostVars,
                   outcomeVars>>

SubmitFails ==
    /\ pc \in {"copy_in", "kernel", "copy_out"}
    /\ MayThrow("submit")
    /\ UNCHANGED <<caller, phase, backendVars, queue, memory, hostVars>>

MatvecReturnsUnwaited ==                                \* seeded fault
    /\ pc = "wait"
    /\ Return
    /\ UNCHANGED <<caller, phase, uploads, fresh, backendVars, queue, memory, hostVars>>

MatvecReturns ==
    /\ pc = "wait" /\ Waited
    /\ Return
    /\ UNCHANGED <<caller, phase, uploads, fresh, backendVars, queue, memory, hostVars>>

----------------------------------------------------------------------------
(* The device executes the commands of the queue in order.                 *)

Data(a) == IF a \in Live THEN memory[a].data ELSE Junk

Store(a, value) ==
    memory' = IF a \in Live THEN [memory EXCEPT ![a].data = value] ELSE memory

(* Freed host memory may hold anything: reading it gives Junk, and what    *)
(* is written to it is nobody's.                                           *)
Perform(c) ==
    \/ /\ c.op = "upload"
       /\ Store(c.dst, c.buffer)
       /\ UNCHANGED host_out
    \/ /\ c.op = "copy_in"
       /\ Store(c.dst, IF host_live THEN host_x ELSE Junk)
       /\ UNCHANGED host_out
    \/ /\ c.op = "kernel"
       /\ Store(c.y, [weights |-> Data(c.w),
                      bias |-> IF c.b = Null THEN NoBuffer ELSE Data(c.b),
                      x |-> Data(c.x)])
       /\ UNCHANGED host_out
    \/ /\ c.op = "copy_out"
       /\ host_out' = IF host_live THEN Data(c.src) ELSE host_out
       /\ UNCHANGED memory

Execute ==
    /\ queue # <<>>
    /\ Perform(Head(queue))
    /\ queue' = Tail(queue)
    /\ UNCHANGED <<caller, phase, pc, call, uploads, fresh, backendVars, host_x,
                   host_live, outcomeVars>>

----------------------------------------------------------------------------
(* The end of main: gpt2_free first, except when attaching has failed.     *)

FreeModel ==
    /\ Program /\ phase = "serve" /\ pc = "idle"
    /\ phase' = "closing"
    /\ host_live' = FALSE
    /\ UNCHANGED <<caller, pc, call, uploads, fresh, backendVars, queue, memory,
                   host_x, host_out, outcomeVars>>

MayDestroy ==
    /\ pc = "idle"
    /\ IF Program THEN phase = "closing" \/ (phase = "attach" /\ result = -1)
       ELSE phase = "serve"

Owned == {readonly_buffers[b].ptr : b \in DOMAIN readonly_buffers}
             \cup ({scratch_x, scratch_y} \ {Null})

(* ~ChrisBackend.                                                          *)
Released(addrs) == [a \in Addrs |-> IF a \in addrs THEN Free ELSE memory[a]]

DestroyLeavesScratch ==                                 \* seeded fault
    /\ MayDestroy /\ Waited
    /\ memory' = Released(Owned \ {scratch_x})
    /\ phase' = "closed"
    /\ UNCHANGED <<caller, pc, call, uploads, fresh, backendVars, queue, hostVars,
                   outcomeVars>>

Destroy ==
    /\ MayDestroy /\ Waited
    /\ memory' = Released(Owned)
    /\ phase' = "closed"
    /\ UNCHANGED <<caller, pc, call, uploads, fresh, backendVars, queue, hostVars,
                   outcomeVars>>

----------------------------------------------------------------------------
Terminated == phase = "closed" /\ UNCHANGED vars

(* The steps of the host thread inside a call of the backend.              *)
HostStep ==
    \/ UploadsDone \/ UploadHit \/ UploadMismatch
    \/ UploadAllocates \/ UploadAllocationFails
    \/ UploadCopies \/ UploadCopyFails \/ UploadEmplaces
    \/ KeepScratchX \/ GrowScratchX \/ GrowScratchXFails
    \/ KeepScratchY \/ GrowScratchY \/ GrowScratchYFails
    \/ CopyIn \/ Kernel \/ CopyOut \/ SubmitFails \/ MatvecReturns

Next ==
    \/ \E b \in Buffers : \E count \in Shapes(b) : Preload(b, count)
    \/ \E m \in Products, v \in Vectors : Multiply(m, v)
    \/ Attached
    \/ HostStep
    \/ Execute
    \/ FreeModel \/ Destroy
    \/ Terminated

SafetySpec == Init /\ [][Next]_vars

(* The host thread runs on and the runtime drains its queue; nobody has to *)
(* call the backend.                                                       *)
Spec == SafetySpec /\ WF_vars(HostStep) /\ WF_vars(Execute)

----------------------------------------------------------------------------
(* Properties.                                                             *)

Commands  == {queue[i] : i \in DOMAIN queue}

(* The device memory a command reads or writes, with the elements it needs.*)
Touches(c) ==
    IF c.op = "kernel"
    THEN {<<c.w, c.in * c.out>>, <<c.x, c.in>>, <<c.y, c.out>>}
             \cup (IF c.b = Null THEN {} ELSE {<<c.b, c.out>>})
    ELSE {<<IF c.op = "copy_out" THEN c.src ELSE c.dst, c.n>>}

Fits(t) == t[1] \in Live /\ memory[t[1]].size >= t[2]

(* No command in the queue touches device memory that is null, freed or    *)
(* too small: ensure_scratch frees a vector only when nothing uses it, and *)
(* a kernel's vectors are as long as its shape says (acpp 198-222).        *)
DeviceAccessesFit == \A c \in Commands : \A t \in Touches(c) : Fits(t)

(* Device memory has one owner: what the cache, the scratch pointers and a *)
(* running upload hold are live and distinct allocations, so that the      *)
(* destructor frees nothing twice, and a resident buffer stays intact.     *)
OwnsWhatItFrees ==
    LET Held == DOMAIN readonly_buffers \cup {"scratch_x", "scratch_y", "fresh"}
        Pointer(h) == IF h \in DOMAIN readonly_buffers
                      THEN readonly_buffers[h].ptr
                      ELSE IF h = "scratch_x" THEN scratch_x
                      ELSE IF h = "scratch_y" THEN scratch_y ELSE fresh
    IN  phase # "closed" =>
          /\ \A h \in Held : Pointer(h) \in Live \cup {Null}
          /\ \A g, h \in Held :
                g # h /\ Pointer(g) = Pointer(h) => Pointer(g) = Null

(* Whatever is resident holds the host's data in full.                     *)
ResidentCoherent ==
    phase # "closed" =>
      \A b \in DOMAIN readonly_buffers :
        memory[readonly_buffers[b].ptr] =
            [size |-> readonly_buffers[b].count, data |-> b]

(* The destructor gives all device memory back, except after an upload     *)
(* whose memcpy threw: upload_readonly loses that allocation (acpp 187-194)*)
ReleasedAtClose == phase = "closed" /\ failure # "copy" => Live = {}

(* The program frees the host's vectors before the destructor waits for    *)
(* the queue; the device can only meet them freed after a failed call.     *)
FreedInUseOnlyAfterFailure ==
    ~host_live /\ queue # <<>> => failure = "submit"

(* ARCHITECTURE.md:79-80: the scratch vectors "grow only when a larger     *)
(* vector is needed and are then reused", so every kernel is given live    *)
(* scratch vectors.                                                        *)
ScratchReused ==
    \A c \in Commands : c.op = "kernel" => c.x \in Live /\ c.y \in Live

(* Every call of the backend returns.                                      *)
CallsReturn == (pc # "idle") ~> (pc = "idle")

(* The backend computes what backend.h promises.                           *)
Promise == INSTANCE Matvec WITH
    Matvecs     <- UNION {Matvecs[c] : c \in Callers},
    NoCall      <- NoCall,
    Unspecified <- Junk,
    call        <- IF call.kind = "matvec"
                   THEN [matvec |-> call.matvec, x |-> call.x] ELSE NoCall,
    y           <- IF y_valid THEN host_out ELSE Junk

MatvecSafety == Promise!Safety
MatvecSpec   == Promise!Spec
=============================================================================
