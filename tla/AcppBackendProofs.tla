-------------------------- MODULE AcppBackendProofs --------------------------
(***************************************************************************)
(* Proofs about the AdaptiveCpp backend, for any number of addresses,      *)
(* buffers, products and vectors, any moment at which the device executes  *)
(* a command, and any call of the runtime that throws.  What holds for the *)
(* program, which stops after its first failure, holds for another client  *)
(* only if it does not go on after certain failures: the theorems that     *)
(* need this say after which.                                              *)
(***************************************************************************)
EXTENDS AcppBackend, SequenceTheorems, TLAPS

ClientStopsAfter(kinds) ==
    "client" \in Callers => Failures["client"] \cap kinds = {}

----------------------------------------------------------------------------
(* The inductive invariant that holds of every caller.                     *)

CommandType ==
    [op : {"upload"}, dst : Addrs, buffer : Buffers, n : Nat]
    \cup [op : {"copy_in"}, dst : Addrs \cup {Null}, n : Nat]
    \cup [op : {"kernel"}, in : Nat, out : Nat, w : Addrs, b : Addrs \cup {Null},
          x : Addrs \cup {Null}, y : Addrs \cup {Null}]
    \cup [op : {"copy_out"}, src : Addrs \cup {Null}, n : Nat]

UploadType == [buffer : Buffers, count : Nat \ {0}]

Uploading   == {"upload", "copy", "copying"}
Multiplying == {"scratch_x", "scratch_y", "copy_in", "kernel", "copy_out", "wait"}

Typed ==
    /\ caller \in Callers
    /\ phase \in {"attach", "serve", "closing", "closed"}
    /\ pc \in {"idle"} \cup Uploading \cup Multiplying
    /\ uploads \in Seq(UploadType)
    /\ DOMAIN readonly_buffers \subseteq Buffers
    /\ readonly_buffers \in
          [DOMAIN readonly_buffers -> [ptr : Addrs, count : Nat \ {0}]]
    /\ scratch_x \in Addrs \cup {Null} /\ scratch_x_count \in Nat
    /\ scratch_y \in Addrs \cup {Null} /\ scratch_y_count \in Nat
    /\ fresh \in Addrs \cup {Null}
    /\ queue \in Seq(CommandType)
    /\ result \in {0, -1} /\ y_valid \in BOOLEAN /\ host_live \in BOOLEAN

MemoryTyped ==
    /\ memory = [a \in Addrs |-> [size |-> memory[a].size, data |-> memory[a].data]]
    /\ \A a \in Addrs : memory[a].size \in Nat
    /\ \A a \in Addrs : memory[a].size = 0 => memory[a] = Free

CallTyped ==
    /\ pc = "idle" <=> call = NoCall
    /\ pc \in Uploading =>
          \/ call = [kind |-> "preload"]
          \/ call = [kind |-> "matvec", matvec |-> call.matvec, x |-> call.x]
    /\ pc \in Multiplying =>
          call = [kind |-> "matvec", matvec |-> call.matvec, x |-> call.x]
    /\ call.kind = "matvec" => call.matvec \in Products /\ call.x \in Vectors
    /\ fresh # Null <=> pc \in {"copy", "copying"}
    /\ fresh # Null => uploads # <<>>
    /\ pc # "idle" => phase \in {"attach", "serve"}
    /\ phase = "closed" => queue = <<>>

(* What a product needs in the cache is there or still to be uploaded.     *)
Needs(m) == {[buffer |-> m.weights, count |-> m.in * m.out]}
                \cup (IF m.bias = NoBuffer THEN {}
                      ELSE {[buffer |-> m.bias, count |-> m.out]})

HasResident(u) == Resident(u.buffer) /\ readonly_buffers[u.buffer].count = u.count

Residency ==
    call.kind = "matvec" =>
        \A u \in Needs(call.matvec) :
            \/ HasResident(u)
            \/ pc \in Uploading /\ \E k \in DOMAIN uploads : uploads[k] = u

Ownership == phase # "closed" =>
    /\ \A b \in DOMAIN readonly_buffers :
          /\ readonly_buffers[b].ptr \in Live
          /\ readonly_buffers[b].ptr \notin {scratch_x, scratch_y, fresh}
          /\ \A d \in DOMAIN readonly_buffers :
                readonly_buffers[b].ptr = readonly_buffers[d].ptr => b = d
    /\ {scratch_x, scratch_y, fresh} \subseteq Live \cup {Null}
    /\ scratch_x # Null => scratch_x # scratch_y /\ scratch_x # fresh
    /\ scratch_y # Null => scratch_y # fresh

Target(c) == IF c.op = "kernel" THEN c.y ELSE IF c.op = "copy_out" THEN Null ELSE c.dst

Coherence ==
    /\ ResidentCoherent
    /\ \A c \in Commands : \A b \in DOMAIN readonly_buffers :
          Target(c) # readonly_buffers[b].ptr
    /\ pc \in {"copy", "copying"} =>
          ~Resident(Wanted.buffer) /\ memory[fresh].size = Wanted.count
    /\ pc = "copying" =>
          IF queue = <<>> THEN memory[fresh].data = Wanted.buffer
          ELSE queue[Len(queue)] = [op |-> "upload", dst |-> fresh,
                                    buffer |-> Wanted.buffer, n |-> Wanted.count]

Draining ==
    /\ Program /\ pc # "idle" => result = 0
    /\ Program /\ queue # <<>> =>
          \/ pc \in {"copying", "kernel", "copy_out", "wait"}
          \/ pc = "idle" /\ failure = "submit" /\ result = -1
    /\ ~host_live => Program /\ phase \in {"closing", "closed"}

BackendInv ==
    Typed /\ MemoryTyped /\ CallTyped /\ Residency /\ Ownership /\ Coherence /\ Draining

----------------------------------------------------------------------------
(* Nothing is lost, unless a copy has thrown.                              *)
Accounted ==
    /\ failure = "copy" => Program /\ result = -1 /\ pc = "idle"
    /\ failure # "copy" /\ phase # "closed" => Live \subseteq Owned \cup {fresh}
    /\ ReleasedAtClose

(* The scratch vectors fit the call, unless the program is about to stop.  *)
Fitting ==
    /\ failure \in {"scratch", "submit"} => Program /\ result = -1 /\ pc = "idle"
    /\ queue # <<>> =>
          pc \in {"copying", "kernel", "copy_out", "wait"} \/ failure = "submit"
    /\ failure # "scratch" /\ phase # "closed" =>
          /\ IF scratch_x = Null THEN scratch_x_count = 0
             ELSE memory[scratch_x].size = scratch_x_count
          /\ IF scratch_y = Null THEN scratch_y_count = 0
             ELSE memory[scratch_y].size = scratch_y_count
    /\ pc \in Multiplying \ {"scratch_x"} => call.matvec.in <= scratch_x_count
    /\ pc \in Multiplying \ {"scratch_x", "scratch_y"} =>
          call.matvec.out <= scratch_y_count
    /\ DeviceAccessesFit

(* What a product's commands have done and have still to do.               *)
CopiesX == [op |-> "copy_in", dst |-> scratch_x, n |-> call.matvec.in]
Computes == [op |-> "kernel", in |-> call.matvec.in, out |-> call.matvec.out,
             w |-> readonly_buffers[call.matvec.weights].ptr,
             b |-> DeviceBias(call.matvec),
             x |-> scratch_x, y |-> scratch_y]
CopiesY == [op |-> "copy_out", src |-> scratch_y, n |-> call.matvec.out]

Answer == [weights |-> call.matvec.weights, bias |-> call.matvec.bias, x |-> call.x]

XCopied   == memory[scratch_x].data = call.x
YComputed == memory[scratch_y].data = Answer

Progress ==
    /\ y_valid => call.kind # "matvec" /\ failure # "submit"
    /\ call.kind = "matvec" => host_x = call.x
    /\ pc = "copying" /\ queue # <<>> => \A c \in Commands : c.op = "upload"
    /\ pc = "kernel" => queue = <<CopiesX>> \/ (queue = <<>> /\ XCopied)
    /\ pc = "copy_out" =>
          \/ queue = <<CopiesX, Computes>>
          \/ queue = <<Computes>> /\ XCopied
          \/ queue = <<>> /\ YComputed
    /\ pc = "wait" =>
          \/ queue = <<CopiesX, Computes, CopiesY>>
          \/ queue = <<Computes, CopiesY>> /\ XCopied
          \/ queue = <<CopiesY>> /\ YComputed
          \/ queue = <<>> /\ host_out = Answer

----------------------------------------------------------------------------
(* Sequences: the queue and the list of uploads.                           *)
LEMMA Shorter ==
    ASSUME NEW S, NEW q \in Seq(S), q # <<>>
    PROVE  /\ Head(q) = q[1] /\ 1 \in DOMAIN q /\ Head(q) \in S
           /\ Tail(q) \in Seq(S)
           /\ \A k \in DOMAIN Tail(q) : k + 1 \in DOMAIN q /\ Tail(q)[k] = q[k + 1]
           /\ \A k \in DOMAIN q :
                 k = 1 \/ (\E j \in DOMAIN Tail(q) : Tail(q)[j] = q[k])
           /\ Tail(q) # <<>> => Tail(q)[Len(Tail(q))] = q[Len(q)]
           /\ Tail(q) = <<>> => q[Len(q)] = Head(q)
<1>1. /\ Len(q) \in Nat \ {0} /\ DOMAIN q = 1 .. Len(q) /\ Head(q) = q[1]
      /\ Tail(q) \in Seq(S) /\ Len(Tail(q)) = Len(q) - 1
      /\ DOMAIN Tail(q) = 1 .. Len(q) - 1
      /\ \A k \in 1 .. Len(q) - 1 : Tail(q)[k] = q[k + 1]
  OBVIOUS
<1>2. ASSUME NEW k \in DOMAIN q, k # 1
      PROVE  \E j \in DOMAIN Tail(q) : Tail(q)[j] = q[k]
  <2>1. k - 1 \in DOMAIN Tail(q) /\ Tail(q)[k - 1] = q[(k - 1) + 1] /\ (k - 1) + 1 = k
    BY <1>1, <1>2
  <2> QED
    BY <2>1
<1>3. Tail(q) # <<>> => Tail(q)[Len(Tail(q))] = q[Len(q)]
  <2> SUFFICES ASSUME Tail(q) # <<>> PROVE Tail(q)[Len(Tail(q))] = q[Len(q)]
    OBVIOUS
  <2>1. Len(q) - 1 \in 1 .. Len(q) - 1
    BY <1>1
  <2>2. Tail(q)[Len(q) - 1] = q[(Len(q) - 1) + 1] /\ (Len(q) - 1) + 1 = Len(q)
    BY <1>1, <2>1
  <2> QED
    BY <1>1, <2>2
<1>4. Tail(q) = <<>> => q[Len(q)] = Head(q)
  <2>1. DOMAIN <<>> = {}
    OBVIOUS
  <2> DEFINE t == Tail(q)
  <2> HIDE DEF t
  <2>2. t = <<>> => Len(q) = 1
    <3>1. DOMAIN t = 1 .. Len(q) - 1
      BY <1>1 DEF t
    <3> SUFFICES ASSUME t = <<>> PROVE Len(q) = 1
      OBVIOUS
    <3>2. 1 .. Len(q) - 1 = {}
      BY <2>1, <3>1
    <3>3. Len(q) \in Nat \ {0}
      BY <1>1
    <3>4. \A n \in Nat \ {0} : n # 1 => 1 \in 1 .. n - 1
      OBVIOUS
    <3> QED
      BY <3>2, <3>3, <3>4
  <2> QED
    BY <1>1, <2>2 DEF t
<1> QED
  BY <1>1, <1>2, <1>3, <1>4

LEMMA Longer ==
    ASSUME NEW S, NEW q \in Seq(S), NEW c \in S
    PROVE  /\ Append(q, c) \in Seq(S) /\ Append(q, c) # <<>>
           /\ Append(q, c)[Len(Append(q, c))] = c
           /\ \A k \in DOMAIN Append(q, c) :
                 Append(q, c)[k] = c \/ (k \in DOMAIN q /\ Append(q, c)[k] = q[k])
OBVIOUS

LEMMA Ending ==
    ASSUME NEW S, NEW q \in Seq(S), q # <<>>
    PROVE  Len(q) \in DOMAIN q /\ q[Len(q)] \in S
OBVIOUS

LEMMA Joined ==
    ASSUME NEW S, NEW p \in Seq(S), NEW q \in Seq(S)
    PROVE  /\ \A k \in DOMAIN p : k \in DOMAIN (p \o q) /\ (p \o q)[k] = p[k]
           /\ \A k \in DOMAIN q :
                 Len(p) + k \in DOMAIN (p \o q) /\ (p \o q)[Len(p) + k] = q[k]
OBVIOUS

LEMMA Single ==
    ASSUME NEW S, NEW a \in S
    PROVE  /\ <<a>> \in Seq(S) /\ Len(<<a>>) = 1
           /\ DOMAIN <<a>> = {1} /\ <<a>>[1] = a
OBVIOUS

(* A product has something to multiply.                                    *)
LEMMA ProductsAreReal ==
    ASSUME Typed, NEW m \in Products
    PROVE  /\ m.weights \in Buffers /\ m.bias \in Buffers \cup {NoBuffer}
           /\ m.in \in Nat \ {0} /\ m.out \in Nat \ {0} /\ m.in * m.out \in Nat \ {0}
           /\ Needs(m) \subseteq UploadType
<1>1. /\ m.weights \in Buffers /\ m.bias \in Buffers \cup {NoBuffer}
      /\ m.in \in Nat \ {0} /\ m.out \in Nat \ {0}
  BY MatvecAssumption DEF Products, Typed
<1>2. \A i, o \in Nat \ {0} : i * o \in Nat \ {0}
  OBVIOUS
<1>3. m.in * m.out \in Nat \ {0}
  BY <1>1, <1>2
<1> QED
  BY <1>1, <1>3 DEF Needs, UploadType

LEMMA ShapesAreReal ==
    ASSUME Typed, NEW b \in Buffers, NEW n \in Shapes(b)
    PROVE  n \in Nat \ {0}
<1>1. PICK m \in Products : n = m.in * m.out \/ n = m.out
  BY DEF Shapes
<1> QED
  BY <1>1, ProductsAreReal

----------------------------------------------------------------------------
(* What the operations on device memory do to it.                          *)
LEMMA Storing ==
    ASSUME MemoryTyped, NEW a, NEW value, Store(a, value)
    PROVE  /\ MemoryTyped' /\ Live' = Live
           /\ \A e \in Addrs : /\ memory'[e].size = memory[e].size
                               /\ e # a => memory'[e] = memory[e]
           /\ a \in Live => memory'[a].data = value
<1>1. CASE a \notin Live
  BY <1>1 DEF Store, MemoryTyped, Live
<1>2. CASE a \in Live
  <2>1. a \in Addrs /\ memory[a] # Free /\ memory[a].size # 0
    BY <1>2 DEF Live, MemoryTyped
  <2>2. memory' = [e \in Addrs |-> IF e = a THEN [size |-> memory[a].size, data |-> value]
                                   ELSE memory[e]]
    BY <1>2, <2>1 DEF Store, MemoryTyped
  <2>3. MemoryTyped'
    BY <2>1, <2>2 DEF MemoryTyped
  <2>4. memory'[a] # Free
    BY <2>1, <2>2 DEF Free
  <2>5. Live' = Live
    BY <2>1, <2>2, <2>4 DEF Live, Free
  <2> QED
    BY <2>1, <2>2, <2>3, <2>5
<1> QED
  BY <1>1, <1>2

LEMMA Freeing ==
    ASSUME MemoryTyped, NEW f \in Addrs \cup {Null}, memory' = Freed(f)
    PROVE  /\ MemoryTyped' /\ Live' = Live \ {f}
           /\ \A e \in Addrs : e # f => memory'[e] = memory[e]
<1>1. memory' = [e \in Addrs |-> IF e = f THEN Free ELSE memory[e]]
  BY NullAssumption DEF Freed, MemoryTyped
<1>2. Free.size = 0 /\ Free = [size |-> Free.size, data |-> Free.data]
  BY DEF Free
<1>3. Free' = Free
  BY DEF Free
<1> HIDE DEF Free
<1>4. MemoryTyped'
  BY <1>1, <1>2, <1>3 DEF MemoryTyped
<1>5. Live' = Live \ {f}
  BY <1>1, <1>3 DEF Live
<1> QED
  BY <1>1, <1>4, <1>5

Replaced(f, a, n) == [Freed(f) EXCEPT ![a] = [size |-> n, data |-> Junk]]

LEMMA Allocating ==
    ASSUME MemoryTyped, NEW f \in Addrs \cup {Null}, NEW a \in FreeAfter(f),
           NEW n \in Nat \ {0}, memory' = Replaced(f, a, n)
    PROVE  /\ MemoryTyped' /\ Live' = (Live \ {f}) \cup {a}
           /\ a \in Addrs /\ (a \notin Live \/ a = f)
           /\ \A e \in Addrs : e # f /\ e # a => memory'[e] = memory[e]
           /\ memory'[a].size = n
<1>1. a \in Addrs /\ (a \notin Live \/ a = f)
  BY DEF FreeAfter
<1>2. memory' = [e \in Addrs |-> IF e = a THEN [size |-> n, data |-> Junk]
                                 ELSE IF e = f THEN Free ELSE memory[e]]
  BY <1>1, NullAssumption DEF Replaced, Freed, MemoryTyped
<1>3. memory'[a] = [size |-> n, data |-> Junk] /\ memory'[a] # Free
  BY <1>1, <1>2 DEF Free
<1>4. Free.size = 0 /\ Free = [size |-> Free.size, data |-> Free.data] /\ Free' = Free
  BY DEF Free
<1> HIDE DEF Free
<1>5. MemoryTyped'
  <2>1. ASSUME NEW e \in Addrs
        PROVE  /\ memory'[e] = [size |-> memory'[e].size, data |-> memory'[e].data]
               /\ memory'[e].size \in Nat
               /\ memory'[e].size = 0 => memory'[e] = Free
    <3>1. CASE e = a
      BY <1>3, <3>1
    <3>2. CASE e # a /\ e = f
      BY <1>2, <1>4, <3>2
    <3>3. CASE e # a /\ e # f
      BY <1>2, <3>3 DEF MemoryTyped
    <3> QED
      BY <3>1, <3>2, <3>3
  <2>2. memory' = [e \in Addrs |-> memory'[e]]
    BY <1>2
  <2> QED
    BY <1>4, <2>1, <2>2 DEF MemoryTyped
<1>6. Live' = (Live \ {f}) \cup {a}
  BY <1>1, <1>2, <1>3, <1>4 DEF Live
<1> QED
  BY <1>1, <1>2, <1>3, <1>5, <1>6

LEMMA Executing ==
    ASSUME Typed, MemoryTyped, CallTyped, Execute
    PROVE  /\ MemoryTyped' /\ Live' = Live
           /\ Head(queue) \in CommandType
           /\ \A e \in Addrs : /\ memory'[e].size = memory[e].size
                               /\ e # Target(Head(queue)) => memory'[e] = memory[e]
<1> DEFINE c == Head(queue)
<1>1. c \in CommandType
  BY Shorter DEF Typed, Execute
<1> HIDE DEF c
<1>2. Perform(c)
  BY DEF Execute, c
<1>3. CASE c.op = "upload" \/ c.op = "copy_in" \/ c.op = "kernel"
  <2>1. PICK value : Store(Target(c), value)
    BY <1>2, <1>3 DEF Perform, Target
  <2> QED
    BY <1>1, <2>1, Storing DEF c
<1>4. CASE c.op = "copy_out"
  <2>1. memory' = memory
    BY <1>2, <1>4 DEF Perform
  <2> QED
    BY <1>1, <2>1 DEF MemoryTyped, Live, c
<1> QED
  BY <1>2, <1>3, <1>4 DEF Perform

LEMMA Releasing ==
    ASSUME MemoryTyped, memory' = Released(Owned)
    PROVE  MemoryTyped' /\ Live' = Live \ Owned
<1>1. Free.size = 0 /\ Free = [size |-> Free.size, data |-> Free.data] /\ Free' = Free
  BY DEF Free
<1> HIDE DEF Free, Owned
<1> QED
  BY <1>1 DEF MemoryTyped, Live, Released

----------------------------------------------------------------------------
(* Where a product finds its matrix and its bias once they are uploaded.   *)
LEMMA Uploaded ==
    ASSUME BackendInv, pc \in Multiplying
    PROVE  LET m == call.matvec
           IN  /\ m \in Products
               /\ Resident(m.weights)
               /\ readonly_buffers[m.weights].ptr \in Addrs
               /\ readonly_buffers[m.weights].count = m.in * m.out
               /\ m.bias # NoBuffer => Resident(m.bias)
               /\ m.bias # NoBuffer => readonly_buffers[m.bias].ptr \in Addrs
               /\ m.bias # NoBuffer => readonly_buffers[m.bias].count = m.out
               /\ DeviceBias(m) \in Addrs \cup {Null}
<1> DEFINE m == call.matvec
           u == [buffer |-> m.weights, count |-> m.in * m.out]
           d == [buffer |-> m.bias, count |-> m.out]
<1>1. call.kind = "matvec" /\ m \in Products
  BY DEF BackendInv, CallTyped, Multiplying
<1>2. \A n \in Needs(m) : HasResident(n)
  BY <1>1 DEF BackendInv, Residency, Uploading, Multiplying
<1>3. u \in Needs(m) /\ (m.bias # NoBuffer => d \in Needs(m))
  BY DEF Needs
<1> HIDE DEF m
<1>4. /\ u.buffer = m.weights /\ u.count = m.in * m.out
      /\ d.buffer = m.bias /\ d.count = m.out
  OBVIOUS
<1> HIDE DEF u, d
<1>5. /\ Resident(m.weights) /\ readonly_buffers[m.weights].count = m.in * m.out
      /\ m.bias # NoBuffer =>
            Resident(m.bias) /\ readonly_buffers[m.bias].count = m.out
  BY <1>2, <1>3, <1>4 DEF HasResident
<1>6. \A b \in DOMAIN readonly_buffers : readonly_buffers[b].ptr \in Addrs
  BY DEF BackendInv, Typed
<1> QED
  BY <1>1, <1>5, <1>6 DEF m, Resident, DeviceBias

----------------------------------------------------------------------------
(* The steps, one lemma for each part of the invariant.                    *)
LEMMA StepTyped == BackendInv /\ Next => Typed'
<1> SUFFICES ASSUME BackendInv, Next PROVE Typed'
  OBVIOUS
<1>1. Typed
  BY DEF BackendInv
<1> USE DEF backendVars, hostVars, outcomeVars
<1>2. ASSUME NEW b \in Buffers, NEW n \in Shapes(b), Preload(b, n) PROVE Typed'
  <2>1. <<[buffer |-> b, count |-> n]>> \in Seq(UploadType)
    BY <1>1, ShapesAreReal DEF UploadType
  <2> QED
    BY <1>1, <1>2, <2>1 DEF Preload, Typed, Uploading
<1>3. ASSUME NEW m \in Products, NEW v \in Vectors, Multiply(m, v) PROVE Typed'
  <2>1. uploads' \in Seq(UploadType)
    <3>1. /\ [buffer |-> m.weights, count |-> m.in * m.out] \in UploadType
          /\ m.bias # NoBuffer => [buffer |-> m.bias, count |-> m.out] \in UploadType
      BY <1>1, ProductsAreReal DEF Needs
    <3>2. \A q, r \in Seq(UploadType) : q \o r \in Seq(UploadType)
      OBVIOUS
    <3> HIDE DEF UploadType
    <3>3. /\ <<[buffer |-> m.weights, count |-> m.in * m.out]>> \in Seq(UploadType)
          /\ (IF m.bias = NoBuffer THEN <<>> ELSE <<[buffer |-> m.bias, count |-> m.out]>>)
                \in Seq(UploadType)
      BY <3>1
    <3> QED
      BY <1>3, <3>2, <3>3 DEF Multiply
  <2> QED
    BY <1>1, <1>3, <2>1 DEF Multiply, Typed, Uploading
<1>4. CASE Attached \/ FreeModel \/ Destroy
  BY <1>1, <1>4 DEF Attached, FreeModel, Destroy, Typed
<1>5. CASE UploadsDone
  BY <1>1, <1>5 DEF UploadsDone, Return, Typed, Multiplying
<1>6. CASE UploadHit
  BY <1>1, <1>6, Shorter DEF UploadHit, Typed
<1>7. ASSUME NEW why, Throw(why),
             UNCHANGED <<caller, phase, readonly_buffers, scratch_x_count,
                         scratch_y_count, queue, host_live>>,
             scratch_x' \in {scratch_x, Null}, scratch_y' \in {scratch_y, Null}
      PROVE  Typed'
  BY <1>1, <1>7 DEF Throw, Typed
<1>8. CASE \/ UploadMismatch \/ UploadAllocationFails \/ UploadCopyFails
           \/ GrowScratchXFails \/ GrowScratchYFails \/ SubmitFails
  BY <1>7, <1>8 DEF UploadMismatch, UploadAllocationFails, UploadCopyFails,
                    GrowScratchXFails, GrowScratchYFails, SubmitFails, MayThrow
<1>9. CASE UploadAllocates
  BY <1>1, <1>9 DEF UploadAllocates, Typed, Uploading
<1>10. ASSUME NEW c \in CommandType, Enqueue(c) PROVE queue' \in Seq(CommandType)
  BY <1>1, <1>10, Longer DEF Enqueue, Typed
<1>11. CASE UploadCopies
  <2>1. uploads # <<>> /\ fresh \in Addrs
    BY <1>1, <1>11 DEF UploadCopies, BackendInv, CallTyped, Typed
  <2>2. Wanted \in UploadType
    BY <1>1, <2>1, Shorter DEF Wanted, Typed
  <2>3. [op |-> "upload", dst |-> fresh, buffer |-> Wanted.buffer, n |-> Wanted.count]
           \in CommandType
    BY <2>1, <2>2 DEF CommandType, UploadType
  <2>4. queue' \in Seq(CommandType)
    BY <1>10, <1>11, <2>3 DEF UploadCopies
  <2> HIDE DEF CommandType
  <2> QED
    BY <1>1, <1>11, <2>4 DEF UploadCopies, Typed, Uploading
<1>12. CASE UploadEmplaces
  <2>1. uploads # <<>> /\ fresh \in Addrs
    BY <1>1, <1>12 DEF UploadEmplaces, BackendInv, CallTyped, Typed
  <2>2. Wanted \in UploadType /\ Tail(uploads) \in Seq(UploadType)
    BY <1>1, <2>1, Shorter DEF Wanted, Typed
  <2>3. /\ DOMAIN Emplaced \subseteq Buffers
        /\ Emplaced \in [DOMAIN Emplaced -> [ptr : Addrs, count : Nat \ {0}]]
    BY <1>1, <2>1, <2>2 DEF Emplaced, Typed, UploadType
  <2> HIDE DEF Emplaced
  <2> QED
    BY <1>1, <1>12, <2>2, <2>3 DEF UploadEmplaces, Typed, Uploading
<1>13. CASE KeepScratchX \/ KeepScratchY
  BY <1>1, <1>13 DEF KeepScratchX, KeepScratchY, Typed, Multiplying
<1>14. CASE GrowScratchX \/ GrowScratchY
  <2>1. call.matvec \in Products
    BY <1>14 DEF BackendInv, CallTyped, GrowScratchX, GrowScratchY, Multiplying
  <2>2. call.matvec.in \in Nat /\ call.matvec.out \in Nat
    BY <1>1, <2>1, ProductsAreReal
  <2>3. \A f : FreeAfter(f) \subseteq Addrs \cup {f}
    BY DEF FreeAfter
  <2> QED
    BY <1>1, <1>14, <2>2, <2>3
    DEF GrowScratchX, GrowScratchY, Typed, Multiplying
<1>15. CASE CopyIn \/ Kernel \/ CopyOut
  <2> DEFINE m == call.matvec
  <2>1. pc \in Multiplying /\ call.kind = "matvec" /\ m \in Products
    BY <1>15 DEF BackendInv, CallTyped, CopyIn, Kernel, CopyOut, Multiplying
  <2>2. m.in \in Nat /\ m.out \in Nat
    BY <1>1, <2>1, ProductsAreReal
  <2>4. /\ readonly_buffers[m.weights].ptr \in Addrs
        /\ DeviceBias(m) \in Addrs \cup {Null}
    BY <2>1, Uploaded
  <2>5. /\ [op |-> "copy_in", dst |-> scratch_x, n |-> m.in] \in CommandType
        /\ [op |-> "copy_out", src |-> scratch_y, n |-> m.out] \in CommandType
        /\ [op |-> "kernel", in |-> m.in, out |-> m.out,
            w |-> readonly_buffers[m.weights].ptr, b |-> DeviceBias(m),
            x |-> scratch_x, y |-> scratch_y] \in CommandType
    BY <1>1, <2>2, <2>4 DEF CommandType, Typed
  <2> HIDE DEF CommandType, m
  <2>6. queue' \in Seq(CommandType)
    BY <1>10, <1>15, <2>5 DEF CopyIn, Kernel, CopyOut, m
  <2> QED
    BY <1>1, <1>15, <2>6 DEF CopyIn, Kernel, CopyOut, Typed, Multiplying
<1>16. CASE MatvecReturns
  BY <1>1, <1>16 DEF MatvecReturns, Return, Typed
<1>17. CASE Execute
  BY <1>1, <1>17, Shorter DEF Execute, Typed
<1>18. CASE Terminated
  BY <1>1, <1>18 DEF Terminated, vars, Typed
<1> QED
  BY <1>2, <1>3, <1>4, <1>5, <1>6, <1>8, <1>9, <1>11, <1>12, <1>13, <1>14, <1>15,
     <1>16, <1>17, <1>18 DEF Next, HostStep

(* What the steps that take and give back memory do.                       *)
LEMMA AllocatesEffect ==
    ASSUME BackendInv, UploadAllocates
    PROVE  /\ MemoryTyped' /\ fresh' \in Addrs /\ fresh' \notin Live
           /\ Live' = Live \cup {fresh'}
           /\ \A e \in Addrs : e # fresh' => memory'[e] = memory[e]
           /\ memory'[fresh'].size = Wanted.count
           /\ uploads # <<>> /\ Wanted \in UploadType
<1>1. Wanted.count \in Nat \ {0} /\ uploads # <<>> /\ Wanted \in UploadType
  <2>1. uploads # <<>> /\ uploads \in Seq(UploadType)
    BY DEF UploadAllocates, BackendInv, Typed
  <2>2. Wanted \in UploadType
    BY <2>1, Shorter DEF Wanted
  <2> QED
    BY <2>1, <2>2 DEF UploadType
<1>2. /\ fresh' \in FreeAfter(Null)
      /\ memory' = Replaced(Null, fresh', Wanted.count)
  BY DEF UploadAllocates, Allocated, Replaced, Freed, FreeAfter
<1>3. MemoryTyped /\ Null \in Addrs \cup {Null} /\ Null \notin Live
  BY NullAssumption DEF BackendInv, Live
<1>4. fresh' # Null /\ Live \ {Null} = Live
  BY <1>2, <1>3, NullAssumption DEF FreeAfter
<1> DEFINE n == Wanted.count
           a == fresh'
           f == Null
<1> HIDE DEF n, a, f
<1>5. /\ f \in Addrs \cup {Null} /\ n \in Nat \ {0} /\ MemoryTyped /\ a \in FreeAfter(f)
      /\ memory' = Replaced(f, a, n)
  BY <1>1, <1>2, <1>3 DEF n, f, a
<1>6. /\ MemoryTyped' /\ Live' = (Live \ {f}) \cup {a}
      /\ a \in Addrs /\ (a \notin Live \/ a = f)
      /\ \A e \in Addrs : e # f /\ e # a => memory'[e] = memory[e]
      /\ memory'[a].size = n
  BY <1>5, Allocating
<1> QED
  BY <1>1, <1>4, <1>6, NullAssumption DEF n, f, a

LEMMA GrowXEffect ==
    ASSUME BackendInv, GrowScratchX
    PROVE  /\ MemoryTyped' /\ scratch_x' \in Addrs
           /\ scratch_x' \notin Live \/ scratch_x' = scratch_x
           /\ Live' = (Live \ {scratch_x}) \cup {scratch_x'}
           /\ \A e \in Addrs : e # scratch_x /\ e # scratch_x' => memory'[e] = memory[e]
           /\ memory'[scratch_x'].size = call.matvec.in
<1>1. call.matvec.in \in Nat \ {0}
  BY Uploaded, ProductsAreReal DEF GrowScratchX, Multiplying, BackendInv
<1>2. scratch_x \in Addrs \cup {Null} /\ MemoryTyped
  BY DEF BackendInv, Typed
<1> DEFINE n == call.matvec.in
           f == scratch_x
<1>3. PICK a \in FreeAfter(f) :
        /\ scratch_x' = a
        /\ memory' = Replaced(f, a, n)
  BY DEF GrowScratchX, Replaced
<1> HIDE DEF n, f
<1>4. f \in Addrs \cup {Null} /\ n \in Nat \ {0} /\ MemoryTyped
  BY <1>1, <1>2 DEF n, f
<1>5. /\ MemoryTyped' /\ Live' = (Live \ {f}) \cup {a}
      /\ a \in Addrs /\ (a \notin Live \/ a = f)
      /\ \A e \in Addrs : e # f /\ e # a => memory'[e] = memory[e]
      /\ memory'[a].size = n
  BY <1>3, <1>4, Allocating
<1> QED
  BY <1>3, <1>5 DEF n, f

LEMMA GrowYEffect ==
    ASSUME BackendInv, GrowScratchY
    PROVE  /\ MemoryTyped' /\ scratch_y' \in Addrs
           /\ scratch_y' \notin Live \/ scratch_y' = scratch_y
           /\ Live' = (Live \ {scratch_y}) \cup {scratch_y'}
           /\ \A e \in Addrs : e # scratch_y /\ e # scratch_y' => memory'[e] = memory[e]
           /\ memory'[scratch_y'].size = call.matvec.out
<1>1. call.matvec.out \in Nat \ {0}
  BY Uploaded, ProductsAreReal DEF GrowScratchY, Multiplying, BackendInv
<1>2. scratch_y \in Addrs \cup {Null} /\ MemoryTyped
  BY DEF BackendInv, Typed
<1> DEFINE n == call.matvec.out
           f == scratch_y
<1>3. PICK a \in FreeAfter(f) :
        /\ scratch_y' = a
        /\ memory' = Replaced(f, a, n)
  BY DEF GrowScratchY, Replaced
<1> HIDE DEF n, f
<1>4. f \in Addrs \cup {Null} /\ n \in Nat \ {0} /\ MemoryTyped
  BY <1>1, <1>2 DEF n, f
<1>5. /\ MemoryTyped' /\ Live' = (Live \ {f}) \cup {a}
      /\ a \in Addrs /\ (a \notin Live \/ a = f)
      /\ \A e \in Addrs : e # f /\ e # a => memory'[e] = memory[e]
      /\ memory'[a].size = n
  BY <1>3, <1>4, Allocating
<1> QED
  BY <1>3, <1>5 DEF n, f

LEMMA GrowFailsEffect ==
    ASSUME BackendInv, GrowScratchXFails \/ GrowScratchYFails
    PROVE  LET f == IF GrowScratchXFails THEN scratch_x ELSE scratch_y
           IN  /\ MemoryTyped' /\ Live' = Live \ {f}
               /\ \A e \in Addrs : e # f => memory'[e] = memory[e]
<1>1. scratch_x \in Addrs \cup {Null} /\ scratch_y \in Addrs \cup {Null} /\ MemoryTyped
  BY DEF BackendInv, Typed
<1>2. CASE GrowScratchXFails
  BY <1>1, <1>2, Freeing DEF GrowScratchXFails
<1>3. CASE ~GrowScratchXFails
  BY <1>1, <1>3, Freeing DEF GrowScratchYFails
<1> QED
  BY <1>2, <1>3

(* The other steps leave memory alone.                                     *)
Quiet ==
    \/ \E b \in Buffers : \E n \in Shapes(b) : Preload(b, n)
    \/ \E m \in Products, v \in Vectors : Multiply(m, v)
    \/ Attached \/ UploadsDone \/ UploadHit \/ UploadMismatch \/ UploadAllocationFails
    \/ UploadCopies \/ UploadCopyFails \/ UploadEmplaces
    \/ KeepScratchX \/ KeepScratchY \/ CopyIn \/ Kernel \/ CopyOut \/ SubmitFails
    \/ MatvecReturns \/ FreeModel \/ Terminated

LEMMA QuietSteps ==
    /\ Next <=> \/ Quiet \/ UploadAllocates \/ GrowScratchX \/ GrowScratchXFails
                \/ GrowScratchY \/ GrowScratchYFails \/ Execute \/ Destroy
    /\ Quiet => memory' = memory
<1>1. Quiet => memory' = memory
  BY DEF Quiet, Preload, Multiply, Attached, UploadsDone, UploadHit, UploadMismatch,
         UploadAllocationFails, UploadCopies, UploadCopyFails, UploadEmplaces,
         KeepScratchX, KeepScratchY, CopyIn, Kernel, CopyOut, SubmitFails,
         MatvecReturns, FreeModel, Terminated, vars
<1> QED
  BY <1>1 DEF Quiet, Next, HostStep

LEMMA StepMemoryTyped == BackendInv /\ Next => MemoryTyped'
<1> SUFFICES ASSUME BackendInv, Next PROVE MemoryTyped'
  OBVIOUS
<1>1. CASE Quiet
  BY <1>1, QuietSteps DEF BackendInv, MemoryTyped
<1>2. CASE Execute
  BY <1>2, Executing DEF BackendInv
<1>3. CASE Destroy
  BY <1>3, Releasing DEF BackendInv, Destroy
<1> QED
  BY <1>1, <1>2, <1>3, QuietSteps, AllocatesEffect, GrowXEffect, GrowYEffect,
     GrowFailsEffect

LEMMA StepCallTyped == BackendInv /\ Next => CallTyped'
<1> SUFFICES ASSUME BackendInv, Next PROVE CallTyped'
  OBVIOUS
<1>1. CallTyped /\ Typed /\ NoCall.kind = "none"
  BY DEF BackendInv, NoCall
<1> USE <1>1, NullAssumption DEF backendVars, hostVars, outcomeVars
<1>2. ASSUME NEW b \in Buffers, NEW n \in Shapes(b), Preload(b, n) PROVE CallTyped'
  <2>1. call' # NoCall
    BY <1>2 DEF Preload, NoCall
  <2> QED
    BY <1>2, <2>1
    DEF Preload, CallTyped, MayCall, Calling, Uploading, Multiplying, NoCall
<1>3. ASSUME NEW m \in Products, NEW v \in Vectors, Multiply(m, v) PROVE CallTyped'
  <2>1. /\ call' = [kind |-> "matvec", matvec |-> m, x |-> v]
        /\ pc' = "upload" /\ phase' = "serve" /\ fresh' = Null
    BY <1>3 DEF Multiply, MayCall, Calling, CallTyped
  <2>2. call' # NoCall /\ call'.kind = "matvec" /\ call'.matvec = m /\ call'.x = v
    BY <2>1 DEF NoCall
  <2>3. Products' = Products /\ NoCall' = NoCall
    BY <1>3 DEF Multiply, Products, NoCall
  <2> QED
    BY <2>1, <2>2, <2>3 DEF CallTyped, Uploading, Multiplying
<1>4. CASE Attached \/ FreeModel
  BY <1>4 DEF Attached, FreeModel, CallTyped, Uploading, Multiplying, NoCall, Calling,
              Products
<1>5. CASE Destroy
  BY <1>5 DEF Destroy, MayDestroy, Waited, CallTyped, Uploading, Multiplying, NoCall, Products
<1>6. CASE UploadsDone
  <2>1. CASE call.kind = "preload"
    BY <1>6, <2>1 DEF UploadsDone, Return, CallTyped, Uploading, Multiplying, NoCall
  <2>2. CASE call.kind # "preload"
    <3>1. call = [kind |-> "matvec", matvec |-> call.matvec, x |-> call.x]
      BY <1>6, <2>2 DEF UploadsDone, CallTyped, Uploading
    <3> QED
      BY <1>6, <2>2, <3>1
      DEF UploadsDone, CallTyped, Uploading, Multiplying, NoCall, Products
  <2> QED
    BY <2>1, <2>2
<1>7. CASE UploadHit
  BY <1>7 DEF UploadHit, CallTyped, Uploading, Multiplying, NoCall, Products
<1>8. ASSUME NEW why, Throw(why), UNCHANGED <<caller, phase, queue>>, pc # "idle"
      PROVE  CallTyped'
  BY <1>8 DEF Throw, CallTyped, Uploading, Multiplying, NoCall, Products
<1>9. CASE \/ UploadMismatch \/ UploadAllocationFails \/ UploadCopyFails
           \/ GrowScratchXFails \/ GrowScratchYFails \/ SubmitFails
  BY <1>8, <1>9 DEF UploadMismatch, UploadAllocationFails, UploadCopyFails,
                    GrowScratchXFails, GrowScratchYFails, SubmitFails, MayThrow
<1>10. CASE UploadAllocates
  BY <1>10, AllocatesEffect
  DEF UploadAllocates, CallTyped, Uploading, Multiplying, NoCall, Products
<1>11. CASE UploadCopies
  BY <1>11 DEF UploadCopies, Enqueue, CallTyped, Uploading, Multiplying, NoCall, Products
<1>12. CASE UploadEmplaces
  BY <1>12 DEF UploadEmplaces, CallTyped, Uploading, Multiplying, NoCall, Products
<1>13. CASE KeepScratchX \/ KeepScratchY \/ GrowScratchX \/ GrowScratchY
  BY <1>13 DEF KeepScratchX, KeepScratchY, GrowScratchX, GrowScratchY, CallTyped,
               Uploading, Multiplying, NoCall, Products
<1>14. CASE CopyIn \/ Kernel \/ CopyOut
  <2>1. /\ pc \in Multiplying /\ pc' \in Multiplying
        /\ UNCHANGED <<caller, phase, call, uploads, fresh>>
    BY <1>14 DEF CopyIn, Kernel, CopyOut, Multiplying
  <2> QED
    BY <2>1 DEF CallTyped, Uploading, Multiplying, NoCall, Products
<1>15. CASE MatvecReturns
  BY <1>15 DEF MatvecReturns, Return, CallTyped, Uploading, Multiplying, NoCall
<1>16. CASE Execute
  BY <1>16 DEF Execute, CallTyped, Uploading, Multiplying, NoCall, Products
<1>17. CASE Terminated
  BY <1>17 DEF Terminated, vars, CallTyped, Uploading, Multiplying, NoCall, Products
<1> QED
  BY <1>2, <1>3, <1>4, <1>5, <1>6, <1>7, <1>9, <1>10, <1>11, <1>12, <1>13, <1>14,
     <1>15, <1>16, <1>17 DEF Next, HostStep

LEMMA StepResidency == BackendInv /\ Next => Residency'
<1> SUFFICES ASSUME BackendInv, Next PROVE Residency'
  OBVIOUS
<1>1. CallTyped /\ Typed /\ Residency /\ NoCall.kind = "none"
  BY DEF BackendInv, NoCall
<1> USE DEF backendVars, hostVars, outcomeVars
<1>2. ASSUME NEW b \in Buffers, NEW n \in Shapes(b), Preload(b, n) PROVE Residency'
  BY <1>2 DEF Preload, Residency
<1>3. ASSUME NEW m \in Products, NEW v \in Vectors, Multiply(m, v) PROVE Residency'
  <2> DEFINE w == [buffer |-> m.weights, count |-> m.in * m.out]
             d == [buffer |-> m.bias, count |-> m.out]
  <2>1. /\ call' = [kind |-> "matvec", matvec |-> m, x |-> v] /\ pc' = "upload"
        /\ uploads' = <<w>> \o (IF m.bias = NoBuffer THEN <<>> ELSE <<d>>)
    BY <1>3 DEF Multiply
  <2>2. Needs(m) = {w} \cup (IF m.bias = NoBuffer THEN {} ELSE {d})
    BY DEF Needs
  <2> HIDE DEF w, d
  <2>3. \A u \in Needs(m) : \E k \in DOMAIN uploads' : uploads'[k] = u
    <3> DEFINE S == {w, d}
               first == <<w>>
               rest == IF m.bias = NoBuffer THEN <<>> ELSE <<d>>
    <3>1. first \in Seq(S) /\ 1 \in DOMAIN first /\ first[1] = w
      BY Single
    <3>2. CASE m.bias = NoBuffer
      <4>1. rest \in Seq(S)
        BY <3>2
      <4>2. uploads' = first \o rest
        BY <2>1
      <4> HIDE DEF first, rest, S
      <4>3. 1 \in DOMAIN uploads' /\ uploads'[1] = w
        BY <3>1, <4>1, <4>2, Joined
      <4> QED
        BY <2>2, <3>2, <4>3
    <3>3. CASE m.bias # NoBuffer
      <4>1. rest \in Seq(S) /\ 1 \in DOMAIN rest /\ rest[1] = d
        <5>1. rest = <<d>> /\ d \in S
          BY <3>3
        <5> HIDE DEF rest, S
        <5>2. <<d>> \in Seq(S) /\ DOMAIN <<d>> = {1} /\ <<d>>[1] = d
          BY <5>1, Single
        <5> QED
          BY <5>1, <5>2
      <4>2. uploads' = first \o rest
        BY <2>1
      <4> HIDE DEF first, rest, S
      <4>3. 1 \in DOMAIN uploads' /\ uploads'[1] = w
        BY <3>1, <4>1, <4>2, Joined
      <4>4. /\ Len(first) + 1 \in DOMAIN uploads'
            /\ uploads'[Len(first) + 1] = rest[1]
        BY <3>1, <4>1, <4>2, Joined
      <4> QED
        BY <2>2, <3>3, <4>1, <4>3, <4>4
    <3> QED
      BY <3>2, <3>3
  <2>4. call'.matvec = m /\ Needs(m)' = Needs(m)
    BY <2>1 DEF Needs
  <2> QED
    BY <2>1, <2>3, <2>4 DEF Residency, Uploading, Needs
<1>4. ASSUME UNCHANGED <<call, readonly_buffers, uploads>>, pc' = pc PROVE Residency'
  BY <1>1, <1>4 DEF Residency, HasResident, Resident, Uploading, Needs
<1>5. CASE Attached \/ FreeModel \/ Destroy \/ Execute \/ Terminated
  BY <1>4, <1>5 DEF Attached, FreeModel, Destroy, Execute, Terminated, vars
<1>6. CASE UploadsDone
  <2>1. CASE call.kind = "preload"
    BY <1>1, <1>6, <2>1 DEF UploadsDone, Return, Residency
  <2>2. CASE call.kind # "preload"
    <3>1. /\ UNCHANGED <<call, readonly_buffers, uploads>> /\ uploads = <<>>
      BY <1>6, <2>2 DEF UploadsDone
    <3>2. \A k \in DOMAIN uploads : FALSE
      BY <3>1
    <3> QED
      BY <1>1, <3>1, <3>2 DEF Residency, HasResident, Resident, Needs
  <2> QED
    BY <2>1, <2>2
<1>7. CASE UploadHit
  <2>1. /\ UNCHANGED <<call, readonly_buffers, pc>> /\ uploads' = Tail(uploads)
        /\ uploads # <<>> /\ HasResident(Head(uploads)) /\ pc = "upload"
    BY <1>7 DEF UploadHit, HasResident, Wanted
  <2>2. \A k \in DOMAIN uploads :
          \/ uploads[k] = Head(uploads)
          \/ \E j \in DOMAIN uploads' : uploads'[j] = uploads[k]
    BY <1>1, <2>1, Shorter DEF Typed
  <2>3. \A u : HasResident(u)' = HasResident(u)
    BY <2>1 DEF HasResident, Resident
  <2> QED
    BY <1>1, <2>1, <2>2, <2>3 DEF Residency, Uploading, Needs
<1>8. ASSUME NEW why, Throw(why) PROVE Residency'
  BY <1>1, <1>8 DEF Throw, Residency
<1>9. CASE \/ UploadMismatch \/ UploadAllocationFails \/ UploadCopyFails
           \/ GrowScratchXFails \/ GrowScratchYFails \/ SubmitFails
  BY <1>8, <1>9 DEF UploadMismatch, UploadAllocationFails, UploadCopyFails,
                    GrowScratchXFails, GrowScratchYFails, SubmitFails, MayThrow
<1>10. CASE UploadAllocates \/ UploadCopies
  <2>1. /\ UNCHANGED <<call, readonly_buffers, uploads>>
        /\ pc \in Uploading /\ pc' \in Uploading
    BY <1>10 DEF UploadAllocates, UploadCopies, Uploading
  <2> QED
    BY <1>1, <2>1 DEF Residency, HasResident, Resident, Needs, Uploading
<1>11. CASE UploadEmplaces
  <2>1. /\ call' = call /\ uploads' = Tail(uploads) /\ readonly_buffers' = Emplaced
        /\ uploads # <<>> /\ ~Resident(Wanted.buffer) /\ pc = "copying" /\ pc' = "upload"
    BY <1>11 DEF UploadEmplaces, BackendInv, CallTyped, Coherence
  <2>2. \A k \in DOMAIN uploads :
          \/ uploads[k] = Wanted
          \/ \E j \in DOMAIN uploads' : uploads'[j] = uploads[k]
    BY <1>1, <2>1, Shorter DEF Typed, Wanted
  <2>3. \A u : HasResident(u) \/ u = Wanted =>
          u.buffer \in DOMAIN readonly_buffers'
            /\ readonly_buffers'[u.buffer].count = u.count
    BY <2>1 DEF HasResident, Resident, Emplaced
  <2> QED
    BY <1>1, <2>1, <2>2, <2>3 DEF Residency, Uploading, Needs, HasResident, Resident
<1>12. CASE \/ KeepScratchX \/ KeepScratchY \/ GrowScratchX \/ GrowScratchY
            \/ CopyIn \/ Kernel \/ CopyOut
  <2>1. UNCHANGED <<call, readonly_buffers, uploads>> /\ pc \in Multiplying
    BY <1>12 DEF KeepScratchX, KeepScratchY, GrowScratchX, GrowScratchY, CopyIn, Kernel,
                 CopyOut, Multiplying
  <2>2. call.kind = "matvec" => \A u \in Needs(call.matvec) : HasResident(u)
    BY <1>1, <2>1 DEF Residency, Multiplying, Uploading
  <2> QED
    BY <2>1, <2>2 DEF Residency, HasResident, Resident, Needs
<1>13. CASE MatvecReturns
  BY <1>1, <1>13 DEF MatvecReturns, Return, Residency
<1> QED
  BY <1>2, <1>3, <1>5, <1>6, <1>7, <1>9, <1>10, <1>11, <1>12, <1>13 DEF Next, HostStep

LEMMA StepOwnership == BackendInv /\ Next => Ownership'
<1> SUFFICES ASSUME BackendInv, Next PROVE Ownership'
  OBVIOUS
<1>1. /\ Typed /\ Ownership /\ CallTyped /\ MemoryTyped
      /\ DOMAIN readonly_buffers \subseteq Buffers
      /\ \A b \in DOMAIN readonly_buffers : readonly_buffers[b].ptr \in Addrs
      /\ Null \notin Live
  BY NullAssumption DEF BackendInv, Typed, Live
<1> USE DEF backendVars, hostVars, outcomeVars
<1>2. ASSUME Live' = Live, UNCHANGED <<readonly_buffers, scratch_x, scratch_y>>,
             fresh' \in {fresh, Null}, phase # "closed"
      PROVE  Ownership'
  BY <1>1, <1>2 DEF Ownership
<1>3. CASE Quiet /\ ~UploadEmplaces
  <2>1. memory' = memory /\ Live' = Live
    BY <1>3, QuietSteps DEF Live, Free
  <2>2. CASE phase # "closed"
    <3>1. UNCHANGED <<readonly_buffers, scratch_x, scratch_y>> /\ fresh' \in {fresh, Null}
      BY <1>3 DEF Quiet, Preload, Multiply, Attached, UploadsDone, UploadHit,
            UploadMismatch, UploadAllocationFails, UploadCopies, UploadCopyFails,
            KeepScratchX, KeepScratchY, CopyIn, Kernel, CopyOut, SubmitFails,
            MatvecReturns, FreeModel, Terminated, vars, MayThrow, Throw
    <3> QED
      BY <1>2, <2>1, <2>2, <3>1
  <2>3. CASE phase = "closed"
    <3>1. pc = "idle"
      BY <1>1, <2>3 DEF CallTyped
    <3>2. phase' = "closed"
      BY <1>3, <2>3, <3>1 DEF Quiet, Preload, MayCall, Calling, Multiply, Attached,
            UploadsDone, UploadHit, UploadMismatch, UploadAllocationFails, UploadCopies,
            UploadCopyFails, KeepScratchX, KeepScratchY, CopyIn, Kernel, CopyOut,
            SubmitFails, MatvecReturns, FreeModel, Terminated, vars
    <3> QED
      BY <3>2 DEF Ownership
  <2> QED
    BY <2>2, <2>3
<1>4. CASE UploadEmplaces
  <2>1. /\ fresh \in Live /\ pc = "copying" /\ phase # "closed"
        /\ ~Resident(Wanted.buffer)
    BY <1>1, <1>4 DEF UploadEmplaces, CallTyped, Ownership, BackendInv, Coherence
  <2>2. /\ readonly_buffers' = Emplaced /\ fresh' = Null /\ memory' = memory
        /\ UNCHANGED <<scratch_x, scratch_y>> /\ Live' = Live
    BY <1>4 DEF UploadEmplaces, Live, Free
  <2>3. /\ DOMAIN Emplaced = DOMAIN readonly_buffers \cup {Wanted.buffer}
        /\ Emplaced[Wanted.buffer].ptr = fresh
        /\ \A b \in DOMAIN readonly_buffers : Emplaced[b] = readonly_buffers[b]
    BY <2>1 DEF Emplaced, Resident
  <2> HIDE DEF Emplaced
  <2> QED
    BY <1>1, <2>1, <2>2, <2>3 DEF Ownership
<1>5. CASE UploadAllocates
  <2>1. /\ fresh' \in Addrs /\ fresh' \notin Live /\ Live' = Live \cup {fresh'}
        /\ UNCHANGED <<readonly_buffers, scratch_x, scratch_y, phase>>
    BY <1>5, AllocatesEffect DEF UploadAllocates
  <2> QED
    BY <1>1, <2>1 DEF Ownership
<1>6. CASE GrowScratchX
  <2>1. /\ scratch_x' \in Addrs /\ (scratch_x' \notin Live \/ scratch_x' = scratch_x)
        /\ Live' = (Live \ {scratch_x}) \cup {scratch_x'}
        /\ UNCHANGED <<readonly_buffers, scratch_y, fresh, phase>>
    BY <1>6, GrowXEffect DEF GrowScratchX
  <2> QED
    BY <1>1, <2>1 DEF Ownership
<1>7. CASE GrowScratchY
  <2>1. /\ scratch_y' \in Addrs /\ (scratch_y' \notin Live \/ scratch_y' = scratch_y)
        /\ Live' = (Live \ {scratch_y}) \cup {scratch_y'}
        /\ UNCHANGED <<readonly_buffers, scratch_x, fresh, phase>>
    BY <1>7, GrowYEffect DEF GrowScratchY
  <2> QED
    BY <1>1, <2>1 DEF Ownership
<1>8. CASE GrowScratchXFails
  <2>1. /\ Live' = Live \ {scratch_x} /\ scratch_x' = Null /\ fresh' = Null
        /\ UNCHANGED <<readonly_buffers, scratch_y, phase>>
    BY <1>8, GrowFailsEffect DEF GrowScratchXFails, MayThrow, Throw
  <2> QED
    BY <1>1, <2>1 DEF Ownership
<1>9. CASE GrowScratchYFails
  <2>1. /\ Live' = Live \ {scratch_y} /\ scratch_y' = Null /\ fresh' = Null
        /\ UNCHANGED <<readonly_buffers, scratch_x, phase>>
    <3>1. ~GrowScratchXFails
      BY <1>9 DEF GrowScratchXFails, GrowScratchYFails
    <3> QED
      BY <1>9, <3>1, GrowFailsEffect DEF GrowScratchYFails, MayThrow, Throw
  <2> QED
    BY <1>1, <2>1 DEF Ownership
<1>10. CASE Execute
  <2>1. /\ Live' = Live /\ UNCHANGED <<readonly_buffers, scratch_x, scratch_y, fresh, phase>>
    BY <1>1, <1>10, Executing DEF Execute
  <2> QED
    BY <1>1, <2>1 DEF Ownership
<1>11. CASE Destroy
  BY <1>11 DEF Destroy, Ownership
<1> QED
  BY <1>3, <1>4, <1>5, <1>6, <1>7, <1>8, <1>9, <1>10, <1>11, QuietSteps

LEMMA CommandsChange ==
    ASSUME Typed
    PROVE  /\ \A c \in CommandType : Enqueue(c) => Commands' \subseteq Commands \cup {c}
           /\ queue # <<>> => Head(queue) \in Commands
           /\ queue # <<>> /\ queue' = Tail(queue) => Commands' \subseteq Commands
           /\ queue' = queue => Commands' = Commands
           /\ queue = <<>> => Commands = {}
           /\ Commands \subseteq CommandType
<1>1. queue \in Seq(CommandType)
  BY DEF Typed
<1> HIDE DEF CommandType
<1>2. ASSUME NEW c \in CommandType, Enqueue(c) PROVE Commands' \subseteq Commands \cup {c}
  BY <1>1, <1>2, Longer DEF Enqueue, Commands
<1>3. queue # <<>> => Head(queue) \in Commands
  BY <1>1, Shorter DEF Commands
<1>4. queue # <<>> /\ queue' = Tail(queue) => Commands' \subseteq Commands
  BY <1>1, Shorter DEF Commands
<1>5. queue = <<>> => Commands = {}
  BY DEF Commands
<1>6. Commands \subseteq CommandType
  BY <1>1 DEF Commands
<1>7. queue' = queue => Commands' = Commands
  BY DEF Commands
<1> HIDE DEF Commands
<1> QED
  BY <1>2, <1>3, <1>4, <1>5, <1>6, <1>7

LEMMA StepCoherence == BackendInv /\ Next => Coherence'
<1> SUFFICES ASSUME BackendInv, Next PROVE Coherence'
  OBVIOUS
<1>1. /\ Typed /\ Ownership /\ CallTyped /\ MemoryTyped /\ Coherence
      /\ DOMAIN readonly_buffers \subseteq Buffers
      /\ \A b \in DOMAIN readonly_buffers : readonly_buffers[b].ptr \in Addrs
      /\ Null \notin Addrs /\ Live \subseteq Addrs
  BY NullAssumption DEF BackendInv, Typed, Live
<1> USE DEF backendVars, hostVars, outcomeVars
<1> DEFINE Targets == \A c \in Commands : \A b \in DOMAIN readonly_buffers :
                         Target(c) # readonly_buffers[b].ptr
<1>2. ASSUME \A b \in DOMAIN readonly_buffers :
                memory'[readonly_buffers[b].ptr] = memory[readonly_buffers[b].ptr],
             readonly_buffers' = readonly_buffers, phase' # "closed" => phase # "closed"
      PROVE  ResidentCoherent'
  BY <1>1, <1>2 DEF Coherence, ResidentCoherent
<1>3. ASSUME Commands' \subseteq Commands, readonly_buffers' = readonly_buffers PROVE Targets'
  BY <1>1, <1>3 DEF Coherence, Target
<1>4. ASSUME NEW c \in CommandType, Enqueue(c), readonly_buffers' = readonly_buffers,
             Target(c) \in {scratch_x, scratch_y, fresh, Null}, phase # "closed"
      PROVE  Targets'
  <2>1. Commands' \subseteq Commands \cup {c}
    BY <1>1, <1>4, CommandsChange
  <2>2. \A b \in DOMAIN readonly_buffers : Target(c) # readonly_buffers[b].ptr
    BY <1>1, <1>4 DEF Ownership
  <2> QED
    BY <1>1, <1>4, <2>1, <2>2 DEF Coherence, Target
<1>5. CASE Quiet /\ ~(UploadCopies \/ UploadEmplaces \/ CopyIn \/ Kernel \/ CopyOut)
  <2>1. memory' = memory
    BY <1>5, QuietSteps
  <2>2. /\ UNCHANGED <<readonly_buffers, queue>>
        /\ phase' # "closed" => phase # "closed"
        /\ pc' \notin {"copy", "copying"}
    BY <1>1, <1>5 DEF Quiet, Preload, MayCall, Calling, Multiply, Attached, UploadsDone,
          UploadHit, UploadMismatch, UploadAllocationFails, UploadCopyFails,
          KeepScratchX, KeepScratchY, SubmitFails, MatvecReturns, Return, FreeModel,
          Terminated, vars, MayThrow, Throw, CallTyped
  <2>3. Commands' = Commands
    BY <2>2 DEF Commands
  <2> QED
    BY <1>2, <1>3, <2>1, <2>2, <2>3 DEF Coherence
<1>6. CASE UploadCopies
  <2> DEFINE c == [op |-> "upload", dst |-> fresh, buffer |-> Wanted.buffer,
                   n |-> Wanted.count]
  <2>1. /\ pc = "copy" /\ pc' = "copying" /\ phase # "closed" /\ fresh \in Addrs
        /\ uploads # <<>> /\ Enqueue(c) /\ memory' = memory
        /\ UNCHANGED <<readonly_buffers, fresh, uploads, phase>>
    BY <1>1, <1>6 DEF UploadCopies, CallTyped, Typed
  <2>2. Wanted \in UploadType
    BY <1>1, <2>1, Shorter DEF Wanted, Typed
  <2>3. c \in CommandType /\ Target(c) = fresh
    BY <2>1, <2>2 DEF CommandType, UploadType, Target
  <2> HIDE DEF c
  <2>4. queue' # <<>> /\ queue'[Len(queue')] = c
    BY <1>1, <2>1, <2>3, Longer DEF Enqueue, Typed
  <2>5. Wanted' = Wanted
    BY <2>1 DEF Wanted
  <2>6. Targets'
    BY <1>4, <2>1, <2>3
  <2> QED
    BY <1>1, <1>2, <2>1, <2>4, <2>5, <2>6 DEF Coherence, Resident, c
<1>7. CASE UploadEmplaces
  <2>1. /\ fresh \in Addrs /\ queue = <<>> /\ queue' = queue /\ memory' = memory
        /\ ~Resident(Wanted.buffer) /\ phase # "closed" /\ pc' = "upload"
        /\ readonly_buffers' = Emplaced
        /\ memory[fresh] = [size |-> Wanted.count, data |-> Wanted.buffer]
    BY <1>1, <1>7 DEF UploadEmplaces, Waited, CallTyped, Typed, Coherence, MemoryTyped
  <2>2. /\ DOMAIN Emplaced = DOMAIN readonly_buffers \cup {Wanted.buffer}
        /\ Emplaced[Wanted.buffer] = [ptr |-> fresh, count |-> Wanted.count]
        /\ \A b \in DOMAIN readonly_buffers : Emplaced[b] = readonly_buffers[b]
    BY <2>1 DEF Emplaced, Resident
  <2> HIDE DEF Emplaced
  <2>3. ResidentCoherent'
    BY <1>1, <2>1, <2>2 DEF Coherence, ResidentCoherent
  <2>4. Commands' = {}
    BY <2>1 DEF Commands
  <2> QED
    BY <2>1, <2>3, <2>4 DEF Coherence
<1>8. CASE CopyIn \/ Kernel \/ CopyOut
  <2>1. pc \in Multiplying /\ phase # "closed"
    BY <1>1, <1>8 DEF CopyIn, Kernel, CopyOut, Multiplying, CallTyped
  <2>2. call.matvec.in \in Nat /\ call.matvec.out \in Nat
    BY <1>1, <2>1, Uploaded, ProductsAreReal
  <2>3. PICK c \in CommandType : Enqueue(c) /\ Target(c) \in {scratch_x, scratch_y, Null}
    <3>1. /\ CopyIn => Enqueue(CopiesX)
          /\ Kernel => Enqueue(Computes)
          /\ CopyOut => Enqueue(CopiesY)
      BY DEF CopyIn, Kernel, CopyOut, CopiesX, Computes, CopiesY
    <3>2. CopiesX \in CommandType /\ Computes \in CommandType /\ CopiesY \in CommandType
      BY <1>1, <2>1, <2>2, Uploaded DEF CopiesX, Computes, CopiesY, CommandType, Typed
    <3>3. /\ Target(CopiesX) = scratch_x /\ Target(Computes) = scratch_y
          /\ Target(CopiesY) = Null
      BY DEF Target, CopiesX, Computes, CopiesY
    <3> QED
      BY <1>8, <3>1, <3>2, <3>3
  <2>4. /\ UNCHANGED <<readonly_buffers, memory, phase>> /\ pc' \notin {"copy", "copying"}
    BY <1>8 DEF CopyIn, Kernel, CopyOut
  <2>5. Targets'
    BY <1>4, <2>1, <2>3, <2>4
  <2> QED
    BY <1>2, <2>4, <2>5 DEF Coherence
<1>9. CASE UploadAllocates
  <2>1. /\ UNCHANGED <<readonly_buffers, queue, uploads, phase>> /\ pc' = "copy"
        /\ phase # "closed" /\ ~Resident(Wanted.buffer)
    BY <1>1, <1>9 DEF UploadAllocates, CallTyped
  <2>2. \A b \in DOMAIN readonly_buffers :
          memory'[readonly_buffers[b].ptr] = memory[readonly_buffers[b].ptr]
    BY <1>1, <1>9, <2>1, AllocatesEffect DEF Ownership
  <2>3. memory'[fresh'].size = Wanted.count /\ Wanted' = Wanted
    BY <1>9, <2>1, AllocatesEffect DEF Wanted
  <2>4. Commands' = Commands
    BY <2>1 DEF Commands
  <2> QED
    BY <1>2, <1>3, <2>1, <2>2, <2>3, <2>4 DEF Coherence, Resident
<1>10. CASE GrowScratchX \/ GrowScratchY \/ GrowScratchXFails \/ GrowScratchYFails
  <2>1. /\ UNCHANGED <<readonly_buffers, queue, phase>> /\ phase # "closed"
        /\ pc' \notin {"copy", "copying"}
    BY <1>1, <1>10 DEF GrowScratchX, GrowScratchY, GrowScratchXFails, GrowScratchYFails,
                       MayThrow, Throw, CallTyped
  <2>2. \A b \in DOMAIN readonly_buffers :
          memory'[readonly_buffers[b].ptr] = memory[readonly_buffers[b].ptr]
    BY <1>1, <1>10, <2>1, GrowXEffect, GrowYEffect, GrowFailsEffect DEF Ownership
  <2>3. Commands' = Commands
    BY <2>1 DEF Commands
  <2> QED
    BY <1>2, <1>3, <2>1, <2>2, <2>3 DEF Coherence
<1>11. CASE Execute
  <2> DEFINE c == Head(queue)
  <2>1. /\ UNCHANGED <<readonly_buffers, phase, pc, fresh, uploads>> /\ queue # <<>>
        /\ queue' = Tail(queue) /\ Perform(c)
    BY <1>11 DEF Execute
  <2>2. /\ c \in Commands /\ Commands' \subseteq Commands
    BY <1>1, <2>1, CommandsChange
  <2>3. \A e \in Addrs : /\ memory'[e].size = memory[e].size
                         /\ e # Target(c) => memory'[e] = memory[e]
    BY <1>1, <1>11, Executing
  <2>4. \A b \in DOMAIN readonly_buffers :
          memory'[readonly_buffers[b].ptr] = memory[readonly_buffers[b].ptr]
    BY <1>1, <2>2, <2>3 DEF Coherence
  <2>5. Wanted' = Wanted /\ Resident(Wanted.buffer)' = Resident(Wanted.buffer)
    BY <2>1 DEF Wanted, Resident
  <2>6. pc \in {"copy", "copying"} => fresh \in Addrs /\ fresh \in Live
    BY <1>1 DEF CallTyped, Ownership, Typed
  <2>7. ASSUME pc = "copying", queue' = <<>> PROVE memory'[fresh].data = Wanted.buffer
    <3>1. c = [op |-> "upload", dst |-> fresh, buffer |-> Wanted.buffer,
               n |-> Wanted.count]
      BY <1>1, <2>1, <2>7, Shorter DEF Coherence, Typed
    <3>2. Store(fresh, Wanted.buffer)
      BY <2>1, <3>1 DEF Perform
    <3> QED
      BY <1>1, <2>6, <2>7, <3>2, Storing
  <2>8. ASSUME pc = "copying", queue' # <<>>
        PROVE  queue'[Len(queue')] = [op |-> "upload", dst |-> fresh,
                                      buffer |-> Wanted.buffer, n |-> Wanted.count]
    BY <1>1, <2>1, <2>8, Shorter DEF Coherence, Typed
  <2>9. ResidentCoherent' /\ Targets'
    BY <1>2, <1>3, <2>1, <2>2, <2>4
  <2> HIDE DEF c
  <2> QED
    BY <1>1, <2>1, <2>3, <2>5, <2>6, <2>7, <2>8, <2>9 DEF Coherence
<1>12. CASE Destroy
  <2>1. /\ queue = <<>> /\ queue' = queue /\ phase' = "closed" /\ pc' = "idle"
    BY <1>12 DEF Destroy, MayDestroy, Waited
  <2>2. Commands' = {}
    BY <2>1 DEF Commands
  <2> QED
    BY <2>1, <2>2 DEF Coherence, ResidentCoherent
<1> QED
  BY <1>5, <1>6, <1>7, <1>8, <1>9, <1>10, <1>11, <1>12, QuietSteps DEF Quiet

LEMMA StepDraining == BackendInv /\ Next => Draining'
<1> SUFFICES ASSUME BackendInv, Next PROVE Draining'
  OBVIOUS
<1>1. /\ Typed /\ CallTyped /\ Draining
  BY DEF BackendInv
<1> USE DEF backendVars, hostVars, outcomeVars
<1>2. Program' = Program
  BY DEF Next, HostStep, Program, Preload, Multiply, Attached, UploadsDone, UploadHit,
         UploadMismatch, UploadAllocates, UploadAllocationFails, UploadCopies,
         UploadCopyFails, UploadEmplaces, KeepScratchX, GrowScratchX, GrowScratchXFails,
         KeepScratchY, GrowScratchY, GrowScratchYFails, CopyIn, Kernel, CopyOut,
         SubmitFails, MatvecReturns, Execute, FreeModel, Destroy, Terminated, vars
<1>3. CASE (\E b \in Buffers : \E n \in Shapes(b) : Preload(b, n))
           \/ (\E m \in Products, v \in Vectors : Multiply(m, v))
  <2>1. /\ pc = "idle" /\ phase \in {"attach", "serve"} /\ pc' = "upload"
        /\ Program => result = 0
        /\ UNCHANGED <<phase, queue, result, host_live>>
    BY <1>3 DEF Preload, Multiply, MayCall, Calling
  <2>2. Program => queue = <<>>
    BY <1>1, <2>1 DEF Draining
  <2> QED
    BY <1>1, <1>2, <2>1, <2>2 DEF Draining
<1>4. CASE Attached \/ FreeModel
  BY <1>1, <1>2, <1>4 DEF Attached, FreeModel, Calling, Draining, Program
<1>5. CASE Destroy
  BY <1>1, <1>2, <1>5 DEF Destroy, MayDestroy, Waited, Draining, Program
<1>6. CASE UploadsDone
  BY <1>1, <1>2, <1>6 DEF UploadsDone, Return, Draining
<1>7. CASE UploadHit \/ UploadAllocates \/ KeepScratchX \/ KeepScratchY
           \/ GrowScratchX \/ GrowScratchY
  BY <1>1, <1>2, <1>7 DEF UploadHit, UploadAllocates, KeepScratchX, KeepScratchY,
                          GrowScratchX, GrowScratchY, Draining
<1>8. CASE \/ UploadMismatch \/ UploadAllocationFails \/ UploadCopyFails
           \/ GrowScratchXFails \/ GrowScratchYFails
  BY <1>1, <1>2, <1>8 DEF UploadMismatch, UploadAllocationFails, UploadCopyFails,
        GrowScratchXFails, GrowScratchYFails, MayThrow, Throw, Draining
<1>9. CASE SubmitFails
  BY <1>1, <1>2, <1>9 DEF SubmitFails, MayThrow, Throw, Draining
<1>10. CASE UploadCopies \/ CopyIn \/ Kernel \/ CopyOut
  BY <1>1, <1>2, <1>10 DEF UploadCopies, CopyIn, Kernel, CopyOut, Draining
<1>11. CASE UploadEmplaces \/ MatvecReturns
  BY <1>1, <1>2, <1>11 DEF UploadEmplaces, MatvecReturns, Return, Waited, Draining
<1>12. CASE Execute
  BY <1>1, <1>2, <1>12 DEF Execute, Draining
<1>13. CASE Terminated
  BY <1>1, <1>2, <1>13 DEF Terminated, vars, Draining
<1> QED
  BY <1>3, <1>4, <1>5, <1>6, <1>7, <1>8, <1>9, <1>10, <1>11, <1>12, <1>13
  DEF Next, HostStep

LEMMA InitBackendInv == Init => BackendInv
<1> SUFFICES ASSUME Init PROVE BackendInv
  OBVIOUS
<1>1. DOMAIN <<>> = {} /\ \A S : <<>> \in Seq(S)
  OBVIOUS
<1>2. Live = {} /\ MemoryTyped
  BY DEF Init, Live, MemoryTyped, Free
<1>3. Commands = {}
  BY DEF Init, Commands
<1>4. Typed
  <2>1. /\ DOMAIN readonly_buffers \subseteq Buffers
        /\ readonly_buffers \in
              [DOMAIN readonly_buffers -> [ptr : Addrs, count : Nat \ {0}]]
    BY <1>1 DEF Init
  <2>2. queue \in Seq(CommandType) /\ uploads \in Seq(UploadType)
    BY <1>1 DEF Init
  <2> QED
    BY <2>1, <2>2 DEF Init, Typed, Program
<1>5. CallTyped
  BY DEF Init, CallTyped, NoCall, Uploading, Multiplying, Program
<1>6. Residency
  BY DEF Init, Residency, NoCall
<1>7. Ownership
  BY <1>1, <1>2 DEF Init, Ownership
<1>8. Coherence
  <2>1. readonly_buffers = <<>> /\ pc = "idle"
    BY DEF Init
  <2> QED
    BY <1>1, <1>3, <2>1 DEF Coherence, ResidentCoherent
<1>9. Draining
  BY DEF Init, Draining
<1> QED
  BY <1>2, <1>4, <1>5, <1>6, <1>7, <1>8, <1>9 DEF BackendInv

LEMMA StepBackendInv == BackendInv /\ [Next]_vars => BackendInv'
<1> SUFFICES ASSUME BackendInv, [Next]_vars PROVE BackendInv'
  OBVIOUS
<1>1. CASE Next
  BY <1>1, StepTyped, StepMemoryTyped, StepCallTyped, StepResidency, StepOwnership,
     StepCoherence, StepDraining DEF BackendInv
<1>2. CASE UNCHANGED vars
  <2>1. Terminated \/ phase # "closed"
    BY <1>2 DEF Terminated
  <2>2. UNCHANGED <<caller, phase, pc, call, uploads, fresh, readonly_buffers, scratch_x,
                    scratch_y, scratch_x_count, scratch_y_count, queue, memory, host_x,
                    host_out, host_live, result, y_valid, failure>>
    BY <1>2 DEF vars, backendVars, hostVars, outcomeVars
  <2>3. Typed' /\ MemoryTyped' /\ CallTyped'
    BY <2>2 DEF BackendInv, Typed, MemoryTyped, CallTyped, Products, NoCall, Free
  <2>4. Residency' /\ Ownership' /\ Draining'
    BY <2>2 DEF BackendInv, Residency, Needs, HasResident, Resident, Ownership, Live,
                Free, Draining, Program
  <2>5. Coherence'
    BY <2>2 DEF BackendInv, Coherence, ResidentCoherent, Commands, Target, Wanted, Resident
  <2> QED
    BY <2>3, <2>4, <2>5 DEF BackendInv
<1> QED
  BY <1>1, <1>2

(* Whoever calls the backend, whatever the device has executed so far and  *)
(* whichever calls threw: allocations have one owner, resident copies are  *)
(* the host's data, and every queued command is of the product being       *)
(* computed or of one that a failed submission abandoned.                  *)
THEOREM BackendInvHolds == Spec => []BackendInv
BY InitBackendInv, StepBackendInv, PTL DEF Spec, SafetySpec

----------------------------------------------------------------------------
(* What the cache, the scratch pointers and a running upload hold are live *)
(* and distinct allocations: no path through upload_readonly,              *)
(* ensure_scratch or a failure of either lets two owners hold the same     *)
(* device memory, whoever the caller is and whichever calls throw.         *)
THEOREM OwnsWhatItFreesAlways == Spec => []OwnsWhatItFrees
<1>1. BackendInv => OwnsWhatItFrees
  <2> SUFFICES ASSUME BackendInv, phase # "closed" PROVE OwnsWhatItFrees
    BY DEF OwnsWhatItFrees
  <2> DEFINE Held == DOMAIN readonly_buffers \cup {"scratch_x", "scratch_y", "fresh"}
             Pointer(h) == IF h \in DOMAIN readonly_buffers
                           THEN readonly_buffers[h].ptr
                           ELSE IF h = "scratch_x" THEN scratch_x
                           ELSE IF h = "scratch_y" THEN scratch_y ELSE fresh
  <2>1. Ownership
    BY DEF BackendInv
  <2>2. ASSUME NEW h \in Held PROVE Pointer(h) \in Live \cup {Null}
    BY <2>1 DEF Ownership
  <2>3. ASSUME NEW g \in Held, NEW h \in Held, g # h, Pointer(g) = Pointer(h)
        PROVE  Pointer(g) = Null
    <3>1. CASE g \in DOMAIN readonly_buffers /\ h \in DOMAIN readonly_buffers
      BY <2>1, <2>3, <3>1 DEF Ownership
    <3>2. CASE g \in DOMAIN readonly_buffers /\ h \notin DOMAIN readonly_buffers
      BY <2>1, <2>3, <3>2 DEF Ownership
    <3>3. CASE g \notin DOMAIN readonly_buffers /\ h \in DOMAIN readonly_buffers
      BY <2>1, <2>3, <3>3 DEF Ownership
    <3>4. CASE g \notin DOMAIN readonly_buffers /\ h \notin DOMAIN readonly_buffers
      <4>1. /\ g \in {"scratch_x", "scratch_y", "fresh"}
            /\ h \in {"scratch_x", "scratch_y", "fresh"}
        BY <3>4
      <4> QED
        BY <2>1, <2>3, <3>4, <4>1 DEF Ownership
    <3> QED
      BY <3>1, <3>2, <3>3, <3>4
  <2> HIDE DEF Pointer
  <2> QED
    BY <2>2, <2>3 DEF OwnsWhatItFrees, Pointer
<1> QED
  BY <1>1, BackendInvHolds, PTL

(* Every resident buffer holds the host's data in full, whatever throws,   *)
(* and also when commands of an abandoned product are still in the queue.  *)
THEOREM ResidentCoherentAlways == Spec => []ResidentCoherent
<1>1. BackendInv => ResidentCoherent
  BY DEF BackendInv, Coherence
<1> QED
  BY <1>1, BackendInvHolds, PTL

(* The device meets host memory the program has freed only if the          *)
(* submission of a command threw before.                                   *)
THEOREM FreedInUseOnlyAfterFailureAlways == Spec => []FreedInUseOnlyAfterFailure
<1>1. BackendInv => FreedInUseOnlyAfterFailure
  BY DEF BackendInv, CallTyped, Draining, FreedInUseOnlyAfterFailure
<1> QED
  BY <1>1, BackendInvHolds, PTL

----------------------------------------------------------------------------
(* Facts the remaining invariants share.                                   *)
LEMMA Unchanged ==
    UNCHANGED vars <=>
        UNCHANGED <<caller, phase, pc, call, uploads, fresh, readonly_buffers, scratch_x,
                    scratch_y, scratch_x_count, scratch_y_count, queue, memory, host_x,
                    host_out, host_live, result, y_valid, failure>>
BY DEF vars, backendVars, hostVars, outcomeVars

LEMMA SameCaller == Next => caller' = caller /\ Program' = Program
BY DEF Next, HostStep, Program, Preload, Multiply, Attached, UploadsDone, UploadHit,
       UploadMismatch, UploadAllocates, UploadAllocationFails, UploadCopies,
       UploadCopyFails, UploadEmplaces, KeepScratchX, GrowScratchX, GrowScratchXFails,
       KeepScratchY, GrowScratchY, GrowScratchYFails, CopyIn, Kernel, CopyOut,
       SubmitFails, MatvecReturns, Execute, FreeModel, Destroy, Terminated, vars

LEMMA ThrownToProgram ==
    ASSUME NEW kinds, ClientStopsAfter(kinds), Typed, NEW why \in kinds, MayThrow(why)
    PROVE  Program
BY CallerAssumption DEF ClientStopsAfter, Typed, MayThrow, Program

LEMMA ClosedStays ==
    ASSUME BackendInv, Next, phase = "closed"
    PROVE  UNCHANGED vars
<1>1. pc = "idle" /\ queue = <<>>
  BY DEF BackendInv, CallTyped
<1> QED
  BY <1>1 DEF Next, HostStep, Preload, Multiply, MayCall, Calling, Attached, UploadsDone,
       UploadHit, UploadMismatch, UploadAllocates, UploadAllocationFails, UploadCopies,
       UploadCopyFails, UploadEmplaces, KeepScratchX, GrowScratchX, GrowScratchXFails,
       KeepScratchY, GrowScratchY, GrowScratchYFails, CopyIn, Kernel, CopyOut,
       SubmitFails, MatvecReturns, Execute, FreeModel, Destroy, MayDestroy, Terminated

(* The program makes no call after a failure.                              *)
LEMMA ProgramStops ==
    ASSUME BackendInv, Next, Program, result = -1, pc = "idle"
    PROVE  /\ Program' /\ result' = -1 /\ pc' = "idle" /\ failure' = failure
           /\ call' = NoCall /\ y_valid' = y_valid
           /\ Execute \/ FreeModel \/ Destroy \/ Terminated
<1>1. Execute \/ FreeModel \/ Destroy \/ Terminated
  BY DEF Next, HostStep, Preload, Multiply, MayCall, Attached, UploadsDone,
       UploadHit, UploadMismatch, UploadAllocates, UploadAllocationFails, UploadCopies,
       UploadCopyFails, UploadEmplaces, KeepScratchX, GrowScratchX, GrowScratchXFails,
       KeepScratchY, GrowScratchY, GrowScratchYFails, CopyIn, Kernel, CopyOut,
       SubmitFails, MatvecReturns
<1>2. UNCHANGED <<caller, pc, call, result, failure, y_valid>>
  BY <1>1 DEF Execute, FreeModel, Destroy, Terminated, vars, outcomeVars
<1>3. call = NoCall
  BY DEF BackendInv, CallTyped
<1> QED
  BY <1>1, <1>2, <1>3, SameCaller DEF NoCall

----------------------------------------------------------------------------
LEMMA StepAccounted ==
    ASSUME ClientStopsAfter({"copy"}), BackendInv, Accounted, Next
    PROVE  Accounted'
<1>1. /\ Typed /\ CallTyped /\ MemoryTyped /\ Null \notin Live
      /\ fresh # Null <=> pc \in {"copy", "copying"}
      /\ Program' = Program
  BY NullAssumption, SameCaller DEF BackendInv, CallTyped, Live
<1> USE DEF backendVars, hostVars, outcomeVars
<1>2. CASE phase = "closed"
  <2>1. Free' = Free /\ Program' = Program /\ UNCHANGED vars
    BY <1>1, <1>2, ClosedStays DEF Free
  <2> QED
    BY <1>2, <2>1, Unchanged DEF Accounted, ReleasedAtClose, Live
<1>3. CASE phase # "closed" /\ failure = "copy"
  <2>1. /\ Program' /\ result' = -1 /\ pc' = "idle" /\ failure' = "copy"
    BY <1>3, ProgramStops DEF Accounted
  <2> QED
    BY <2>1 DEF Accounted, ReleasedAtClose
<1>4. CASE phase # "closed" /\ failure # "copy"
  <2>1. Live \subseteq Owned \cup {fresh}
    BY <1>4 DEF Accounted
  <2>2. ASSUME Live' \subseteq Owned' \cup {fresh'}, phase' # "closed", failure' # "copy"
        PROVE  Accounted'
    BY <2>2 DEF Accounted, ReleasedAtClose
  <2>3. CASE Quiet /\ ~(UploadEmplaces \/ UploadCopyFails)
    <3>1. Live' = Live
      BY <2>3, QuietSteps DEF Live, Free
    <3>2. /\ UNCHANGED <<readonly_buffers, scratch_x, scratch_y>>
          /\ phase' # "closed" /\ failure' # "copy"
          /\ fresh' = fresh \/ (pc \notin {"copy", "copying"} /\ fresh' = Null)
      BY <1>4, <2>3 DEF Quiet, Preload, Multiply, Attached, UploadsDone, UploadHit,
            UploadMismatch, UploadAllocationFails, UploadCopies, KeepScratchX,
            KeepScratchY, CopyIn, Kernel, CopyOut, SubmitFails, MatvecReturns, Return,
            FreeModel, Terminated, vars, MayThrow, Throw
    <3>3. Owned' = Owned /\ fresh' = fresh
      BY <1>1, <3>2 DEF Owned
    <3> QED
      BY <2>1, <2>2, <3>1, <3>2, <3>3
  <2>4. CASE UploadCopyFails
    <3>1. Program
      BY <1>1, <2>4, ThrownToProgram DEF UploadCopyFails
    <3>2. Program' /\ result' = -1 /\ pc' = "idle" /\ failure' = "copy"
      BY <1>1, <2>4, <3>1 DEF UploadCopyFails, MayThrow, Throw
    <3> QED
      BY <3>2 DEF Accounted, ReleasedAtClose
  <2>5. CASE UploadEmplaces
    <3>1. Live' = Live /\ phase' = phase /\ failure' = failure
      BY <2>5 DEF UploadEmplaces, Live, Free
    <3>2. Owned \cup {fresh} \subseteq Owned'
      <4>1. ~Resident(Wanted.buffer)
        BY <2>5 DEF UploadEmplaces, BackendInv, Coherence
      <4>2. /\ readonly_buffers' = Emplaced /\ UNCHANGED <<scratch_x, scratch_y>>
            /\ Wanted.buffer \in DOMAIN Emplaced /\ Emplaced[Wanted.buffer].ptr = fresh
            /\ \A b \in DOMAIN readonly_buffers :
                  b \in DOMAIN Emplaced /\ Emplaced[b] = readonly_buffers[b]
        BY <2>5, <4>1 DEF UploadEmplaces, Emplaced, Resident
      <4> HIDE DEF Emplaced
      <4> QED
        BY <4>2 DEF Owned
    <3> QED
      BY <1>4, <2>1, <2>2, <3>1, <3>2
  <2>6. CASE UploadAllocates
    <3>1. /\ UNCHANGED <<readonly_buffers, scratch_x, scratch_y, phase, failure>>
          /\ fresh = Null
      BY <1>1, <2>6 DEF UploadAllocates
    <3>2. Live' = Live \cup {fresh'} /\ Owned' = Owned
      BY <2>6, <3>1, AllocatesEffect DEF Owned
    <3> QED
      BY <1>1, <1>4, <2>1, <2>2, <3>1, <3>2
  <2>7. CASE GrowScratchX \/ GrowScratchY
    <3>1. /\ UNCHANGED <<readonly_buffers, fresh, phase, failure>>
          /\ GrowScratchX => UNCHANGED scratch_y
          /\ ~GrowScratchX => GrowScratchY /\ UNCHANGED scratch_x
      BY <2>7 DEF GrowScratchX, GrowScratchY
    <3>2. Live' \subseteq Owned' \cup {fresh'}
      BY <1>1, <2>1, <2>7, <3>1, GrowXEffect, GrowYEffect, NullAssumption DEF Owned
    <3> QED
      BY <1>4, <2>2, <3>1, <3>2
  <2>8. CASE GrowScratchXFails \/ GrowScratchYFails
    <3>1. /\ UNCHANGED <<readonly_buffers, phase>> /\ failure' = "scratch"
          /\ fresh' = Null /\ fresh = Null
          /\ GrowScratchXFails => UNCHANGED scratch_y
          /\ ~GrowScratchXFails => GrowScratchYFails /\ UNCHANGED scratch_x
      BY <1>1, <2>8 DEF GrowScratchXFails, GrowScratchYFails, MayThrow, Throw
    <3>2. Live' \subseteq Owned' \cup {fresh'}
      BY <1>1, <2>1, <2>8, <3>1, GrowFailsEffect DEF Owned
    <3> QED
      BY <1>4, <2>2, <3>1, <3>2
  <2>9. CASE Execute
    <3>1. /\ UNCHANGED <<readonly_buffers, scratch_x, scratch_y, fresh, phase, failure>>
          /\ Live' = Live
      BY <1>1, <2>9, Executing DEF Execute
    <3>2. Owned' = Owned
      BY <3>1 DEF Owned
    <3> QED
      BY <1>4, <2>1, <2>2, <3>1, <3>2
  <2>10. CASE Destroy
    <3>1. Live' = Live \ Owned /\ phase' = "closed" /\ failure' = failure /\ fresh = Null
      BY <1>1, <2>10, Releasing DEF Destroy, MayDestroy
    <3>2. Live' = {}
      BY <1>1, <2>1, <3>1
    <3> QED
      BY <1>4, <3>1, <3>2 DEF Accounted, ReleasedAtClose
  <2> QED
    BY <2>3, <2>4, <2>5, <2>6, <2>7, <2>8, <2>9, <2>10, QuietSteps
<1> QED
  BY <1>2, <1>3, <1>4

(* The destructor gives all device memory back unless a memcpy threw; a    *)
(* client that goes on after a throwing memcpy may see another failure     *)
(* later, and is left out.                                                 *)
THEOREM ReleasedAtCloseAlways ==
    ASSUME ClientStopsAfter({"copy"})
    PROVE  Spec => []ReleasedAtClose
<1>1. Init => Accounted
  <2> SUFFICES ASSUME Init PROVE Accounted
    OBVIOUS
  <2>1. Live = {} /\ failure = "none" /\ phase # "closed"
    BY DEF Init, Live
  <2> QED
    BY <2>1 DEF Accounted, ReleasedAtClose
<1>2. (BackendInv /\ Accounted) /\ [Next]_vars => Accounted'
  <2>1. BackendInv /\ Accounted /\ Next => Accounted'
    BY StepAccounted
  <2>2. Accounted /\ UNCHANGED vars => Accounted'
    BY Unchanged DEF Accounted, ReleasedAtClose, Live, Owned, Free, Program
  <2> QED
    BY <2>1, <2>2
<1>3. Accounted => ReleasedAtClose
  BY DEF Accounted
<1> QED
  BY <1>1, <1>2, <1>3, BackendInvHolds, PTL DEF Spec, SafetySpec

(* What a resident buffer points to.                                       *)
LEMMA ResidentFits ==
    ASSUME BackendInv, phase # "closed"
    PROVE  \A d \in DOMAIN readonly_buffers :
              /\ readonly_buffers[d].ptr \in Live
              /\ memory[readonly_buffers[d].ptr].size = readonly_buffers[d].count
              /\ memory[readonly_buffers[d].ptr].data = d
<1> SUFFICES ASSUME NEW d \in DOMAIN readonly_buffers
             PROVE  /\ readonly_buffers[d].ptr \in Live
                    /\ memory[readonly_buffers[d].ptr].size = readonly_buffers[d].count
                    /\ memory[readonly_buffers[d].ptr].data = d
  OBVIOUS
<1> DEFINE p == readonly_buffers[d].ptr
           k == readonly_buffers[d].count
<1>1. p \in Live
  BY DEF BackendInv, Ownership
<1>2. memory[p] = [size |-> k, data |-> d]
  BY DEF BackendInv, Coherence, ResidentCoherent
<1> HIDE DEF p, k
<1>3. memory[p].size = k /\ memory[p].data = d
  BY <1>2
<1> QED
  BY <1>1, <1>3 DEF p, k

----------------------------------------------------------------------------
(* The scratch vectors in use are live and long enough.                    *)
LEMMA ScratchReady ==
    ASSUME BackendInv, Fitting, pc \in Multiplying \ {"scratch_x", "scratch_y"}
    PROVE  /\ scratch_x \in Live /\ memory[scratch_x].size >= call.matvec.in
           /\ scratch_y \in Live /\ memory[scratch_y].size >= call.matvec.out
           /\ scratch_x # scratch_y
           /\ call.matvec.in \in Nat \ {0} /\ call.matvec.out \in Nat \ {0}
<1>1. /\ call.matvec.in \in Nat \ {0} /\ call.matvec.out \in Nat \ {0}
      /\ scratch_x_count \in Nat /\ scratch_y_count \in Nat
  BY Uploaded, ProductsAreReal DEF BackendInv, Typed
<1>2. pc # "idle" /\ phase # "closed" /\ failure # "scratch"
  BY DEF BackendInv, CallTyped, Multiplying, Fitting
<1>3. call.matvec.in <= scratch_x_count /\ call.matvec.out <= scratch_y_count
  BY DEF Fitting
<1>4. scratch_x # Null /\ scratch_y # Null
  BY <1>1, <1>2, <1>3 DEF Fitting
<1>5. memory[scratch_x].size = scratch_x_count /\ memory[scratch_y].size = scratch_y_count
  BY <1>2, <1>4 DEF Fitting
<1>6. scratch_x \in Live /\ scratch_y \in Live /\ scratch_x # scratch_y
  BY <1>2, <1>4 DEF BackendInv, Ownership
<1> QED
  BY <1>1, <1>3, <1>5, <1>6

LEMMA StepFitting ==
    ASSUME ClientStopsAfter({"scratch", "submit"}), BackendInv, Fitting, Next
    PROVE  Fitting'
<1>1. /\ Typed /\ CallTyped /\ MemoryTyped /\ Ownership /\ Null \notin Live
      /\ Null \notin Addrs /\ Live \subseteq Addrs /\ Program' = Program
      /\ scratch_x \in Addrs \cup {Null} /\ scratch_y \in Addrs \cup {Null}
      /\ DeviceAccessesFit
  BY NullAssumption, SameCaller DEF BackendInv, Typed, Live, Fitting
<1> USE DEF backendVars, hostVars, outcomeVars
<1> DEFINE Sizes == failure # "scratch" /\ phase # "closed" =>
               /\ IF scratch_x = Null THEN scratch_x_count = 0
                  ELSE memory[scratch_x].size = scratch_x_count
               /\ IF scratch_y = Null THEN scratch_y_count = 0
                  ELSE memory[scratch_y].size = scratch_y_count
<1>2. ASSUME \A e \in Live : e \in Live' /\ memory'[e].size = memory[e].size,
             Commands' \subseteq Commands
      PROVE  DeviceAccessesFit'
  <2>1. ASSUME NEW c \in Commands', NEW t \in Touches(c) PROVE Fits(t)'
    <3>1. Fits(t)
      BY <1>1, <1>2, <2>1 DEF DeviceAccessesFit
    <3> QED
      BY <1>2, <3>1 DEF Fits
  <2>2. \A c : Touches(c)' = Touches(c)
    BY DEF Touches
  <2> QED
    BY <2>1, <2>2 DEF DeviceAccessesFit
<1>3. ASSUME NEW c \in CommandType, Enqueue(c), memory' = memory, \A t \in Touches(c) : Fits(t)
      PROVE  DeviceAccessesFit'
  <2>1. Commands' \subseteq Commands \cup {c}
    BY <1>1, <1>3, CommandsChange
  <2>2. Live' = Live /\ \A t : Fits(t)' = Fits(t)
    BY <1>3 DEF Live, Free, Fits
  <2>3. \A d : Touches(d)' = Touches(d)
    BY DEF Touches
  <2> QED
    BY <1>1, <1>3, <2>1, <2>2, <2>3 DEF DeviceAccessesFit
<1>4. ASSUME queue' = <<>> PROVE DeviceAccessesFit'
  <2>1. Commands' = {}
    BY <1>4 DEF Commands
  <2> QED
    BY <2>1 DEF DeviceAccessesFit
<1>5. CASE phase = "closed"
  <2>1. UNCHANGED vars
    BY <1>5, ClosedStays
  <2> QED
    BY <2>1, Unchanged DEF Fitting, Program, DeviceAccessesFit, Commands, Touches, Fits,
                           Live, Free
<1>6. CASE Execute
  <2>1. /\ UNCHANGED <<caller, phase, pc, call, scratch_x, scratch_y, scratch_x_count,
                       scratch_y_count, result, failure>>
        /\ queue # <<>> /\ queue' = Tail(queue)
    BY <1>6 DEF Execute
  <2>2. Live' = Live /\ \A e \in Addrs : memory'[e].size = memory[e].size
    BY <1>1, <1>6, Executing
  <2>3. Commands' \subseteq Commands
    BY <1>1, <2>1, CommandsChange
  <2>4. DeviceAccessesFit'
    BY <1>1, <1>2, <2>2, <2>3
  <2>5. Sizes => Sizes'
    BY <1>1, <2>1, <2>2
  <2> QED
    BY <1>1, <2>1, <2>4, <2>5 DEF Fitting
<1>7. CASE phase # "closed" /\ failure \in {"scratch", "submit"} /\ ~Execute
  <2>1. /\ Program' /\ result' = -1 /\ pc' = "idle" /\ failure' = failure
        /\ FreeModel \/ Destroy \/ Terminated
    BY <1>7, ProgramStops DEF Fitting
  <2>2. CASE FreeModel
    <3>1. /\ UNCHANGED <<queue, memory, scratch_x, scratch_y, scratch_x_count,
                         scratch_y_count>>
          /\ Live' = Live /\ Commands' = Commands
      BY <2>2 DEF FreeModel, Live, Free, Commands
    <3>2. DeviceAccessesFit'
      BY <1>2, <3>1
    <3>3. Sizes => Sizes'
      BY <1>7, <2>1, <3>1
    <3>4. pc = "idle"
      BY <2>2 DEF FreeModel
    <3> QED
      BY <1>7, <2>1, <3>1, <3>2, <3>3, <3>4 DEF Fitting, Multiplying
  <2>3. CASE Destroy
    <3>1. queue' = <<>> /\ phase' = "closed"
      BY <2>3 DEF Destroy, Waited
    <3> QED
      BY <1>4, <2>1, <3>1 DEF Fitting, Multiplying
  <2>4. CASE Terminated
    BY <1>7, <2>4 DEF Terminated
  <2> QED
    BY <2>1, <2>2, <2>3, <2>4
<1>8. CASE phase # "closed" /\ failure \notin {"scratch", "submit"} /\ ~Execute
  <2>1. queue # <<>> => pc \in {"copying", "kernel", "copy_out", "wait"}
    BY <1>8 DEF Fitting
  <2>2. Sizes
    BY DEF Fitting
  <2>3. CASE Quiet /\ ~(UploadCopies \/ CopyIn \/ Kernel \/ CopyOut \/ SubmitFails)
    <3>1. memory' = memory /\ Live' = Live
      BY <2>3, QuietSteps DEF Live, Free
    <3>2. /\ UNCHANGED <<queue, scratch_x, scratch_y, scratch_x_count, scratch_y_count>>
          /\ phase' # "closed" /\ failure' \notin {"scratch", "submit"}
      BY <1>8, <2>3 DEF Quiet, Preload, Multiply, Attached, UploadsDone, UploadHit,
            UploadMismatch, UploadAllocationFails, UploadCopyFails, UploadEmplaces,
            KeepScratchX, KeepScratchY, MatvecReturns, Return, FreeModel, Terminated,
            vars, MayThrow, Throw
    <3>3. queue = <<>>
      BY <1>8, <2>1, <2>3 DEF Quiet, Preload, Multiply, MayCall, Calling, Attached,
            UploadsDone, UploadHit, UploadMismatch, UploadAllocationFails,
            UploadCopyFails, UploadEmplaces, Waited, KeepScratchX, KeepScratchY,
            MatvecReturns, FreeModel, Terminated
    <3>4. pc' \in Multiplying \ {"scratch_x"} => call'.matvec.in <= scratch_x_count'
      BY <1>8, <2>3, <3>2 DEF Quiet, Preload, Multiply, MayCall, Calling, Attached,
            UploadsDone, UploadHit, UploadMismatch, UploadAllocationFails,
            UploadCopyFails, UploadEmplaces, KeepScratchX, KeepScratchY, Fitting,
            MatvecReturns, Return, FreeModel, Terminated, vars, MayThrow, Throw, Multiplying
    <3>5. pc' \in Multiplying \ {"scratch_x", "scratch_y"} =>
              call'.matvec.out <= scratch_y_count'
      BY <1>8, <2>3, <3>2 DEF Quiet, Preload, Multiply, MayCall, Calling, Attached,
            UploadsDone, UploadHit, UploadMismatch, UploadAllocationFails,
            UploadCopyFails, UploadEmplaces, KeepScratchX, KeepScratchY, Fitting,
            MatvecReturns, Return, FreeModel, Terminated, vars, MayThrow, Throw, Multiplying
    <3>6. DeviceAccessesFit'
      BY <1>4, <3>2, <3>3
    <3>7. Sizes'
      BY <1>8, <2>2, <3>1, <3>2
    <3> QED
      BY <3>2, <3>3, <3>4, <3>5, <3>6, <3>7 DEF Fitting
  <2>4. CASE SubmitFails
    <3>1. Program
      BY <1>1, <2>4, ThrownToProgram DEF SubmitFails
    <3>2. /\ result' = -1 /\ pc' = "idle" /\ failure' = "submit" /\ phase' = phase
          /\ UNCHANGED <<queue, memory, scratch_x, scratch_y, scratch_x_count,
                         scratch_y_count>>
      BY <2>4 DEF SubmitFails, MayThrow, Throw
    <3>3. DeviceAccessesFit'
      BY <1>2, <3>2 DEF Live, Free, Commands
    <3> QED
      BY <1>1, <1>8, <2>2, <3>1, <3>2, <3>3 DEF Fitting, Multiplying
  <2>5. CASE UploadCopies
    <3> DEFINE c == [op |-> "upload", dst |-> fresh, buffer |-> Wanted.buffer,
                     n |-> Wanted.count]
    <3>1. /\ pc' = "copying" /\ Enqueue(c) /\ memory' = memory /\ uploads # <<>>
          /\ fresh \in Live /\ memory[fresh].size = Wanted.count
          /\ UNCHANGED <<phase, failure, scratch_x, scratch_y, scratch_x_count,
                         scratch_y_count>>
      BY <1>1, <1>8, <2>5 DEF UploadCopies, CallTyped, Ownership, BackendInv, Coherence
    <3>2. Wanted \in UploadType
      BY <1>1, <3>1, Shorter DEF Wanted, Typed
    <3>3. c \in CommandType
      BY <1>1, <3>1, <3>2 DEF CommandType, UploadType
    <3>4. \A t \in Touches(c) : Fits(t)
      BY <3>1, <3>2 DEF Touches, Fits, UploadType
    <3> HIDE DEF c
    <3>5. DeviceAccessesFit'
      BY <1>3, <3>1, <3>3, <3>4
    <3> QED
      BY <1>8, <2>2, <3>1, <3>5 DEF Fitting, Multiplying
  <2>6. CASE CopyIn \/ Kernel \/ CopyOut
    <3> DEFINE m == call.matvec
    <3>1. /\ pc \in Multiplying \ {"scratch_x", "scratch_y"}
          /\ pc' \in {"kernel", "copy_out", "wait"} /\ memory' = memory
          /\ UNCHANGED <<phase, call, failure, scratch_x, scratch_y, scratch_x_count,
                         scratch_y_count>>
      BY <2>6 DEF CopyIn, Kernel, CopyOut, Multiplying
    <3>2. /\ scratch_x \in Live /\ memory[scratch_x].size >= m.in /\ m.in \in Nat
          /\ scratch_y \in Live /\ memory[scratch_y].size >= m.out /\ m.out \in Nat
      BY <3>1, ScratchReady
    <3>3. /\ CopyIn => Enqueue(CopiesX)
          /\ Kernel => Enqueue(Computes)
          /\ CopyOut => Enqueue(CopiesY)
      BY DEF CopyIn, Kernel, CopyOut, CopiesX, Computes, CopiesY
    <3>4. CopiesX \in CommandType /\ Computes \in CommandType /\ CopiesY \in CommandType
      BY <1>1, <3>1, <3>2, Uploaded
      DEF CopiesX, Computes, CopiesY, CommandType, Typed, Multiplying
    <3>5. /\ \A t \in Touches(CopiesX) : Fits(t)
          /\ \A t \in Touches(CopiesY) : Fits(t)
      BY <3>2 DEF Touches, CopiesX, CopiesY, Fits
    <3>6. \A t \in Touches(Computes) : Fits(t)
      <4> DEFINE w == readonly_buffers[m.weights].ptr
                 b == DeviceBias(m)
                 n == m.in * m.out
      <4>1. /\ Resident(m.weights) /\ readonly_buffers[m.weights].count = n
            /\ m.bias # NoBuffer => Resident(m.bias)
            /\ m.bias # NoBuffer => readonly_buffers[m.bias].count = m.out
            /\ m \in Products
        BY <3>1, Uploaded
      <4>2. n \in Nat
        BY <1>1, <4>1, ProductsAreReal
      <4>a. \A d \in DOMAIN readonly_buffers :
               /\ readonly_buffers[d].ptr \in Live
               /\ memory[readonly_buffers[d].ptr].size = readonly_buffers[d].count
        BY <1>1, <1>8, <2>2, <3>1, ResidentFits DEF Multiplying
      <4> HIDE DEF m
      <4>3. w \in Live /\ memory[w].size = n
        BY <4>1, <4>a DEF Resident
      <4>4. b # Null => b \in Live /\ memory[b].size = m.out
        BY <4>1, <4>a DEF Resident, DeviceBias
      <4> USE DEF m
      <4>5. Touches(Computes) = {<<w, n>>, <<scratch_x, m.in>>, <<scratch_y, m.out>>}
                                   \cup (IF b = Null THEN {} ELSE {<<b, m.out>>})
        BY DEF Touches, Computes
      <4> HIDE DEF w, b, n
      <4> QED
        BY <3>2, <4>2, <4>3, <4>4, <4>5 DEF Fits
    <3>7. DeviceAccessesFit'
      BY <1>3, <2>6, <3>1, <3>3, <3>4, <3>5, <3>6
    <3> QED
      BY <1>8, <2>2, <3>1, <3>7 DEF Fitting, Multiplying
  <2>7. CASE UploadAllocates
    <3>1. /\ UNCHANGED <<queue, phase, failure, scratch_x, scratch_y, scratch_x_count,
                         scratch_y_count>>
          /\ pc' = "copy" /\ queue = <<>>
      BY <2>1, <2>7 DEF UploadAllocates
    <3>2. /\ scratch_x # Null => memory'[scratch_x] = memory[scratch_x]
          /\ scratch_y # Null => memory'[scratch_y] = memory[scratch_y]
      BY <1>1, <1>8, <2>7, AllocatesEffect DEF Ownership
    <3>3. DeviceAccessesFit'
      BY <1>4, <3>1
    <3> QED
      BY <1>8, <2>2, <3>1, <3>2, <3>3 DEF Fitting, Multiplying
  <2>8. CASE GrowScratchX
    <3>1. /\ UNCHANGED <<queue, phase, failure, call, scratch_y, scratch_y_count>>
          /\ pc' = "scratch_y" /\ queue = <<>> /\ scratch_x_count' = call.matvec.in
          /\ pc = "scratch_x"
      BY <2>1, <2>8 DEF GrowScratchX
    <3>2. /\ scratch_x' # Null /\ memory'[scratch_x'].size = call.matvec.in
          /\ scratch_y # Null => memory'[scratch_y] = memory[scratch_y]
      BY <1>1, <1>8, <2>8, GrowXEffect DEF Ownership
    <3>3. DeviceAccessesFit'
      BY <1>4, <3>1
    <3>4. call.matvec.in \in Nat
      BY <1>1, <3>1, Uploaded, ProductsAreReal DEF Multiplying
    <3> QED
      BY <1>8, <2>2, <3>1, <3>2, <3>3, <3>4 DEF Fitting, Multiplying
  <2>9. CASE GrowScratchY
    <3>1. /\ UNCHANGED <<queue, phase, failure, call, scratch_x, scratch_x_count>>
          /\ pc' = "copy_in" /\ queue = <<>> /\ scratch_y_count' = call.matvec.out
          /\ pc = "scratch_y"
      BY <2>1, <2>9 DEF GrowScratchY
    <3>2. /\ scratch_y' # Null /\ memory'[scratch_y'].size = call.matvec.out
          /\ scratch_x # Null => memory'[scratch_x] = memory[scratch_x]
      BY <1>1, <1>8, <2>9, GrowYEffect DEF Ownership
    <3>3. DeviceAccessesFit'
      BY <1>4, <3>1
    <3>4. call.matvec.out \in Nat /\ call.matvec.in <= scratch_x_count
      BY <1>1, <3>1, Uploaded, ProductsAreReal DEF Multiplying, Fitting
    <3> QED
      BY <1>8, <2>2, <3>1, <3>2, <3>3, <3>4 DEF Fitting, Multiplying
  <2>10. CASE GrowScratchXFails \/ GrowScratchYFails
    <3>1. Program
      BY <1>1, <2>10, ThrownToProgram DEF GrowScratchXFails, GrowScratchYFails
    <3>2. /\ result' = -1 /\ pc' = "idle" /\ failure' = "scratch" /\ queue' = <<>>
      BY <2>1, <2>10 DEF GrowScratchXFails, GrowScratchYFails, MayThrow, Throw
    <3> QED
      BY <1>1, <1>4, <3>1, <3>2 DEF Fitting, Multiplying
  <2>11. CASE Destroy
    <3>1. /\ queue' = <<>> /\ phase' = "closed" /\ pc' = "idle" /\ failure' = failure
      BY <2>11 DEF Destroy, MayDestroy, Waited
    <3> QED
      BY <1>4, <1>8, <3>1 DEF Fitting, Multiplying
  <2> QED
    BY <1>8, <2>3, <2>4, <2>5, <2>6, <2>7, <2>8, <2>9, <2>10, <2>11, QuietSteps
<1> QED
  BY <1>5, <1>6, <1>7, <1>8

LEMMA InitFitting == Init => Fitting
<1> SUFFICES ASSUME Init PROVE Fitting
  OBVIOUS
<1>1. Commands = {}
  BY DEF Init, Commands
<1> QED
  BY <1>1 DEF Init, Fitting, Multiplying, DeviceAccessesFit

(* No command in the queue touches device memory that is null, freed or    *)
(* too small.  A client that goes on after a scratch vector could not grow *)
(* breaks this, and the run acpp_retry shows how.                          *)
THEOREM DeviceAccessesFitAlways ==
    ASSUME ClientStopsAfter({"scratch", "submit"})
    PROVE  Spec => []DeviceAccessesFit
<1>1. BackendInv /\ Fitting /\ [Next]_vars => Fitting'
  <2>1. BackendInv /\ Fitting /\ Next => Fitting'
    BY StepFitting
  <2>2. Fitting /\ UNCHANGED vars => Fitting'
    BY Unchanged DEF Fitting, Program, DeviceAccessesFit, Commands, Touches, Fits, Live, Free
  <2> QED
    BY <2>1, <2>2
<1>2. Fitting => DeviceAccessesFit
  BY DEF Fitting
<1> QED
  BY <1>1, <1>2, InitFitting, BackendInvHolds, PTL DEF Spec, SafetySpec

----------------------------------------------------------------------------
(* What the device has done for a product.                                 *)
LEMMA Appended ==
    ASSUME NEW S, NEW q \in Seq(S), NEW c \in S, NEW t \in Seq(S),
           Len(t) = Len(q) + 1, \A k \in 1 .. Len(q) : t[k] = q[k], t[Len(q) + 1] = c
    PROVE  Append(q, c) = t
<1> DEFINE p == Append(q, c)
<1>1. /\ p \in Seq(S) /\ Len(p) = Len(q) + 1 /\ p[Len(q) + 1] = c
      /\ \A k \in 1 .. Len(q) : p[k] = q[k]
  BY AppendProperties
<1> HIDE DEF p
<1>2. \A k \in 1 .. Len(p) : p[k] = t[k]
  <2>1. Len(q) \in Nat
    OBVIOUS
  <2> QED
    BY <1>1, <2>1
<1>3. p = t
  BY <1>1, <1>2, SeqEqual
<1> QED
  BY <1>3 DEF p

LEMMA ShortQueues ==
    ASSUME NEW a, NEW b, NEW c
    PROVE  /\ Tail(<<a>>) = <<>> /\ Head(<<a>>) = a /\ <<a>> # <<>>
           /\ Tail(<<a, b>>) = <<b>> /\ Head(<<a, b>>) = a /\ <<a, b>> # <<>>
           /\ Tail(<<a, b, c>>) = <<b, c>> /\ Head(<<a, b, c>>) = a /\ <<a, b, c>> # <<>>
OBVIOUS

LEMMA GrownQueues ==
    ASSUME NEW q, NEW a, NEW b, NEW c
    PROVE  /\ q = <<>> => Append(q, a) = <<a>>
           /\ q = <<a>> => Append(q, b) = <<a, b>>
           /\ q = <<a, b>> => Append(q, c) = <<a, b, c>>
<1> DEFINE S == {a, b, c}
<1>1. a \in S /\ b \in S /\ c \in S
  OBVIOUS
<1>2. ASSUME q = <<>> PROVE Append(q, a) = <<a>>
  <2> DEFINE t == <<a>>
  <2>1. /\ q \in Seq(S) /\ t \in Seq(S) /\ Len(q) = 0 /\ Len(t) = 1 /\ t[1] = a
    BY <1>2
  <2> HIDE DEF S, t
  <2>2. Append(q, a) = t
    BY <1>1, <2>1, Appended
  <2> QED
    BY <2>2 DEF t
<1>3. ASSUME q = <<a>> PROVE Append(q, b) = <<a, b>>
  <2> DEFINE t == <<a, b>>
  <2>1. /\ q \in Seq(S) /\ t \in Seq(S) /\ Len(q) = 1 /\ Len(t) = 2
        /\ q[1] = a /\ t[1] = a /\ t[2] = b
    BY <1>3
  <2> HIDE DEF S, t
  <2>2. Append(q, b) = t
    BY <1>1, <2>1, Appended
  <2> QED
    BY <2>2 DEF t
<1>4. ASSUME q = <<a, b>> PROVE Append(q, c) = <<a, b, c>>
  <2> DEFINE t == <<a, b, c>>
  <2>1. /\ q \in Seq(S) /\ t \in Seq(S) /\ Len(q) = 2 /\ Len(t) = 3
        /\ q[1] = a /\ q[2] = b /\ t[1] = a /\ t[2] = b /\ t[3] = c
    BY <1>4
  <2> HIDE DEF S, t
  <2>2. Len(t) = Len(q) + 1 /\ t[Len(q) + 1] = c
    BY <2>1
  <2>3. \A k \in 1 .. Len(q) : t[k] = q[k]
    BY <2>1
  <2>4. Append(q, c) = t
    BY <1>1, <2>1, <2>2, <2>3, Appended
  <2> QED
    BY <2>4 DEF t
<1> QED
  BY <1>2, <1>3, <1>4

(* While the commands of a product run, x is still the x of the call.      *)
LEMMA XIsCopied ==
    ASSUME BackendInv, Fitting, Progress, pc \in {"kernel", "copy_out", "wait"},
           Perform(CopiesX)
    PROVE  memory'[scratch_x].data = call.x
<1>1. /\ host_live /\ host_x = call.x /\ scratch_x \in Live /\ MemoryTyped
  BY ScratchReady DEF BackendInv, CallTyped, Draining, Progress, Multiplying
<1>2. Store(scratch_x, call.x)
  BY <1>1 DEF Perform, CopiesX
<1> QED
  BY <1>1, <1>2, Storing

LEMMA YIsComputed ==
    ASSUME BackendInv, Fitting, XCopied, pc \in {"kernel", "copy_out", "wait"},
           Perform(Computes)
    PROVE  memory'[scratch_y].data = Answer
<1> DEFINE m == call.matvec
           w == readonly_buffers[m.weights].ptr
<1>1. /\ scratch_x \in Live /\ scratch_y \in Live /\ MemoryTyped /\ phase # "closed"
      /\ Resident(m.weights) /\ (m.bias # NoBuffer => Resident(m.bias))
  BY ScratchReady, Uploaded DEF BackendInv, CallTyped, Multiplying
<1>2. \A d \in DOMAIN readonly_buffers :
         /\ readonly_buffers[d].ptr \in Live
         /\ memory[readonly_buffers[d].ptr].data = d
  BY <1>1, ResidentFits
<1>3. Null \notin Live
  BY NullAssumption DEF Live
<1>4. /\ Data(w) = m.weights /\ Data(scratch_x) = call.x
      /\ (IF DeviceBias(m) = Null THEN NoBuffer ELSE Data(DeviceBias(m))) = m.bias
  <2> HIDE DEF m
  <2> QED
    BY <1>1, <1>2, <1>3 DEF Data, DeviceBias, Resident, XCopied
<1>5. Store(scratch_y, Answer)
  BY <1>4 DEF Perform, Computes, Answer
<1> QED
  BY <1>1, <1>5, Storing

LEMMA YIsCopied ==
    ASSUME BackendInv, Fitting, YComputed, pc \in {"kernel", "copy_out", "wait"},
           Perform(CopiesY)
    PROVE  host_out' = Answer
<1>1. host_live /\ scratch_y \in Live
  BY ScratchReady DEF BackendInv, CallTyped, Draining, Multiplying
<1> QED
  BY <1>1 DEF Perform, CopiesY, Data, YComputed

LEMMA ExecuteProgress ==
    ASSUME BackendInv, Fitting, Progress, Execute
    PROVE  Progress'
<1> DEFINE h == Head(queue)
<1>1. /\ queue # <<>> /\ Perform(h) /\ queue' = Tail(queue)
      /\ UNCHANGED <<caller, phase, pc, call, uploads, fresh, readonly_buffers, scratch_x,
                     scratch_y, scratch_x_count, scratch_y_count, host_x, host_live,
                     result, y_valid, failure>>
  BY DEF Execute, backendVars, outcomeVars
<1>2. CopiesX' = CopiesX /\ Computes' = Computes /\ CopiesY' = CopiesY /\ Answer' = Answer
  BY <1>1 DEF CopiesX, Computes, CopiesY, Answer, DeviceBias
<1>3. /\ Perform(CopiesX) /\ pc \in {"kernel", "copy_out", "wait"} => XCopied'
      /\ XCopied /\ Perform(Computes) /\ pc \in {"kernel", "copy_out", "wait"} => YComputed'
      /\ YComputed /\ Perform(CopiesY) /\ pc \in {"kernel", "copy_out", "wait"} =>
             host_out' = Answer'
  BY <1>1, <1>2, XIsCopied, YIsComputed, YIsCopied DEF XCopied, YComputed
<1>4. /\ y_valid' => call'.kind # "matvec" /\ failure' # "submit"
      /\ call'.kind = "matvec" => host_x' = call'.x
  BY <1>1 DEF Progress
<1>5. pc' = "copying" /\ queue' # <<>> => \A c \in Commands' : c.op = "upload"
  <2>1. Commands' \subseteq Commands
    BY <1>1, CommandsChange DEF BackendInv
  <2> QED
    BY <1>1, <2>1 DEF Progress
<1> HIDE DEF h
<1> DEFINE A == CopiesX
           B == Computes
           C == CopiesY
<1>6. /\ Perform(A) /\ pc \in {"kernel", "copy_out", "wait"} => XCopied'
      /\ XCopied /\ Perform(B) /\ pc \in {"kernel", "copy_out", "wait"} => YComputed'
      /\ YComputed /\ Perform(C) /\ pc \in {"kernel", "copy_out", "wait"} =>
             host_out' = Answer'
      /\ A' = A /\ B' = B /\ C' = C
  BY <1>2, <1>3
<1>7. /\ pc = "kernel" => queue = <<A>> \/ (queue = <<>> /\ XCopied)
      /\ pc = "copy_out" =>
            \/ queue = <<A, B>>
            \/ queue = <<B>> /\ XCopied
            \/ queue = <<>> /\ YComputed
      /\ pc = "wait" =>
            \/ queue = <<A, B, C>>
            \/ queue = <<B, C>> /\ XCopied
            \/ queue = <<C>> /\ YComputed
            \/ queue = <<>> /\ host_out = Answer
  BY DEF Progress
<1> HIDE DEF A, B, C
<1>8. /\ \A a : queue = <<a>> => h = a /\ queue' = <<>>
      /\ \A a, b : queue = <<a, b>> => h = a /\ queue' = <<b>>
      /\ \A a, b, c : queue = <<a, b, c>> => h = a /\ queue' = <<b, c>>
  <2>1. h = Head(queue) /\ queue' = Tail(queue)
    BY <1>1 DEF h
  <2>2. ASSUME NEW a, queue = <<a>> PROVE h = a /\ queue' = <<>>
    BY <2>1, <2>2, ShortQueues
  <2>3. ASSUME NEW a, NEW b, queue = <<a, b>> PROVE h = a /\ queue' = <<b>>
    BY <2>1, <2>3, ShortQueues
  <2>4. ASSUME NEW a, NEW b, NEW c, queue = <<a, b, c>> PROVE h = a /\ queue' = <<b, c>>
    BY <2>1, <2>4, ShortQueues
  <2> QED
    BY <2>2, <2>3, <2>4
<1>9. pc' = "kernel" => queue' = <<>> /\ XCopied'
  BY <1>1, <1>6, <1>7, <1>8
<1>10. pc' = "copy_out" => \/ queue' = <<B>> /\ XCopied'
                           \/ queue' = <<>> /\ YComputed'
  BY <1>1, <1>6, <1>7, <1>8
<1>11. pc' = "wait" => \/ queue' = <<B, C>> /\ XCopied'
                       \/ queue' = <<C>> /\ YComputed'
                       \/ queue' = <<>> /\ host_out' = Answer'
  BY <1>1, <1>6, <1>7, <1>8
<1>12. B = Computes' /\ C = CopiesY'
  BY <1>2 DEF B, C
<1> QED
  BY <1>4, <1>5, <1>9, <1>10, <1>11, <1>12 DEF Progress

(* The steps that submit a product's commands.                             *)
LEMMA SubmitProgress ==
    ASSUME BackendInv, Fitting, Progress, CopyIn \/ Kernel \/ CopyOut
    PROVE  Progress'
<1>1. /\ UNCHANGED <<call, readonly_buffers, scratch_x, scratch_y, memory, host_x, host_out,
                     y_valid, failure>>
      /\ pc' \in {"kernel", "copy_out", "wait"}
  BY DEF CopyIn, Kernel, CopyOut, backendVars, hostVars, outcomeVars
<1>2. /\ CopiesX' = CopiesX /\ Computes' = Computes /\ CopiesY' = CopiesY
      /\ XCopied' = XCopied /\ YComputed' = YComputed /\ Answer' = Answer
  BY <1>1 DEF CopiesX, Computes, CopiesY, Answer, DeviceBias, XCopied, YComputed
<1>3. /\ CopyIn => pc = "copy_in" /\ pc' = "kernel" /\ queue' = Append(queue, CopiesX)
      /\ Kernel => pc = "kernel" /\ pc' = "copy_out" /\ queue' = Append(queue, Computes)
      /\ CopyOut => pc = "copy_out" /\ pc' = "wait" /\ queue' = Append(queue, CopiesY)
  BY DEF CopyIn, Kernel, CopyOut, Enqueue, CopiesX, Computes, CopiesY
<1>4. pc = "copy_in" => queue = <<>>
  BY DEF Fitting
<1> DEFINE A == CopiesX
           B == Computes
           C == CopiesY
<1>5. /\ pc = "kernel" => queue = <<A>> \/ (queue = <<>> /\ XCopied)
      /\ pc = "copy_out" =>
            \/ queue = <<A, B>>
            \/ queue = <<B>> /\ XCopied
            \/ queue = <<>> /\ YComputed
  BY DEF Progress
<1>6. /\ CopyIn => pc = "copy_in" /\ pc' = "kernel" /\ queue' = Append(queue, A)
      /\ Kernel => pc = "kernel" /\ pc' = "copy_out" /\ queue' = Append(queue, B)
      /\ CopyOut => pc = "copy_out" /\ pc' = "wait" /\ queue' = Append(queue, C)
  BY <1>3
<1>7. A = CopiesX' /\ B = Computes' /\ C = CopiesY'
  BY <1>2
<1> HIDE DEF A, B, C
<1>8. pc' = "kernel" => queue' = <<A>>
  BY <1>4, <1>6, GrownQueues
<1>a. /\ queue = <<>> => Append(queue, B) = <<B>> /\ Append(queue, C) = <<C>>
      /\ queue = <<A>> => Append(queue, B) = <<A, B>>
      /\ queue = <<B>> => Append(queue, C) = <<B, C>>
      /\ queue = <<A, B>> => Append(queue, C) = <<A, B, C>>
  BY GrownQueues
<1>9. pc' = "copy_out" => queue' = <<A, B>> \/ (queue' = <<B>> /\ XCopied)
  BY <1>5, <1>6, <1>a
<1>10. pc' = "wait" => \/ queue' = <<A, B, C>>
                       \/ queue' = <<B, C>> /\ XCopied
                       \/ queue' = <<C>> /\ YComputed
  <2> SUFFICES ASSUME pc' = "wait" PROVE \/ queue' = <<A, B, C>>
                                         \/ queue' = <<B, C>> /\ XCopied
                                         \/ queue' = <<C>> /\ YComputed
    OBVIOUS
  <2>1. pc = "copy_out" /\ queue' = Append(queue, C)
    BY <1>6
  <2>2. CASE queue = <<A, B>>
    BY <1>a, <2>1, <2>2
  <2>3. CASE queue = <<B>> /\ XCopied
    BY <1>a, <2>1, <2>3
  <2>4. CASE queue = <<>> /\ YComputed
    BY <1>a, <2>1, <2>4
  <2> QED
    BY <1>5, <2>1, <2>2, <2>3, <2>4
<1>11. /\ y_valid' => call'.kind # "matvec" /\ failure' # "submit"
       /\ call'.kind = "matvec" => host_x' = call'.x
       /\ pc' # "copying"
  BY <1>1 DEF Progress
<1> QED
  BY <1>2, <1>7, <1>8, <1>9, <1>10, <1>11 DEF Progress

LEMMA StepProgress ==
    ASSUME BackendInv, Fitting, Progress, Next
    PROVE  Progress'
<1>1. CASE Execute
  BY <1>1, ExecuteProgress
<1>2. CASE CopyIn \/ Kernel \/ CopyOut
  BY <1>2, SubmitProgress
<1>3. CASE Terminated
  BY <1>3, Unchanged
  DEF Terminated, Progress, XCopied, YComputed, Answer, CopiesX, Computes, CopiesY,
      DeviceBias, Commands
<1>4. CASE UploadCopies
  <2> DEFINE c == [op |-> "upload", dst |-> fresh, buffer |-> Wanted.buffer,
                   n |-> Wanted.count]
  <2>1. /\ pc' = "copying" /\ queue' = Append(queue, c) /\ pc = "copy"
        /\ UNCHANGED <<call, host_x, y_valid, failure>>
    BY <1>4 DEF UploadCopies, Enqueue, hostVars, outcomeVars
  <2>2. queue = <<>>
    BY <2>1 DEF BackendInv, CallTyped, Fitting, Uploading
  <2>3. c.op = "upload"
    OBVIOUS
  <2> HIDE DEF c
  <2>4. queue' = <<c>>
    BY <2>1, <2>2, GrownQueues
  <2>5. Commands' = {c}
    BY <2>4 DEF Commands
  <2> QED
    BY <2>1, <2>3, <2>5 DEF Progress
<1>5. CASE ~(Execute \/ CopyIn \/ Kernel \/ CopyOut \/ Terminated \/ UploadCopies)
  <2>1. pc' \notin {"copying", "kernel", "copy_out", "wait"}
    BY <1>5 DEF Next, HostStep, Preload, Multiply, Attached, UploadsDone, Return,
       UploadHit, UploadMismatch, UploadAllocates, UploadAllocationFails, MayThrow, Throw,
       UploadCopyFails, UploadEmplaces, KeepScratchX, GrowScratchX, GrowScratchXFails,
       KeepScratchY, GrowScratchY, GrowScratchYFails, SubmitFails, MatvecReturns,
       FreeModel, Destroy, MayDestroy, Calling
  <2>2. NoCall.kind # "matvec"
    BY DEF NoCall
  <2> HIDE DEF NoCall
  <2>3. CASE \E b \in Buffers : \E n \in Shapes(b) : Preload(b, n)
    <3>1. call'.kind # "matvec" /\ y_valid' = y_valid /\ failure' = failure
      BY <2>3 DEF Preload, outcomeVars
    <3> QED
      BY <2>1, <3>1 DEF Progress
  <2>4. CASE \E m \in Products, v \in Vectors : Multiply(m, v)
    <3>1. host_x' = call'.x /\ ~y_valid'
      BY <2>4 DEF Multiply
    <3> QED
      BY <2>1, <3>1 DEF Progress
  <2>5. CASE UploadsDone
    <3>1. call.kind = "preload" => y_valid' = y_valid /\ call' = NoCall
      BY <2>5 DEF UploadsDone, Return
    <3>2. call.kind # "preload" => y_valid' = y_valid /\ call' = call
      BY <2>5 DEF UploadsDone, outcomeVars
    <3>3. host_x' = host_x /\ failure' = failure
      BY <2>5 DEF UploadsDone, Return, outcomeVars, hostVars
    <3> QED
      BY <2>1, <2>2, <3>1, <3>2, <3>3 DEF Progress
  <2>6. CASE MatvecReturns
    <3>1. call' = NoCall /\ failure' = failure /\ pc = "wait"
      BY <2>6 DEF MatvecReturns, Return
    <3>2. failure # "submit"
      BY <3>1 DEF Fitting
    <3> QED
      BY <2>1, <2>2, <3>1, <3>2 DEF Progress
  <2>7. CASE SubmitFails
    <3>1. call' = NoCall /\ y_valid' = y_valid /\ pc \in {"copy_in", "kernel", "copy_out"}
      BY <2>7 DEF SubmitFails, MayThrow, Throw
    <3>2. ~y_valid
      BY <3>1 DEF BackendInv, CallTyped, Multiplying, Progress
    <3> QED
      BY <2>1, <2>2, <3>1, <3>2 DEF Progress
  <2>8. CASE UploadMismatch \/ UploadAllocationFails \/ UploadCopyFails
             \/ GrowScratchXFails \/ GrowScratchYFails
    <3>1. call' = NoCall /\ y_valid' = y_valid /\ failure' # "submit"
      BY <2>8 DEF UploadMismatch, UploadAllocationFails, UploadCopyFails,
         GrowScratchXFails, GrowScratchYFails, MayThrow, Throw
    <3> QED
      BY <2>1, <2>2, <3>1 DEF Progress
  <2>9. CASE Attached \/ UploadHit \/ UploadAllocates \/ UploadEmplaces \/ KeepScratchX
             \/ GrowScratchX \/ KeepScratchY \/ GrowScratchY \/ FreeModel \/ Destroy
    <3>1. UNCHANGED <<call, host_x, y_valid, failure>>
      BY <2>9 DEF Attached, UploadHit, UploadAllocates, UploadEmplaces, KeepScratchX,
         GrowScratchX, KeepScratchY, GrowScratchY, FreeModel, Destroy, hostVars, outcomeVars
    <3> QED
      BY <2>1, <3>1 DEF Progress
  <2> QED
    BY <1>5, <2>3, <2>4, <2>5, <2>6, <2>7, <2>8, <2>9 DEF Next, HostStep
<1> QED
  BY <1>1, <1>2, <1>3, <1>4, <1>5

LEMMA InitProgress == Init => Progress
BY DEF Init, Progress, NoCall

----------------------------------------------------------------------------
(* What backend.h sees of a state: the product in progress, and the output *)
(* vector as far as the last return value entitles the caller to look.     *)
Asked == IF call.kind = "matvec" THEN [matvec |-> call.matvec, x |-> call.x] ELSE NoCall
Seen  == IF y_valid THEN host_out ELSE Junk

AskedFor == UNION {Matvecs[c] : c \in Callers}

LEMMA StepRefines ==
    ASSUME BackendInv, Fitting, Progress, Next
    PROVE  \/ \E m \in AskedFor, v \in Vectors :
                 Asked = NoCall /\ Asked' = [matvec |-> m, x |-> v] /\ Seen' = Junk
           \/ /\ Asked # NoCall /\ Asked' = NoCall
              /\ Seen' = [weights |-> Asked.matvec.weights, bias |-> Asked.matvec.bias,
                          x |-> Asked.x]
           \/ Asked # NoCall /\ Asked' = NoCall /\ Seen' = Seen
           \/ Asked' = Asked /\ Seen' = Seen
<1>1. Typed /\ CallTyped /\ NoCall.kind # "matvec" /\ NoCall' = NoCall
  BY DEF BackendInv, NoCall
<1>2. \A m, v : [matvec |-> m, x |-> v] # NoCall
  BY DEF NoCall
<1>3. call.kind = "matvec" => Asked = [matvec |-> call.matvec, x |-> call.x] /\ Asked # NoCall
  BY <1>2 DEF Asked
<1>4. call'.kind = "matvec" => Asked' = [matvec |-> call'.matvec, x |-> call'.x]
  BY DEF Asked
<1>5. /\ call.kind # "matvec" => Asked = NoCall
      /\ call'.kind # "matvec" => Asked' = NoCall
      /\ call' = call => Asked' = Asked
      /\ y_valid' = y_valid /\ host_out' = host_out => Seen' = Seen
      /\ y_valid' = FALSE => Seen' = Junk
  BY <1>1 DEF Asked, Seen
<1> HIDE DEF NoCall, Asked
<1>6. CASE \E b \in Buffers : \E n \in Shapes(b) : Preload(b, n)
  <2>1. pc = "idle" /\ call'.kind # "matvec" /\ UNCHANGED <<y_valid, host_out>>
    BY <1>6 DEF Preload, MayCall, Calling, outcomeVars, hostVars
  <2>2. call.kind # "matvec"
    BY <1>1, <2>1 DEF CallTyped
  <2> QED
    BY <1>5, <2>1, <2>2
<1>7. CASE \E m \in Products, v \in Vectors : Multiply(m, v)
  <2>1. PICK m \in Products, v \in Vectors : Multiply(m, v)
    BY <1>7
  <2>2. m \in AskedFor
    BY <1>1 DEF AskedFor, Products, Typed
  <2>3. /\ pc = "idle" /\ y_valid' = FALSE
        /\ call' = [kind |-> "matvec", matvec |-> m, x |-> v]
    BY <2>1 DEF Multiply, MayCall, Calling
  <2>4. call'.kind = "matvec" /\ call'.matvec = m /\ call'.x = v /\ call.kind # "matvec"
    BY <1>1, <2>3 DEF CallTyped
  <2> QED
    BY <1>4, <1>5, <2>2, <2>3, <2>4
<1>8. CASE UploadsDone
  <2>1. call.kind = "preload" => y_valid' = y_valid /\ call' = NoCall
    BY <1>8 DEF UploadsDone, Return
  <2>2. call.kind # "preload" => y_valid' = y_valid /\ call' = call
    BY <1>8 DEF UploadsDone, outcomeVars
  <2>3. host_out' = host_out
    BY <1>8 DEF UploadsDone, hostVars
  <2> QED
    BY <1>1, <1>5, <2>1, <2>2, <2>3
<1>9. CASE MatvecReturns
  <2>1. pc = "wait" /\ queue = <<>> /\ call' = NoCall /\ host_out' = host_out
    BY <1>9 DEF MatvecReturns, Return, Waited, hostVars
  <2>2. call.kind = "matvec"
    BY <1>1, <2>1 DEF CallTyped, Multiplying
  <2>3. y_valid' = TRUE
    BY <1>9, <2>2 DEF MatvecReturns, Return
  <2>4. host_out = Answer
    <3>1. /\ queue # <<CopiesX, Computes, CopiesY>> /\ queue # <<Computes, CopiesY>>
          /\ queue # <<CopiesY>>
      BY <2>1
    <3> QED
      BY <2>1, <3>1 DEF Progress
  <2>5. Seen' = Answer
    BY <2>1, <2>3, <2>4 DEF Seen
  <2>6. Asked.matvec = call.matvec /\ Asked.x = call.x /\ Asked # NoCall /\ Asked' = NoCall
    BY <1>1, <1>3, <1>5, <2>1, <2>2
  <2> QED
    BY <2>5, <2>6 DEF Answer
<1>10. CASE UploadMismatch \/ UploadAllocationFails \/ UploadCopyFails
             \/ GrowScratchXFails \/ GrowScratchYFails \/ SubmitFails
  <2>1. call' = NoCall /\ y_valid' = y_valid /\ host_out' = host_out
    BY <1>10 DEF UploadMismatch, UploadAllocationFails, UploadCopyFails,
       GrowScratchXFails, GrowScratchYFails, SubmitFails, MayThrow, Throw, hostVars
  <2> QED
    BY <1>1, <1>3, <1>5, <2>1
<1>11. CASE Execute
  <2>1. call' = call /\ y_valid' = y_valid /\ queue # <<>> /\ Perform(Head(queue))
    BY <1>11 DEF Execute, outcomeVars
  <2>2. y_valid => host_out' = host_out
    <3> SUFFICES ASSUME y_valid PROVE host_out' = host_out
      OBVIOUS
    <3>1. failure # "submit" /\ call.kind # "matvec"
      BY DEF Progress
    <3>2. pc = "copying"
      BY <1>1, <2>1, <3>1 DEF Fitting, CallTyped, Multiplying
    <3>3. Head(queue).op = "upload"
      BY <1>1, <2>1, <3>2, CommandsChange DEF Progress
    <3> QED
      BY <2>1, <3>3 DEF Perform
  <2>3. Seen' = Seen
    BY <2>1, <2>2 DEF Seen
  <2> QED
    BY <1>5, <2>1, <2>3
<1>12. CASE \/ Attached \/ UploadHit \/ UploadAllocates \/ UploadCopies \/ UploadEmplaces
            \/ KeepScratchX \/ GrowScratchX \/ KeepScratchY \/ GrowScratchY
            \/ CopyIn \/ Kernel \/ CopyOut \/ FreeModel \/ Destroy \/ Terminated
  <2>1. UNCHANGED <<call, y_valid, host_out>>
    BY <1>12, Unchanged DEF Attached, UploadHit, UploadAllocates, UploadCopies,
       UploadEmplaces, KeepScratchX, GrowScratchX, KeepScratchY, GrowScratchY, CopyIn,
       Kernel, CopyOut, FreeModel, Destroy, Terminated, hostVars, outcomeVars
  <2> QED
    BY <1>5, <2>1
<1> QED
  BY <1>6, <1>7, <1>8, <1>9, <1>10, <1>11, <1>12 DEF Next, HostStep

(* The backend does what backend.h says.  A call that returns 0 has left   *)
(* W * x + bias, of the x it was called with, in the caller's vector, and  *)
(* nothing the device does later touches that vector; a call that returns  *)
(* -1 has promised nothing.  This is MatvecSpec without its fairness.      *)
THEOREM RefinesMatvec ==
    ASSUME ClientStopsAfter({"scratch", "submit"})
    PROVE  Spec => MatvecSafety
<1> DEFINE Inv == Fitting /\ Progress
<1>1. Init => Inv
  BY InitFitting, InitProgress
<1>2. BackendInv /\ Inv /\ [Next]_vars => Inv'
  <2>1. BackendInv /\ Inv /\ Next => Inv'
    BY StepFitting, StepProgress
  <2>2. Inv /\ UNCHANGED vars => Inv'
    BY Unchanged
    DEF Fitting, Program, DeviceAccessesFit, Commands, Touches, Fits, Live, Free,
        Progress, XCopied, YComputed, Answer, CopiesX, Computes, CopiesY, DeviceBias
  <2> QED
    BY <2>1, <2>2
<1>3. Init => Promise!Init
  BY DEF Init, Promise!Init, NoCall
<1>4. BackendInv /\ Inv /\ [Next]_vars => [Promise!Next]_(Promise!vars)
  <2>1. UNCHANGED vars => UNCHANGED <<Asked, Seen>>
    BY Unchanged DEF Asked, Seen, NoCall
  <2>2. UNCHANGED <<Asked, Seen>> <=> UNCHANGED Promise!vars
    BY DEF Promise!vars, Asked, Seen
  <2>3. BackendInv /\ Inv /\ Next => Promise!Next \/ UNCHANGED <<Asked, Seen>>
    BY StepRefines
    DEF Promise!Next, Promise!Call, Promise!Succeed, Promise!Refuse, Promise!Product,
        Asked, Seen, AskedFor
  <2> QED
    BY <2>1, <2>2, <2>3
<1> HIDE DEF Inv
<1> QED
  BY <1>1, <1>2, <1>3, <1>4, BackendInvHolds, PTL
  DEF Spec, SafetySpec, MatvecSafety, Promise!Safety
=============================================================================
