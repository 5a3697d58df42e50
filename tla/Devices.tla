------------------------------- MODULE Devices -------------------------------
(***************************************************************************)
(* Which device chris_backend_create takes for a --device option: a build  *)
(* with AdaptiveCpp (src/backend_acpp.cpp) searches the devices SYCL       *)
(* reports, the build without (src/backend_cpu.c) has one.                 *)
(*                                                                         *)
(* A machine is a record: build ("acpp" or "cpu") and devices, a sequence  *)
(* of records with a kind ("gpu", "cpu" or "other") and the words that     *)
(* occur in the device's name in lower case.  A request is the text typed, *)
(* the same in lower case, and the number it is read as, or NoIndex.       *)
(* A device is named by its place, which --list-devices prints less one.   *)
(***************************************************************************)
EXTENDS Integers, Sequences

NoDevice == 0
NoIndex  == -1

(* What is typed decides the other two; the build without AdaptiveCpp runs *)
(* on one CPU.                                                             *)
ProperRequest(request) ==
    /\ request.index \in Nat \cup {NoIndex}
    /\ (request.typed = "") <=> (request.lower = "")
    /\ request.typed \in {"auto", "cpu"} => request.lower = request.typed
    /\ request.lower \in {"", "auto", "gpu", "cpu"} => request.index = NoIndex
    /\ request.typed = "0" => request.index = 0

ProperMachine(machine) ==
    /\ machine.build \in {"acpp", "cpu"}
    /\ machine.devices \in Seq({machine.devices[n] : n \in DOMAIN machine.devices})
    /\ machine.build = "cpu" => Len(machine.devices) = 1 /\ machine.devices[1].kind = "cpu"

First(places) ==
    IF places = {} THEN NoDevice
    ELSE CHOOSE n \in places : \A k \in places : n <= k

OfKind(devices, kind) == {n \in DOMAIN devices : devices[n].kind = kind}
Named(devices, word)  == {n \in DOMAIN devices : word \in devices[n].words}

Indexed(devices, index) ==
    IF index < Len(devices) THEN index + 1 ELSE NoDevice

PreferredFront(devices) ==                                      \* seeded fault
    First(DOMAIN devices)
Preferred(devices) ==
    IF OfKind(devices, "gpu") # {} THEN First(OfKind(devices, "gpu"))
    ELSE First(DOMAIN devices)

(* choose_device; NoDevice when it throws.                                 *)
choose_device(devices, request) ==
    LET spec == IF request.typed = "" THEN "auto" ELSE request.lower
    IN  IF request.index # NoIndex THEN Indexed(devices, request.index)
        ELSE CASE spec = "auto"           -> Preferred(devices)
               [] spec \in {"gpu", "cpu"} -> First(OfKind(devices, spec))
               [] OTHER                   -> First(Named(devices, spec))

(* The build without AdaptiveCpp compares the text as it was typed.        *)
Taken(machine, request) ==
    IF machine.build = "acpp" THEN choose_device(machine.devices, request)
    ELSE IF request.typed \in {"auto", "cpu", "0"} THEN 1 ELSE NoDevice

----------------------------------------------------------------------------
(* What src/backend.h promises for a request: any of these devices.        *)
Promised(devices, request) ==
    LET gpus == OfKind(devices, "gpu")
    IN  IF request.index # NoIndex
        THEN {n \in DOMAIN devices : n = request.index + 1}
        ELSE CASE request.lower \in {"", "auto"} ->
                    IF gpus # {} THEN gpus ELSE {n \in DOMAIN devices : n = 1}
               [] request.lower = "gpu" -> gpus
               [] request.lower = "cpu" -> OfKind(devices, "cpu")
               [] OTHER -> Named(devices, request.lower)
==============================================================================
