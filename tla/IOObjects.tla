------------------------------ MODULE IOObjects ------------------------------
(***************************************************************************)
(* I/O objects of scripts other than inputs with a trigger and UARTs       *)
(* (src/src/ajs_io.c), with the outputs of the GPIO driver of Linux boards *)
(* (src/src/linux/lininoio/io_gpio.c).  Each object has a context that the *)
(* driver opened; the finalizer of the object closes it.  The other        *)
(* drivers are external.                                                   *)
(***************************************************************************)
EXTENDS Naturals, FiniteSets

CONSTANT Objs  \* memory for objects, which may be used again

VARIABLES
  obj,      \* the kind of each object, or "none"
  held,     \* objects that the script can reach
  open,     \* contexts that a driver has open: the object and the kind
  orphans,  \* history: contexts whose object could not be made
  output    \* of an output pin: "level", "pwm", or "half": PWM without its period

vars == <<obj, held, open, orphans, output>>

Kinds == {"digitalOut", "analogIn", "analogOut", "spi", "i2cMaster", "i2cSlave"}

TypeOK ==
  /\ obj \in [Objs -> Kinds \union {"none"}] /\ held \subseteq {o \in Objs : obj[o] # "none"}
  /\ open \subseteq Objs \X Kinds /\ orphans \subseteq Kinds
  /\ output \in [Objs -> {"level", "pwm", "half"}]

Init ==
  /\ obj = [o \in Objs |-> "none"] /\ held = {} /\ open = {} /\ orphans = {}
  /\ output = [o \in Objs |-> "level"]

\* The object with its finalizer is made after the context was opened; without
\* memory for it nobody has the context.
NewIOObject(kind) ==
  \/ \E o \in Objs :
       /\ obj[o] = "none" /\ obj' = [obj EXCEPT ![o] = kind] /\ held' = held \union {o}
       /\ open' = open \union {<<o, kind>>} /\ UNCHANGED orphans
  \/ orphans' = orphans \union {kind} /\ UNCHANGED <<obj, held, open>>

\* The pin has the function and the target opens it, or an error is thrown; the
\* initial level is set once the object is there.
NativeIoDigitalOut == NewIOObject("digitalOut") /\ UNCHANGED output
NativeIoAnalogIn == NewIOObject("analogIn") /\ UNCHANGED output
NativeIoAnalogOut == NewIOObject("analogOut") /\ UNCHANGED output

\* Four pins, and options that are all checked before the target is asked.
NativeIoSpi == NewIOObject("spi") /\ UNCHANGED output

NativeIoI2cMaster == NewIOObject("i2cMaster") /\ UNCHANGED output
NativeIoI2cSlave == NewIOObject("i2cSlave") /\ UNCHANGED output

\* A level, a toggle: PWM is switched off if the period is known.
PinSet(o) == output' = [output EXCEPT ![o] = IF @ = "pwm" THEN "level" ELSE @]

\* PWM is enabled before its period is read or set, which may fail; and with more
\* than 10^9 Hz the period is zero, as if PWM were off.
PinPWM(o) == \E to \in {"pwm", "half"} : output' = [output EXCEPT ![o] = to]

\* Nothing or all of the duty cycle is a level.
NativePWM(o) == PinSet(o) \/ PinPWM(o)

\* A transfer of SPI or I2C, or a value of an analog pin, only uses the context.
UseOutput ==
  /\ \E o \in held : obj[o] = "digitalOut" /\ (PinSet(o) \/ NativePWM(o))
  /\ UNCHANGED <<obj, held, open, orphans>>

Drop == \E o \in held : held' = held \ {o} /\ UNCHANGED <<obj, open, orphans, output>>

\* The finalizer of an analog output closes it as if it were an input.
Closer(kind) == IF kind = "analogOut" THEN "analogIn" ELSE kind

Finalize(gone) ==
  /\ obj' = [o \in Objs |-> IF o \in gone THEN "none" ELSE obj[o]]
  /\ open' = open \ {<<o, Closer(obj[o])>> : o \in gone}
  /\ output' = [o \in Objs |-> IF o \in gone THEN "level" ELSE output[o]]

Finalizer ==
  /\ \E o \in Objs \ held : obj[o] # "none" /\ Finalize({o})
  /\ UNCHANGED <<held, orphans>>

\* The heap is destroyed; drivers keep what nobody closes.
Restart ==
  /\ Finalize({o \in Objs : obj[o] # "none"}) /\ held' = {} /\ UNCHANGED orphans

Next ==
  \/ NativeIoDigitalOut \/ NativeIoAnalogIn \/ NativeIoAnalogOut \/ NativeIoSpi
  \/ NativeIoI2cMaster \/ NativeIoI2cSlave \/ UseOutput \/ Drop \/ Finalizer \/ Restart

Spec == Init /\ [][Next]_vars

-----------------------------------------------------------------------------
(* Properties                                                              *)

\* The script never has an object whose context is closed, and but for analog
\* outputs no context is open whose object is gone (Finalizer, Restart).
ContextsOwned ==
  /\ \A o \in Objs : obj[o] # "none" => <<o, obj[o]>> \in open
  /\ \A c \in open : c[2] = obj[c[1]] \/ c[2] = "analogOut"
=============================================================================
