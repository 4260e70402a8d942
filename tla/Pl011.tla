-------------------------------- MODULE Pl011 --------------------------------
(***************************************************************************)
(* The PL011 UART driver (arch_hal/aarch64_hal/pl011/src/lib.rs) and the   *)
(* transmitter it drives: a FIFO and a shift register that empty on their  *)
(* own.  The firmware left the UART enabled, with its FIFO on.             *)
(***************************************************************************)
EXTENDS Integers, Sequences

CONSTANT FifoSize

ASSUME FifoAssumption == FifoSize \in Nat \ {0}

VARIABLES
    fifo,     \* the transmit FIFO
    shift,    \* the character being sent, as a sequence
    sent,     \* what went down the line
    pending,  \* what the driver's write loop has still to push
    lag       \* the BUSY flag comes up only once a character is being sent

uart == <<fifo, shift, sent, pending, lag>>

UartInit ==
    /\ fifo = <<>> /\ shift = <<>> /\ sent = <<>> /\ pending = <<>>
    /\ lag \in BOOLEAN

(* The flags of UARTFR. *)
BUSY == shift # <<>> \/ (fifo # <<>> /\ ~lag)
TXFE == fifo = <<>>
TXFF == Len(fifo) = FifoSize

(* The transmitter (hardware): the next character, and its end. *)
Load ==
    /\ shift = <<>> /\ fifo # <<>>
    /\ shift' = <<Head(fifo)>> /\ fifo' = Tail(fifo)
    /\ UNCHANGED <<sent, pending, lag>>
Send ==
    /\ shift # <<>>
    /\ sent' = sent \o shift /\ shift' = <<>>
    /\ UNCHANGED <<fifo, pending, lag>>

(* write: a carriage return goes before every newline. *)
Crlf(s) ==
    LET Chars[n \in 0 .. Len(s)] ==
            IF n = 0 THEN <<>>
            ELSE Chars[n - 1] \o (IF s[n] = "\n" THEN <<"\r", "\n">> ELSE <<s[n]>>)
    IN  Chars[Len(s)]
write(s) == pending' = Crlf(s) /\ UNCHANGED <<fifo, shift, sent, lag>>

(* Mutant: the data register is written without a look at the flags. *)
pushb_NoWait ==
    /\ pending # <<>>
    /\ fifo' = IF TXFF THEN fifo ELSE Append(fifo, Head(pending))
    /\ pending' = Tail(pending)
    /\ UNCHANGED <<shift, sent, lag>>

(* pushb: wait while the FIFO is full, then write the data register. *)
pushb ==
    /\ pending # <<>>
    /\ ~TXFF
    /\ fifo' = Append(fifo, Head(pending))
    /\ pending' = Tail(pending)
    /\ UNCHANGED <<shift, sent, lag>>

(* The two loops of flush end when these hold. *)
NotBusy == ~BUSY
Flushed == ~TXFE

(* disabled, after flush, and the rest of init: the FIFO is switched off,  *)
(* which empties it, and on again.                                         *)
Reset == fifo' = <<>> /\ UNCHANGED <<shift, sent, pending, lag>>
==============================================================================
