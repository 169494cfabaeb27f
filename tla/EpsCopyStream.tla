--------------------------- MODULE EpsCopyStream ---------------------------
(***************************************************************************)
(* upb_EpsCopyInputStream (upb/wire/internal/eps_copy_input_stream.h and   *)
(* upb/wire/eps_copy_input_stream.c): a parser checks bounds once per      *)
(* field, because after IsDone returned false Slop bytes can be read.  The *)
(* last Slop bytes of the input are read from a patch buffer with zeros    *)
(* behind them.                                                            *)
(*                                                                         *)
(* Pointers are numbers: the input buffer begins at 0, the patch buffer at *)
(* Patch, and a byte is named by its place in the input, or Zero.  The     *)
(* stream is a record; error handling is that of a decoder (an error       *)
(* handler that does not return).                                          *)
(***************************************************************************)
EXTENDS Integers, FiniteSetsExt

CONSTANTS
    Slop,       \* kUpb_EpsCopyInputStream_SlopBytes
    Patch,      \* address of the patch buffer
    IntHalf     \* INT_MAX + 1

ASSUME StreamAssumption ==
    /\ Slop \in Nat \ {0} /\ Patch \in Nat /\ IntHalf \in Nat
    /\ IntHalf > Slop + 1

Zero == -1
NULL == -1

\* Conversion of a ptrdiff_t to int.
ToInt(x) == ((x + IntHalf) % (2 * IntHalf)) - IntHalf

InInput(e, p) == p \in 0 .. e.size - 1
InPatch(p) == p \in Patch .. Patch + 2 * Slop - 1
Readable(e, p) == InInput(e, p) \/ InPatch(p)
Byte(e, p) == IF InInput(e, p) THEN p ELSE e.patch[p - Patch]

\* upb_EpsCopyInputStream_InitWithErrorHandler on an input of size bytes: the
\* stream and the pointer to read from.
StreamInit(size) ==
    LET small == size <= Slop
    IN  [stream |->
            [size |-> size,
             patch |-> [i \in 0 .. 2 * Slop - 1 |-> IF small /\ i < size THEN i ELSE Zero],
             input_delta |-> IF small THEN -Patch ELSE 0,
             end |-> IF small THEN Patch + size ELSE size - Slop,
             limit_ptr |-> IF small THEN Patch + size ELSE size - Slop,
             limit |-> IF small THEN 0 ELSE Slop,
             capture_start |-> NULL],
         ptr |-> IF small THEN Patch ELSE 0]

\* upb_EpsCopyInputStream_GetInputPtr: the place in the input of what ptr reads.
GetInputPtr(e, ptr) == ptr + e.input_delta

\* Faulty variant: running past the limit counts as reaching it.
AtOrPastLimit(e, ptr) ==
    IF ptr < e.limit_ptr THEN "NotDone"
    ELSE IF ToInt(ptr - e.end) >= e.limit THEN "Done"
    ELSE "NeedFallback"
\* upb_EpsCopyInputStream_IsDoneStatus.
IsDoneStatus(e, ptr) ==
    IF ptr < e.limit_ptr THEN "NotDone"
    ELSE IF ToInt(ptr - e.end) = e.limit THEN "Done"
    ELSE "NeedFallback"

\* Faulty variant: reading goes on at the start of the patch buffer.
FlipToStart(e, ptr, overrun) ==
    [stream |-> [e EXCEPT
        !.patch = [i \in 0 .. 2 * Slop - 1 |->
                      IF i < Slop THEN Byte(e, e.end + i) ELSE Zero],
        !.end = Patch + Slop,
        !.limit = @ - Slop,
        !.limit_ptr = Patch + e.limit,
        !.input_delta = ptr - Patch],
     ptr |-> Patch, res |-> "more"]
\* upb_EpsCopyInputStream_IsDoneFallback, when more input is left: the last
\* Slop bytes are copied to the patch buffer and reading goes on there.
Flip(e, ptr, overrun) ==
    LET new_start == Patch + overrun
    IN  [stream |-> [e EXCEPT
            !.patch = [i \in 0 .. 2 * Slop - 1 |->
                          IF i < Slop THEN Byte(e, e.end + i) ELSE Zero],
            !.end = Patch + Slop,
            !.limit = @ - Slop,
            !.limit_ptr = Patch + Slop + (e.limit - Slop),
            !.input_delta = ptr - new_start],
         ptr |-> new_start, res |-> "more"]

\* upb_EpsCopyInputStream_IsDone, with its fallback.
IsDone(e, ptr) ==
    LET status == IsDoneStatus(e, ptr)
        overrun == ToInt(ptr - e.end)
        Here(res) == [stream |-> e, ptr |-> ptr, res |-> res]
    IN  CASE status = "NotDone" -> Here("more")
          [] status = "Done" -> Here("done")
          [] status = "NeedFallback" ->
                IF overrun < e.limit THEN Flip(e, ptr, overrun) ELSE Here("error")

\* upb_EpsCopyInputStream_CheckSize.
CheckSize(e, ptr, size) == size <= e.limit - (ptr - e.end)

\* upb_EpsCopyInputStream_StartCapture.
StartCapture(e, ptr) == [e EXCEPT !.capture_start = GetInputPtr(e, ptr)]
\* upb_EpsCopyInputStream_EndCapture: when it fails, and what it captured.
CaptureFails(e, ptr) == ptr - e.end > e.limit
Captured(e, ptr) == [at |-> e.capture_start, size |-> GetInputPtr(e, ptr) - e.capture_start]

\* upb_EpsCopyInputStream_ReadStringAlwaysAlias: where the string must end, and
\* the view of it, which points to the input.
AliasEnd(e) == IF e.input_delta = 0 THEN e.end + Slop ELSE e.end
AliasView(e, ptr, size) == [at |-> GetInputPtr(e, ptr), size |-> size]
\* upb_EpsCopyInputStream_ReadStringEphemeral: likewise, the view pointing to
\* the current buffer.
EphemeralEnd(e) == e.end + Slop
EphemeralView(e, ptr, size) == [at |-> ptr, size |-> size]

\* Faulty variant: the limit pointer is not kept below end.
SetLimitUnclamped(e, limit) == [e EXCEPT !.limit = limit, !.limit_ptr = e.end + limit]
\* The assignments PushLimit and PopLimit share.
SetLimit(e, limit) == [e EXCEPT !.limit = limit, !.limit_ptr = e.end + Min({0, limit})]

\* upb_EpsCopyInputStream_PushLimit: the delta it returns (negative: the stream
\* is in error) and the stream.
PushedDelta(e, ptr, size) == e.limit - (size + (ptr - e.end))
PushLimit(e, ptr, size) == SetLimit(e, size + (ptr - e.end))
\* upb_EpsCopyInputStream_PopLimit.
PopLimit(e, saved_delta) == SetLimit(e, e.limit + saved_delta)
============================================================================
