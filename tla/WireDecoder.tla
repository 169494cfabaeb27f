---------------------------- MODULE WireDecoder ----------------------------
(***************************************************************************)
(* The wire format decoder (upb/wire/decode.c, reader.c) on a              *)
(* EpsCopyStream: the loops over the fields of a message, a group, a       *)
(* packed field, a message set item and a skipped group, the limits they   *)
(* push and pop, the nesting depth, and the capture of unknown fields.     *)
(*                                                                         *)
(* What the input says is chosen as it is read: the length of each tag and *)
(* number, the kind of field, the size of each delimited field.  Values    *)
(* and where they are stored are left out; allocation may fail.  An error  *)
(* is thrown to the error handler and ends the call.                       *)
(***************************************************************************)
EXTENDS EpsCopyStream, Sequences, SequencesExt

CONSTANTS
    InputSizes,     \* bound: sizes of the input
    TagBytes,       \* lengths of a tag (1 to 5)
    SizeBytes,      \* lengths of the size of a delimited field (1 to 5)
    VarintBytes,    \* lengths of a number (1 to 10)
    FieldSizes,     \* bound: what a delimited field gives as its size
    MaxDepth        \* upb_DecodeOptions_GetEffectiveMaxDepth

ASSUME DecoderAssumption ==
    /\ InputSizes \subseteq Nat /\ FieldSizes \subseteq Nat /\ MaxDepth \in Nat
    /\ TagBytes \subseteq Nat \ {0} /\ VarintBytes \subseteq Nat \ {0}
    /\ SizeBytes \subseteq Nat \ {0}
    /\ \A t \in TagBytes : t <= Slop
    /\ \A v \in VarintBytes : v <= Slop
    /\ \A t \in TagBytes, v \in VarintBytes \cup SizeBytes : t + v <= Slop
    /\ \A n \in InputSizes : n + Slop < Patch

VARIABLES
    e,          \* upb_Decoder.input
    ptr,        \* the parsing pointer
    frames,     \* the loops that are active, the innermost last
    depth,      \* upb_Decoder.depth
    end_group,  \* upb_Decoder.end_group
    status,     \* "loop" and "field": before and after IsDone; or how it ended
    pos,        \* ghost: the bytes consumed
    overran,    \* ghost: something was read past the limit of its loop
    view        \* ghost: the string last read, and where it was in the input

vars == <<e, ptr, frames, depth, end_group, status, pos, overran, view>>

NoGroup == 0        \* DECODE_NOGROUP
Group == 1          \* the number of every group
OtherGroup == 2     \* a number that ends another group
NoView == [at |-> 0, size |-> 0, from |-> 0]

\* A loop: what it decodes, the delta of the limit it pushed, the depth a
\* skipped group has left, and (ghosts) where in the input it must end at the
\* latest and where the field it belongs to began.
Frame(kind, delta, left, stop) ==
    [kind |-> kind, delta |-> delta, left |-> left, stop |-> stop, from |-> pos]
Top == Last(frames)
In(kinds) == Top.kind \in kinds
MessageKinds == {"top", "message", "group"}
LimitKinds == {"message", "packed"}

Init ==
    \E size \in InputSizes :
        LET s == StreamInit(size)
        IN  /\ e = s.stream /\ ptr = s.ptr
            /\ pos = 0
            /\ frames = <<Frame("top", 0, 0, size)>>
            /\ depth = MaxDepth /\ end_group = NoGroup
            /\ status = "loop"
            /\ overran = FALSE /\ view = NoView

----------------------------------------------------------------------------
(***************************************************************************)
(* Steps.                                                                  *)
(***************************************************************************)
\* upb_ErrorHandler_ThrowError.
Throw ==
    /\ status' = "error"
    /\ UNCHANGED <<e, ptr, frames, depth, end_group, pos, overran, view>>

\* n bytes are consumed, and the innermost loop goes on.
Advance(n) ==
    /\ ptr' = ptr + n
    /\ pos' = pos + n
    /\ overran' = (overran \/ pos + n > Top.stop)
    /\ status' = "loop"

\* The innermost loop returns to the one around it.
Leave == frames' = Front(frames)
Enter(f) == frames' = Append(frames, f)

\* _upb_Decoder_DecodeMessage returns to what called it, with group the number
\* of the END_GROUP tag it saw: _upb_Decoder_DecodeTop,
\* _upb_Decoder_DecodeSubMessage or _upb_Decoder_DecodeGroup, the last two
\* through _upb_Decoder_RecurseSubMessage.  "ok" stands also for the status
\* MissingRequired, which is about values.
ReturnMessage(group) ==
    \/ /\ In({"top"})
       /\ end_group' = group
       /\ status' = IF group = NoGroup THEN "ok" ELSE "error"
       /\ UNCHANGED <<e, frames, depth>>
    \/ /\ In({"message"})
       /\ IF group = NoGroup
             THEN e' = PopLimit(e, Top.delta) /\ Leave /\ status' = "loop"
             ELSE status' = "error" /\ UNCHANGED <<e, frames>>
       /\ end_group' = group
       /\ depth' = depth + 1
    \/ /\ In({"group"})
       /\ IF group = Group
             THEN Leave /\ status' = "loop" /\ end_group' = NoGroup
             ELSE status' = "error" /\ end_group' = group /\ UNCHANGED frames
       /\ depth' = depth + 1
       /\ UNCHANGED e

\* Faulty variant: the loop over a packed field does not end.
StayInPacked == UNCHANGED <<e, frames>>
\* The end of the loop over a packed field.
LeavePacked == e' = PopLimit(e, Top.delta) /\ Leave

\* IsDone at the head of a loop.  At its limit a message returns, a packed
\* field pops its limit, and a skipped group or a message set item fails.
LoopHead ==
    LET d == IsDone(e, ptr)
    IN  /\ status = "loop"
        /\ \/ /\ d.res = "more"
              /\ e' = d.stream /\ ptr' = d.ptr
              /\ status' = "field"
              /\ view' = NoView
              /\ UNCHANGED <<frames, depth, end_group, pos, overran>>
           \/ d.res = "error" /\ Throw
           \/ /\ d.res = "done" /\ In(MessageKinds)
              /\ ReturnMessage(NoGroup)
              /\ view' = NoView
              /\ UNCHANGED <<ptr, pos, overran>>
           \/ /\ d.res = "done" /\ In({"packed"})
              /\ LeavePacked
              /\ view' = NoView
              /\ UNCHANGED <<ptr, depth, end_group, status, pos, overran>>
           \/ d.res = "done" /\ In({"skip", "item"}) /\ Throw

Reading(kinds) == status = "field" /\ In(kinds)
At(n) == ptr + n
String(v, n) == [at |-> v.at, size |-> v.size, from |-> pos + n]

\* A varint or fixed-width field, known or unknown, in any loop with tags; an
\* unknown one is captured.  Also a number of a packed field, without a tag.
Scalar ==
    /\ status = "field"
    /\ \E v \in VarintBytes :
          \/ \E t \in TagBytes :
                /\ ~In({"packed"}) /\ Advance(t + v)
                /\ UNCHANGED view
          \/ /\ In({"packed"}) /\ Advance(v)
             /\ UNCHANGED view
          \/ \E t \in TagBytes :
                LET c == StartCapture(e, ptr)
                IN  /\ In(MessageKinds)
                    /\ ~CaptureFails(c, At(t + v))
                    /\ Advance(t + v)
                    /\ view' = String(Captured(c, At(t + v)), 0)
    /\ UNCHANGED <<e, frames, depth, end_group>>

\* END_GROUP in a message (_upb_Decoder_DecodeFieldNoFast).
EndGroup ==
    /\ Reading(MessageKinds)
    /\ \E t \in TagBytes, group \in {Group, OtherGroup} :
          /\ ReturnMessage(group)
          /\ ptr' = ptr + t /\ pos' = pos + t
          /\ overran' = (overran \/ pos + t > Top.stop)
          /\ view' = NoView

\* A delimited field: its tag, its size (upb_WireReader_ReadSize), and n bytes.
\* The header is h bytes.
Header == {t + s : t \in TagBytes, s \in SizeBytes}

\* _upb_Decoder_ReadString: a string or bytes field, or the message of a message
\* set item.
StringField ==
    /\ Reading(MessageKinds \cup {"item"})
    /\ \E h \in Header, n \in FieldSizes :
          /\ n <= AliasEnd(e) - At(h)
          /\ Advance(h + n)
          /\ view' = String(AliasView(e, At(h), n), h)
    /\ UNCHANGED <<e, frames, depth, end_group>>

\* _upb_Decoder_DecodeFixedPacked.
FixedPacked ==
    /\ Reading(MessageKinds)
    /\ \E h \in Header, n \in FieldSizes :
          /\ n <= EphemeralEnd(e) - At(h)
          /\ Advance(h + n)
          /\ view' = String(EphemeralView(e, At(h), n), h)
    /\ UNCHANGED <<e, frames, depth, end_group>>

\* _upb_Decoder_DecodeUnknownField of a delimited field.
UnknownDelimited ==
    /\ Reading(MessageKinds)
    /\ \E h \in Header, n \in FieldSizes :
          LET c == StartCapture(e, ptr)
          IN  /\ n <= EphemeralEnd(e) - At(h)
              /\ ~CaptureFails(c, At(h + n))
              /\ Advance(h + n)
              /\ view' = String(Captured(c, At(h + n)), 0)
    /\ UNCHANGED <<e, frames, depth, end_group>>

\* _upb_WireReader_SkipValue of a delimited field.
SkipDelimited ==
    /\ Reading({"skip", "item"})
    /\ \E h \in Header, n \in FieldSizes :
          /\ CheckSize(e, At(h), n)
          /\ Advance(h + n)
    /\ UNCHANGED <<e, frames, depth, end_group, view>>

\* _upb_Decoder_DecodeSubMessage up to the first field of the submessage, and
\* _upb_Decoder_DecodeVarintPacked or _upb_Decoder_DecodeEnumPacked up to the
\* first number.
PushField(kind) ==
    /\ Reading(MessageKinds)
    /\ \E h \in Header, n \in FieldSizes :
          LET delta == PushedDelta(e, At(h), n)
          IN  /\ delta >= 0
              /\ e' = PushLimit(e, At(h), n)
              /\ Enter(Frame(kind, delta, 0, pos + h + n))
              /\ ptr' = At(h) /\ pos' = pos + h
    /\ status' = "loop"
    /\ UNCHANGED <<end_group, overran, view>>

SubMessage == PushField("message") /\ depth > 0 /\ depth' = depth - 1
VarintPacked == PushField("packed") /\ UNCHANGED depth

\* _upb_Decoder_DecodeGroup up to its first field: the group must not be at the
\* limit already.
GroupField ==
    /\ Reading(MessageKinds) /\ depth > 0
    /\ \E t \in TagBytes :
          LET d == IsDone(e, At(t))
          IN  /\ d.res = "more"
              /\ e' = d.stream /\ ptr' = d.ptr /\ pos' = pos + t
    /\ Enter(Frame("group", 0, 0, Top.stop))
    /\ depth' = depth - 1
    /\ status' = "loop"
    /\ UNCHANGED <<end_group, overran, view>>

\* upb_Decoder_DecodeMessageSetItem up to its first field.
MessageSetItem ==
    /\ Reading(MessageKinds)
    /\ \E t \in TagBytes : Advance(t)
    /\ Enter(Frame("item", 0, 0, Top.stop))
    /\ UNCHANGED <<e, depth, end_group, view>>

\* _upb_WireReader_SkipGroup up to its first field: of an unknown group, which
\* is captured from its tag on, or inside a skipped group or message set item.
SkipGroup ==
    LET left == IF In({"skip"}) THEN Top.left ELSE depth
    IN  /\ Reading(MessageKinds \cup {"skip", "item"}) /\ left > 0
        /\ e' = IF In(MessageKinds) THEN StartCapture(e, ptr) ELSE e
        /\ \E t \in TagBytes : Advance(t)
        /\ Enter(Frame("skip", 0, left - 1, Top.stop))
        /\ UNCHANGED <<depth, end_group, view>>

\* Its END_GROUP tag, and that of a message set item.  The capture of an unknown
\* group ends with it.
EndSkip ==
    LET outer == frames[Len(frames) - 1].kind
    IN  /\ Reading({"skip", "item"})
        /\ \E t \in TagBytes :
              /\ Advance(t)
              /\ IF In({"skip"}) /\ outer \in MessageKinds
                    THEN /\ ~CaptureFails(e, At(t))
                         /\ view' = [at |-> Captured(e, At(t)).at,
                                     size |-> Captured(e, At(t)).size, from |-> Top.from]
                         /\ e' = [e EXCEPT !.capture_start = NULL]
                    ELSE UNCHANGED <<e, view>>
        /\ Leave
        /\ UNCHANGED <<depth, end_group>>

\* A field that cannot be decoded: a tag, size or number that is too long, a
\* wrong tag, a size that is too large, too deep a nesting, no memory.
BadField == status = "field" /\ Throw

Next ==
    \/ LoopHead
    \/ Scalar \/ EndGroup
    \/ StringField \/ FixedPacked \/ UnknownDelimited \/ SkipDelimited
    \/ SubMessage \/ VarintPacked \/ GroupField
    \/ MessageSetItem \/ SkipGroup \/ EndSkip
    \/ BadField

Spec == Init /\ [][Next]_vars
\* The decoder is a loop of one thread, which nothing blocks.
FairSpec == Spec /\ WF_vars(Next)

----------------------------------------------------------------------------
(***************************************************************************)
(* Properties.                                                             *)
(***************************************************************************)
Running == status \in {"loop", "field"}

\* After IsDone returned false, Slop bytes can be read at ptr without leaving
\* a buffer, and they are the next bytes of the input, or zeros behind it, in
\* the input buffer and in the patch buffer.  A string or a captured unknown
\* field shows the bytes that were read for it, also across the switch of
\* buffers.
ReadsExact ==
    /\ Running => GetInputPtr(e, ptr) = pos
    /\ status = "field" => \A i \in 0 .. Slop - 1 :
          /\ Readable(e, ptr + i)
          /\ Byte(e, ptr + i) = IF pos + i < e.size THEN pos + i ELSE Zero
    /\ \A i \in 0 .. view.size - 1 :
          /\ Readable(e, view.at + i)
          /\ view.from + i < e.size => Byte(e, view.at + i) = view.from + i
    /\ view.at < Patch => view.at + view.size <= e.size

\* The invariant of upb_EpsCopyInputStream_CheckLimit, and every loop's limit
\* is where its field ends: that of the innermost as the stream has it, that of
\* each one around it as popping the saved delta will restore it.
LimitsExact ==
    Running =>
        /\ e.limit_ptr = e.end + Min({0, e.limit})
        /\ GetInputPtr(e, e.end) + e.limit = Top.stop
        /\ \A k \in 1 .. Len(frames) - 1 :
              frames[k].stop = frames[k + 1].stop + frames[k + 1].delta

\* Reads are not checked against the limit, so a field may run past it.  That
\* is always noticed by the next IsDone: no field is read after it, no limit
\* is popped, and decoding succeeds only if every field and every submessage
\* ended where it had to.  In inputs below 2 GiB the limit itself is never
\* taken for an error; in larger ones the conversion to int may reject the
\* input, but never accepts anything.
OverrunNoticed ==
    /\ overran => \/ status = "error"
                  \/ status = "loop" /\ IsDone(e, ptr).res = "error"
    /\ status = "ok" => pos = e.size /\ Len(frames) = 1
    /\ (status = "loop" /\ pos = Top.stop /\ e.size <= IntHalf) =>
          IsDone(e, ptr).res = "done"

\* Decoding returns, whatever the input says.
DecodeReturns == <>(status \in {"ok", "error"})
============================================================================
