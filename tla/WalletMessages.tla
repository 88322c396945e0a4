--------------------------- MODULE WalletMessages ---------------------------
(***************************************************************************)
(* The four protobuf codecs that wallet.js writes by hand, and the chain's *)
(* decoder for the same messages.  A message is a record; on the wire it   *)
(* is a sequence of tagged values, where a tag is eight times the field    *)
(* number plus the wire type.                                              *)
(***************************************************************************)
EXTENDS Integers, Sequences, FiniteSetsExt, TLC

\* One field of a codec: what encode writes before the value, and the value that
\* encode leaves out and fromPartial fills in.
Field(name, tag, default) == [name |-> name, tag |-> tag, default |-> default]

CreateSlotFields ==
    << Field("publisher", 10, ""), Field("domain", 18, ""), Field("label", 26, ""),
       Field("summary", 34, ""), Field("category", 42, ""), Field("placement", 50, ""),
       Field("size", 58, ""), Field("rateDenom", 66, ""), Field("rateAmount", 74, ""),
       Field("unitSeconds", 80, 0), Field("minDurationSeconds", 88, 0),
       Field("maxDurationSeconds", 96, 0), Field("tags", 106, << >>) >>

UpdateSlotStatusFields ==
    << Field("publisher", 10, ""), Field("slotId", 18, ""), Field("status", 24, 0) >>

\* A bug: the tags of the two times of a lease are exchanged.
LeaseSlotFieldsExchanged ==
    << Field("lessee", 10, ""), Field("slotId", 18, ""), Field("targetUrl", 26, ""),
       Field("startsAtUnix", 40, 0), Field("durationSeconds", 32, 0) >>
LeaseSlotFields ==
    << Field("lessee", 10, ""), Field("slotId", 18, ""), Field("targetUrl", 26, ""),
       Field("startsAtUnix", 32, 0), Field("durationSeconds", 40, 0) >>

RegisterPublisherFields ==
    << Field("owner", 10, ""), Field("domain", 18, ""), Field("metadataUri", 26, ""),
       Field("proof", 34, ""), Field("verifier", 42, ""), Field("referrer", 50, "") >>

\* The codec that the registry holds for each handler's message type.
Codec == [create   |-> CreateSlotFields,
          status   |-> UpdateSlotStatusFields,
          lease    |-> LeaseSlotFields,
          register |-> RegisterPublisherFields]

\* fromPartial: every field is there, a missing one with its default.
FromPartial(fields, partial) ==
    [name \in {fields[i].name : i \in DOMAIN fields} |->
        IF name \in DOMAIN partial
        THEN partial[name]
        ELSE fields[CHOOSE i \in DOMAIN fields : fields[i].name = name].default]

\* What a writer holds after the pieces were written to it, one after the other.
Written(pieces) ==
    LET buffer[n \in 0 .. Len(pieces)] ==
            IF n = 0 THEN << >> ELSE buffer[n - 1] \o pieces[n]
    IN  buffer[Len(pieces)]

\* encode: the fields in the order of their numbers, defaults left out, a repeated
\* field once for each element.
Encode(fields, message) ==
    LET Entries(f) ==
            IF f.name = "tags"
            THEN [i \in DOMAIN message.tags |-> [tag |-> f.tag, value |-> message.tags[i]]]
            ELSE IF message[f.name] = f.default
                 THEN << >>
                 ELSE << [tag |-> f.tag, value |-> message[f.name]] >>
    IN  Written([i \in DOMAIN fields |-> Entries(fields[i])])

(***************************************************************************)
(* The chain's side: the field numbers and types of tx.proto, without the  *)
(* tags of a slot, which the page always sends empty.                      *)
(***************************************************************************)
ProtoText == [wire |-> 2, zero |-> ""]
ProtoInt  == [wire |-> 0, zero |-> 0]
MsgCreateSlot ==
    << <<"publisher", ProtoText>>, <<"domain", ProtoText>>, <<"label", ProtoText>>,
       <<"summary", ProtoText>>, <<"category", ProtoText>>, <<"placement", ProtoText>>,
       <<"size", ProtoText>>, <<"rateDenom", ProtoText>>, <<"rateAmount", ProtoText>>,
       <<"unitSeconds", ProtoInt>>, <<"minDurationSeconds", ProtoInt>>,
       <<"maxDurationSeconds", ProtoInt>> >>
MsgUpdateSlotStatus ==
    << <<"publisher", ProtoText>>, <<"slotId", ProtoText>>, <<"status", ProtoInt>> >>
MsgLeaseSlot ==
    << <<"lessee", ProtoText>>, <<"slotId", ProtoText>>, <<"targetUrl", ProtoText>>,
       <<"startsAtUnix", ProtoInt>>, <<"durationSeconds", ProtoInt>> >>
MsgRegisterPublisher ==
    << <<"owner", ProtoText>>, <<"domain", ProtoText>>, <<"metadataUri", ProtoText>>,
       <<"proof", ProtoText>>, <<"verifier", ProtoText>>, <<"referrer", ProtoText>> >>
\* The message types by the forms that send them.
Proto == [create |-> MsgCreateSlot, status |-> MsgUpdateSlotStatus,
          lease |-> MsgLeaseSlot, register |-> MsgRegisterPublisher]

\* What the chain reads: the last entry with the field's number and wire type, or
\* the zero value of its type.
Decode(kind, wire) ==
    LET numberOf(name) == CHOOSE n \in DOMAIN Proto[kind] : Proto[kind][n][1] = name
        Read(n) == LET type == Proto[kind][n][2]
                       found == {i \in DOMAIN wire : wire[i].tag = 8 * n + type.wire}
                   IN  IF found = {} THEN type.zero ELSE wire[Max(found)].value
    IN  [name \in {Proto[kind][n][1] : n \in DOMAIN Proto[kind]} |-> Read(numberOf(name))]

\* The signer that tx.proto declares for each message.
SignerOf(kind, wire) ==
    LET message == Decode(kind, wire)
    IN  CASE kind = "lease"    -> message.lessee
          [] kind = "register" -> message.owner
          [] OTHER             -> message.publisher
=============================================================================
