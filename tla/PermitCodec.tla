---------------------------- MODULE PermitCodec ----------------------------
(***************************************************************************)
(* The bytes of a permit.  One writer (encodePermit, packages/permit) and   *)
(* two readers that were written apart: decodePermit in TypeScript, used by *)
(* the relay and the Cardano client, and decode in Aiken, used by the       *)
(* validator.  Between them the bytes are kept in a file and sent by HTTP,  *)
(* where they may be damaged.                                               *)
(* The layout is the code's, with a byte of Base values and with widths     *)
(* that are parameters.  Abstracted: hexadecimal text (it is canonical, so  *)
(* text and bytes are one to one), hash and signature, and the wording of   *)
(* errors: a refusal has its code.                                          *)
(***************************************************************************)
EXTENDS Integers, SequencesExt

CONSTANTS
    Base,               \* values of a byte: 256
    Id, Hash,           \* width of an identifier: 32, of a Cardano hash: 28
    U32, U64,           \* width of the integers: 4 and 8
    MaxAssetNameBytes,  \* 32
    MaxPermitBytes,     \* MAX_PERMIT_BYTES, max_permit_bytes: 512
    Magic,              \* "NP01"
    CardanoMagic,       \* CARDANO_NETWORK_MAGIC: 2
    Permits,            \* what encodePermit is called with, good or bad
    MaxDamage           \* bound: bytes that are changed, lost or added

Byte == 0..(Base - 1)

\* What n bytes can tell apart.
pow[n \in Nat] == IF n = 0 THEN 1 ELSE Base * pow[n - 1]

ASSUME ConstantsAssumption ==
    /\ Base \in Nat /\ Base >= 2
    /\ {Id, Hash, U32, U64} \subseteq Nat \ {0}
    /\ {Hash, MaxAssetNameBytes} \subseteq Byte
    /\ MaxPermitBytes \in Nat /\ MaxDamage \in Nat
    /\ Magic \in Seq(Byte) /\ CardanoMagic \in 0..(pow[U32] - 1)

\* What may be undefined is a sequence of at most one value.
Optional == {s \in Seq(Int) : Len(s) <= 1}

\* Hexadecimal text, of any length.
Text == Seq(Byte)

\* What the types of TypeScript let a permit be, before any check.
PermitV1 ==
    [version : Int, domain : Int, midnightNetwork : Int,
     midnightContractId : Text, midnightTxId : Text, authorizationIndex : Optional,
     policyId : Text, escrowId : Text, milestoneId : Text, beneficiaryPkh : Text,
     actionId : Text,
     entitlement : [policyId : Text, escrowId : Text, milestoneId : Text,
                    assetPolicyId : Text, assetName : Text, amount : Int],
     nullifier : Text, notBeforeSlot : Optional, expiresAtSlot : Int,
     cardanoValidatorHash : Text, relayKeyId : Text]

ASSUME PermitsAssumption == Permits \subseteq PermitV1

VARIABLES
    permit,     \* the permit the relay wants to sign
    bytes,      \* its bytes, as they are now
    damage,     \* how many bytes were damaged
    encoded,    \* encodePermit: "no", "yes" or the code of its refusal
    relayRead,  \* what decodePermit makes of the bytes
    chainRead   \* what the validator's decode makes of them

vars == <<permit, bytes, damage, encoded, relayRead, chainRead>>

Unread == [error |-> "unread", values |-> <<>>]

-----------------------------------------------------------------------------
(* Integers, most significant byte first.                                   *)

\* DataView.setUint32 and setBigUint64 keep the lowest bytes.
writeInt(value, size) == [i \in 1..size |-> (value \div pow[size - i]) % Base]

readInt(digits) ==
    LET value[i \in 0..Len(digits)] == IF i = 0 THEN 0 ELSE value[i - 1] * Base + digits[i]
    IN  value[Len(digits)]

-----------------------------------------------------------------------------
(* encodePermit.                                                            *)

\* The fields after the header, in the order they are written and read.
Layout == <<
    [kind |-> "fixed", size |-> Id],                            \* midnightContractId
    [kind |-> "fixed", size |-> Id],                            \* midnightTxId
    [kind |-> "optional", size |-> U32],                        \* authorizationIndex
    [kind |-> "fixed", size |-> Id],                            \* policyId
    [kind |-> "fixed", size |-> Id],                            \* escrowId
    [kind |-> "fixed", size |-> Id],                            \* milestoneId
    [kind |-> "fixed", size |-> Hash],                          \* beneficiaryPkh
    [kind |-> "fixed", size |-> Id],                            \* actionId
    [kind |-> "counted", lengths |-> {0, Hash}],                \* assetPolicyId
    [kind |-> "counted", lengths |-> 0..MaxAssetNameBytes],     \* assetName
    [kind |-> "integer", size |-> U64],                         \* amount
    [kind |-> "fixed", size |-> Id],                            \* nullifier
    [kind |-> "optional", size |-> U64],                        \* notBeforeSlot
    [kind |-> "integer", size |-> U64],                         \* expiresAtSlot
    [kind |-> "fixed", size |-> Hash],                          \* cardanoValidatorHash
    [kind |-> "fixed", size |-> Id] >>                          \* relayKeyId

\* The values of these fields.
Values(p) == <<
    p.midnightContractId, p.midnightTxId, p.authorizationIndex, p.policyId,
    p.escrowId, p.milestoneId, p.beneficiaryPkh, p.actionId,
    p.entitlement.assetPolicyId, p.entitlement.assetName, p.entitlement.amount,
    p.nullifier, p.notBeforeSlot, p.expiresAtSlot, p.cardanoValidatorHash,
    p.relayKeyId >>

\* What the readers make of the values.  version, domain and midnightNetwork
\* are those that are supported.
ofValues(v) == [
    version |-> 1, domain |-> 1, midnightNetwork |-> 1,
    midnightContractId |-> v[1], midnightTxId |-> v[2], authorizationIndex |-> v[3],
    policyId |-> v[4], escrowId |-> v[5], milestoneId |-> v[6],
    beneficiaryPkh |-> v[7], actionId |-> v[8],
    entitlement |-> [policyId |-> v[4], escrowId |-> v[5], milestoneId |-> v[6],
                     assetPolicyId |-> v[9], assetName |-> v[10], amount |-> v[11]],
    nullifier |-> v[12], notBeforeSlot |-> v[13], expiresAtSlot |-> v[14],
    cardanoValidatorHash |-> v[15], relayKeyId |-> v[16]]

header == Magic \o <<1, 1, 1>> \o writeInt(CardanoMagic, U32)

inRange(value, size) == value \in 0..(pow[size] - 1)

\* Wrong, as all definitions so named: they are used to see that a property
\* notices.  Here only the width of identifiers is checked.
wrongSuits(field, value) == field.kind = "fixed" => Len(value) = field.size

\* decodeFixedHex, assertU32, assertU64 and the lengths of an asset.
suits(field, value) ==
    CASE field.kind = "fixed" -> Len(value) = field.size
      [] field.kind = "counted" -> Len(value) \in field.lengths
      [] field.kind = "integer" -> inRange(value, field.size)
      [] field.kind = "optional" -> \A i \in DOMAIN value : inRange(value[i], field.size)

\* notBeforeSlot is undefined or does not exceed expiresAtSlot.
inOrder(notBefore, expires) == \A i \in DOMAIN notBefore : notBefore[i] <= expires

contextMatches(p) ==
    \A name \in {"policyId", "escrowId", "milestoneId"} : p[name] = p.entitlement[name]

write(field, value) ==
    CASE field.kind = "fixed" -> value
      [] field.kind = "counted" -> <<Len(value)>> \o value
      [] field.kind = "integer" -> writeInt(value, field.size)
      [] field.kind = "optional" ->
            IF value = <<>> THEN <<0>> ELSE <<1>> \o writeInt(value[1], field.size)

bytesOf(p) ==
    LET written[i \in 0..Len(Layout)] ==
            IF i = 0 THEN header ELSE written[i - 1] \o write(Layout[i], Values(p)[i])
    IN  written[Len(Layout)]

\* Why a permit is refused, the checks in the order of the code.
refusal(p) ==
    IF p.version # 1 THEN "NP_PERMIT_UNKNOWN_VERSION"
    ELSE IF \/ p.domain # 1 \/ p.midnightNetwork # 1
            \/ ~contextMatches(p)
            \/ ~inOrder(p.notBeforeSlot, p.expiresAtSlot)
            \/ \E i \in DOMAIN Layout : ~suits(Layout[i], Values(p)[i])
    THEN "NP_PERMIT_INVALID_FIELD"
    ELSE IF Len(bytesOf(p)) > MaxPermitBytes THEN "NP_PERMIT_ENCODING_FAILED"
    ELSE "none"

-----------------------------------------------------------------------------
(* decodePermit, with its ByteReader.                                       *)

Refused(code) == [error |-> code, values |-> <<>>, offset |-> 0]

DecodingFailed == Refused("NP_PERMIT_DECODING_FAILED")

\* A reader that has not failed.
Reading(values, offset) == [error |-> "none", values |-> values, offset |-> offset]

slice(from, offset, size) == SubSeq(from, offset + 1, offset + size)

readHeader(from) ==
    LET n == Len(Magic) IN
    IF n >= Len(from) \/ slice(from, 0, n) # Magic THEN DecodingFailed
    ELSE IF from[n + 1] # 1 THEN Refused("NP_PERMIT_UNKNOWN_VERSION")
    ELSE IF Len(header) > Len(from) \/ slice(from, 0, Len(header)) # header THEN DecodingFailed
    ELSE Reading(<<>>, Len(header))

\* Wrong: every marker but 0 says that the value is there.
wrongBodySize(field, prefix) ==
    CASE field.kind = "optional" -> IF prefix = 0 THEN {0} ELSE {field.size}
      [] field.kind = "counted" -> {prefix} \intersect field.lengths
      [] OTHER -> {field.size}

\* How long the value is after its presence marker or its length: none, if
\* these are not allowed.
bodySize(field, prefix) ==
    CASE field.kind = "optional" -> {IF m = 0 THEN 0 ELSE field.size : m \in {prefix} \intersect {0, 1}}
      [] field.kind = "counted" -> {prefix} \intersect field.lengths
      [] OTHER -> {field.size}

valueOf(field, prefix, body) ==
    CASE field.kind = "optional" -> IF prefix = 0 THEN <<>> ELSE <<readInt(body)>>
      [] field.kind = "integer" -> readInt(body)
      [] OTHER -> body

readField(from, reader, field) ==
    LET marked == field.kind \in {"optional", "counted"}
        start == reader.offset + (IF marked THEN 1 ELSE 0)
        prefix == IF marked /\ start <= Len(from) THEN from[start] ELSE 0
    IN  IF reader.error # "none" THEN reader
        ELSE IF \E n \in bodySize(field, prefix) : start + n <= Len(from)
        THEN LET n == CHOOSE n \in bodySize(field, prefix) : TRUE IN
             Reading(Append(reader.values, valueOf(field, prefix, slice(from, start, n))),
                     start + n)
        ELSE DecodingFailed

\* The two checks after the last field.
end(from, reader) ==
    IF reader.error # "none" THEN reader
    ELSE IF reader.offset # Len(from) THEN Refused("NP_PERMIT_TRAILING_DATA")
    ELSE IF ~inOrder(reader.values[13], reader.values[14]) THEN DecodingFailed
    ELSE reader

decodePermit(from) ==
    LET reader[i \in 0..Len(Layout)] ==
            IF i = 0 THEN readHeader(from) ELSE readField(from, reader[i - 1], Layout[i])
    IN  IF Len(from) > MaxPermitBytes THEN DecodingFailed
        ELSE end(from, reader[Len(Layout)])

-----------------------------------------------------------------------------
(* decode of the validator: each "expect" that does not hold makes the      *)
(* transaction fail.  A cursor that has failed stays so.                    *)

Cursor(from, offset, taken) == [ok |-> TRUE, bytes |-> from, offset |-> offset, taken |-> taken]

Fail == [ok |-> FALSE, bytes |-> <<>>, offset |-> 0, taken |-> <<>>]

expect(cursor, holds) == IF holds THEN cursor ELSE Fail

take_bytes(cursor, size) ==
    IF cursor.ok /\ cursor.offset + size <= Len(cursor.bytes)
    THEN Cursor(cursor.bytes, cursor.offset + size,
                Append(cursor.taken, slice(cursor.bytes, cursor.offset, size)))
    ELSE Fail

\* The last thing that was taken.
top(cursor) == Last(cursor.taken)

\* It is put in another form, or not kept.
turned(cursor, value) == Cursor(cursor.bytes, cursor.offset, Append(Front(cursor.taken), value))

dropped(cursor) == Cursor(cursor.bytes, cursor.offset, Front(cursor.taken))

take_int(cursor, size) ==
    LET next == take_bytes(cursor, size) IN
    IF next.ok THEN turned(next, readInt(top(next))) ELSE Fail

take_optional_int(cursor, size) ==
    LET marker == take_int(cursor, 1)
        after == take_int(dropped(marker), size)
    IN  CASE marker.ok /\ top(marker) = 0 -> turned(marker, <<>>)
          [] marker.ok /\ top(marker) = 1 /\ after.ok -> turned(after, <<top(after)>>)
          [] OTHER -> Fail

\* Wrong: any length is taken.
wrongTakeCounted(cursor, lengths) ==
    LET length == take_int(cursor, 1) IN
    IF length.ok THEN take_bytes(dropped(length), top(length)) ELSE Fail

\* A length that is among those expected, and as many bytes.
take_counted(cursor, lengths) ==
    LET length == take_int(cursor, 1) IN
    IF length.ok /\ top(length) \in lengths
    THEN take_bytes(dropped(length), top(length)) ELSE Fail

expect_int(cursor, size, value) ==
    LET next == take_int(cursor, size) IN
    IF next.ok /\ top(next) = value THEN dropped(next) ELSE Fail

\* The reads of decode, group by group.
take_header(cursor) ==
    LET magic == take_bytes(cursor, Len(Magic))
        known == IF magic.ok /\ top(magic) = Magic THEN dropped(magic) ELSE Fail
        versions == expect_int(expect_int(expect_int(known, 1, 1), 1, 1), 1, 1)
    IN  expect_int(versions, U32, CardanoMagic)

take_ids(cursor) == take_optional_int(take_bytes(take_bytes(cursor, Id), Id), U32)

take_context(cursor) == take_bytes(take_bytes(take_bytes(cursor, Id), Id), Id)

take_action(cursor) == take_bytes(take_bytes(cursor, Hash), Id)

take_asset(cursor) ==
    take_int(take_counted(take_counted(cursor, {0, Hash}), 0..MaxAssetNameBytes), U64)

take_times(cursor) == take_int(take_optional_int(take_bytes(cursor, Id), U64), U64)

take_target(cursor) == take_bytes(take_bytes(cursor, Hash), Id)

decode(from) ==
    LET start == expect(Cursor(from, 0, <<>>), Len(from) <= MaxPermitBytes)
        last == take_target(take_times(take_asset(take_action(
                    take_context(take_ids(take_header(start)))))))
    IN  expect(last, /\ last.ok
                     /\ last.offset = Len(from)
                     /\ inOrder(last.taken[13], last.taken[14]))

-----------------------------------------------------------------------------
(* The life of a permit.                                                    *)

EncodePermit ==
    /\ encoded = "no"
    /\ IF refusal(permit) = "none"
       THEN encoded' = "yes" /\ bytes' = bytesOf(permit)
       ELSE encoded' = refusal(permit) /\ UNCHANGED bytes
    /\ UNCHANGED <<permit, damage, relayRead, chainRead>>

\* What a reader says of the bytes.
relayReading(from) ==
    LET r == decodePermit(from) IN [error |-> r.error, values |-> r.values]

chainReading(from) ==
    LET c == decode(from) IN
    IF c.ok THEN [error |-> "none", values |-> c.taken] ELSE [error |-> "fail", values |-> <<>>]

\* A byte is changed, lost or added, before the bytes are read.
Damage ==
    /\ encoded = "yes" /\ damage < MaxDamage
    /\ relayRead = Unread /\ chainRead = Unread
    /\ \/ \E i \in DOMAIN bytes, b \in Byte : b # bytes[i] /\ bytes' = ReplaceAt(bytes, i, b)
       \/ \E i \in DOMAIN bytes : bytes' = RemoveAt(bytes, i)
       \/ \E i \in 1..(Len(bytes) + 1), b \in Byte : bytes' = InsertAt(bytes, i, b)
    /\ damage' = damage + 1
    /\ UNCHANGED <<permit, encoded, relayRead, chainRead>>

\* validateStored of the relay, and the browser before it builds a claim.
DecodePermit ==
    /\ encoded = "yes" /\ relayRead = Unread
    /\ relayRead' = relayReading(bytes)
    /\ UNCHANGED <<permit, bytes, damage, encoded, chainRead>>

\* authorizes_claim of the validator.
Decode ==
    /\ encoded = "yes" /\ chainRead = Unread
    /\ chainRead' = chainReading(bytes)
    /\ UNCHANGED <<permit, bytes, damage, encoded, relayRead>>

Init ==
    /\ permit \in Permits
    /\ bytes = <<>> /\ damage = 0 /\ encoded = "no"
    /\ relayRead = Unread /\ chainRead = Unread

Next == EncodePermit \/ Damage \/ DecodePermit \/ Decode

Spec == Init /\ [][Next]_vars

-----------------------------------------------------------------------------
(* Properties.                                                              *)

\* The types.
TypeOK ==
    /\ permit \in Permits /\ bytes \in Seq(Byte) /\ damage \in 0..MaxDamage
    /\ encoded \in {"no", "yes", "NP_PERMIT_UNKNOWN_VERSION", "NP_PERMIT_INVALID_FIELD",
                    "NP_PERMIT_ENCODING_FAILED"}
    /\ {relayRead.error, chainRead.error} \subseteq
           {"unread", "none", "fail", "NP_PERMIT_UNKNOWN_VERSION",
            "NP_PERMIT_DECODING_FAILED", "NP_PERMIT_TRAILING_DATA"}

\* What the properties below follow from, and every step keeps: only a permit
\* that is not refused is written, as encodePermit writes it, and what a reader
\* has read is what it reads in the bytes as they are.
CodecInv ==
    /\ TypeOK
    /\ encoded = "yes" => refusal(permit) = "none"
    /\ encoded = "yes" /\ damage = 0 => bytes = bytesOf(permit)
    /\ encoded # "yes" => relayRead = Unread /\ chainRead = Unread
    /\ relayRead # Unread => relayRead = relayReading(bytes)
    /\ chainRead # Unread => chainRead = chainReading(bytes)

\* What was written and not damaged is read back, by the relay as the permit
\* that it signed and by the validator as the values of its fields.
RoundTrip ==
    damage = 0 =>
        /\ relayRead # Unread => relayRead.error = "none" /\ ofValues(relayRead.values) = permit
        /\ chainRead # Unread => chainRead.error = "none" /\ chainRead.values = Values(permit)

\* The two readers agree on all bytes, also on those that nobody has written:
\* the relay keeps no permit that the validator would refuse to read, and both
\* see the same terms.
ReadersAgree ==
    relayRead # Unread /\ chainRead # Unread =>
        /\ relayRead.error = "none" <=> chainRead.error = "none"
        /\ relayRead.values = chainRead.values

\* A permit has one encoding: bytes that are read are those encodePermit would
\* write for what was read, and it would not refuse it.  Therefore one signed
\* permit has one hash.
OneEncoding ==
    relayRead.error = "none" =>
        /\ refusal(ofValues(relayRead.values)) = "none"
        /\ bytesOf(ofValues(relayRead.values)) = bytes
=============================================================================
