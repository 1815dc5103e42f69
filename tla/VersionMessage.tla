---------------------------- MODULE VersionMessage ----------------------------
(***************************************************************************)
(* The two messages that open a connection (IProtocolHandler.cpp): the     *)
(* client lists the versions it supports, the server answers with the one  *)
(* it selects.  A version is three digits in base B, 256 in the code.      *)
(***************************************************************************)
EXTENDS VarInt, FiniteSetsExt

CONSTANTS
  MAGIC_BYTES,  \* the bytes every message starts with
  Supported     \* Version::NAMES, the versions this program knows

ASSUME VersionAssumption ==
  /\ MAGIC_BYTES \in Seq(0 .. B - 1)
  /\ Supported # {} /\ Supported \subseteq 0 .. B * B * B - 1

SUPPORTED_VERSIONS == 1
SELECTED_VERSION == 2

\* The result of a parse: the bytes used, 0 when the message is not complete yet,
\* what it holds, and whether it threw.
Parsed(used, value) == [used |-> used, value |-> value, thrown |-> FALSE]
Incomplete == Parsed(0, {})
Invalid == [used |-> 0, value |-> {}, thrown |-> TRUE]

\* The masks and shifts of the three digits.
Digits(version) == <<version \div (B * B), (version \div B) % B, version % B>>

\* raw_msg is made of char, which is signed here: the cast to uint8_t is missing
\* from the last digit, and the sum is taken on 32 bits.
Signed(byte) == IF byte < B \div 2 THEN byte ELSE byte - B
FromDigits(d) == (d[1] * B * B + d[2] * B + Signed(d[3])) % (B * B * B * B)

ClientVersionList(versions) ==
  LET listed == SetToSeq(versions)
  IN  MAGIC_BYTES \o <<SUPPORTED_VERSIONS, Len(listed)>>
        \o FlattenSeq([i \in DOMAIN listed |-> Digits(listed[i])])

ServerSelectedVersion(version) == MAGIC_BYTES \o <<SELECTED_VERSION>> \o Digits(version)

ParseClientVersion(raw) ==
  LET fixed == Len(MAGIC_BYTES) + 2
      count == raw[fixed]
  IN  IF Len(raw) < fixed THEN Incomplete
      ELSE IF ~IsPrefix(Append(MAGIC_BYTES, SUPPORTED_VERSIONS), raw) THEN Invalid
      ELSE IF Len(raw) < fixed + 3 * count THEN Incomplete
      ELSE Parsed(fixed + 3 * count,
             {FromDigits(SubSeq(raw, fixed + 3 * i - 2, fixed + 3 * i)) : i \in 1 .. count})

ParseServerVersion(raw) ==
  LET fixed == Len(MAGIC_BYTES) + 1
  IN  IF Len(raw) < fixed + 3 THEN Incomplete
      ELSE IF ~IsPrefix(Append(MAGIC_BYTES, SELECTED_VERSION), raw) THEN Invalid
      ELSE Parsed(fixed + 3, {FromDigits(SubSeq(raw, fixed + 1, fixed + 3))})

\* Mutated Known: the versions this program does not know stay.
KnownByAnyone(versions) == versions

\* authorize_request of PreAuthPeer: of the versions read, the greatest this
\* program knows; with none the connection is closed.
Known(versions) == versions \cap Supported
Selected(versions) == Max(Known(versions))
=============================================================================
