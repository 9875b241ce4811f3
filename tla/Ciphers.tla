-------------------------------- MODULE Ciphers --------------------------------
(***************************************************************************)
(* crypto's Cipheriv and Decipheriv (crypto_cipher.go, 40_cipher.js), Hash *)
(* and Hmac (10_hash.js, crypto_binding.go), randomInt and UUIDs in order  *)
(* (20_random_kdf.js).                                                     *)
(*                                                                         *)
(* The modes work on real data over a small alphabet: a byte has three     *)
(* bits, a block four bytes, and the block cipher is a Feistel network.    *)
(* The tag of an AEAD mode is a record of what it authenticates.           *)
(***************************************************************************)
EXTENDS Integers, Sequences, FiniteSets, SequencesExt

CONSTANTS
  CipherWorlds,  \* records [impl, text, encPad, decPad, aad, plen, encTag, decTag, fault]
  Wraps,         \* values of GCM's 32-bit counter
  MaxHashCalls,  \* bound: calls on Hashes
  Randoms,       \* values of six random bytes
  Instants,      \* values of the clock, and
  Sequence,      \* of the 12 bits that order UUIDs of one instant
  MaxDecoded,    \* bound: bytes for an OutputDecoder
  Reused         \* a Hash goes on being used after its digest

ASSUME CiphersAssumption ==
  /\ {Wraps, Randoms, Instants, Sequence} \subseteq Nat \ {0} /\ {MaxHashCalls, MaxDecoded} \subseteq Nat
  /\ Sequence % 2 = 0 /\ Reused \in BOOLEAN

VARIABLES cp, hs, ru, od

-----------------------------------------------------------------------------
(* The block cipher: external *)

Block == 4
Half == 2
Byte == 0 .. 7
Bit(x, k) == (x \div (2 ^ k)) % 2
XorTable == [a, b \in Byte |->
  (4 * (((a \div 4) + (b \div 4)) % 2)) + (2 * (((a \div 2) + (b \div 2)) % 2)) + ((a + b) % 2)]
Xor(s, t) == [i \in DOMAIN s |-> XorTable[s[i], t[i]]]
Left(b) == SubSeq(b, 1, Half)
Right(b) == SubSeq(b, Half + 1, Block)
Round == [r \in [1 .. Half -> Byte] |-> <<((3 * r[1]) + (r[2] * r[2]) + 1) % 8, ((r[1] * r[2]) + (5 * r[2]) + 2) % 8>>]
Swapped == [b \in [1 .. Block -> Byte] |-> Right(b) \o Xor(Left(b), Round[Right(b)])]
Unswapped == [b \in [1 .. Block -> Byte] |-> Xor(Right(b), Round[Left(b)]) \o Left(b)]
Encrypt(b) == Swapped[Swapped[Swapped[b]]]
Decrypt(b) == Unswapped[Unswapped[Unswapped[b]]]
KeyBlock(n) == Encrypt(<<n % 8, (n \div 8) % 8, 1, 2>>)
IV == <<5, 0, 3, 6>>
Fill(n, v) == [i \in 1 .. n |-> v]
Numbers(n) == [i \in 1 .. n |-> i]
Piece(s, k, size) == SubSeq(s, ((k - 1) * size) + 1, k * size)
WithPiece(s, k, p) == [i \in DOMAIN s |-> IF (i - 1) \div Half = k - 1 THEN p[((i - 1) % Half) + 1] ELSE s[i]]

-----------------------------------------------------------------------------
(* cipherCtx *)

TagFull == 4
NoTag == [of |-> <<>>, n |-> 0]
Aead == {"gcm", "ccm", "chachapoly"}
Ctx(impl, decrypt, tagLen) ==
  [impl |-> impl, decrypt |-> decrypt, padding |-> TRUE, pending |-> <<>>, wrapped |-> FALSE, prev |-> IV, reg |-> IV,
   at |-> 0, ctr |-> Wraps - 1, used |-> 0, aad |-> <<>>, plain |-> <<>>, tag |-> NoTag, tagSet |-> FALSE,
   tagLen |-> IF tagLen < 0 /\ (impl = "chachapoly" \/ (impl = "gcm" /\ ~decrypt)) THEN TagFull ELSE tagLen,
   ccmLen |-> -1, ccmDone |-> FALSE, ccmFail |-> FALSE, started |-> FALSE, finalized |-> FALSE]
Ok(c, out) == [c |-> c, out |-> out, ok |-> TRUE]
Err(c) == [c |-> c, out |-> <<>>, ok |-> FALSE]

\* ctr, ofb, cfb, chacha20: the library's streams, a block of key at a time.
Streamed(c, in) ==
  LET key(p) == KeyBlock((p \div Block) + 1)[(p % Block) + 1]
  IN  Ok([c EXCEPT !.at = @ + Len(in)], [i \in DOMAIN in |-> XorTable[in[i], key(c.at + i - 1)]])
\* GCM's counter: a block of key when the last one is used up.
Ctr32(c, in) ==
  FoldLeft(LAMBDA r, p :
    LET fresh == r.c.used \in {0, Block}
        ctr == IF fresh THEN (r.c.ctr + 1) % Wraps ELSE r.c.ctr
        used == IF fresh THEN 0 ELSE r.c.used
    IN  Ok([r.c EXCEPT !.ctr = ctr, !.used = used + 1], Append(r.out, XorTable[p, KeyBlock(ctr)[used + 1]])),
    Ok(c, <<>>), in)
Cfb8(c, in) ==
  FoldLeft(LAMBDA r, p :
    LET o == XorTable[p, Encrypt(r.c.reg)[1]]
    IN  Ok([r.c EXCEPT !.reg = Append(Tail(@), IF c.decrypt THEN p ELSE o)], Append(r.out, o)),
    Ok(c, <<>>), in)
\* The register shifts by a bit; a byte's first bit is its highest.
Shifted(reg, bit) == [k \in DOMAIN reg |-> ((2 * reg[k]) % 8) + (IF k = Len(reg) THEN bit ELSE Bit(reg[k + 1], 2))]
Cfb1(c, in) ==
  FoldLeft(LAMBDA r, p :
    LET bits == FoldLeft(LAMBDA s, k :
                  LET o == (Bit(p, k) + Bit(Encrypt(s.reg)[1], 2)) % 2
                  IN  [reg |-> Shifted(s.reg, IF c.decrypt THEN Bit(p, k) ELSE o), o |-> s.o + (o * (2 ^ k))],
                  [reg |-> r.c.reg, o |-> 0], <<2, 1, 0>>)
    IN  Ok([r.c EXCEPT !.reg = bits.reg], Append(r.out, bits.o)),
    Ok(c, <<>>), in)
\* Whole blocks of cbc and ecb.
Blocks(c, data) ==
  FoldLeft(LAMBDA r, k :
    LET src == Piece(data, k, Block)
        dst == CASE c.impl = "ecb" /\ c.decrypt -> Decrypt(src)
                 [] c.impl = "ecb" /\ ~c.decrypt -> Encrypt(src)
                 [] c.impl # "ecb" /\ c.decrypt -> Xor(Decrypt(src), r.c.prev)
                 [] OTHER -> Encrypt(Xor(src, r.c.prev))
    IN  Ok([r.c EXCEPT !.prev = IF c.decrypt THEN src ELSE dst], r.out \o dst),
    Ok(c, <<>>), Numbers(Len(data) \div Block))
\* The block that may carry the padding is held back.
Buffered(c, in) ==
  LET all == c.pending \o in
      whole == (Len(all) \div Block) * Block
      n == IF c.decrypt /\ c.padding /\ whole = Len(all) /\ whole > 0 THEN whole - Block ELSE whole
      r == Blocks(c, SubSeq(all, 1, n))
  IN  Ok([r.c EXCEPT !.pending = SubSeq(all, n + 1, Len(all))], r.out)

\* CCM takes the whole message in one call, and has the tag before it.
Mac(c, msg) == [of |-> <<c.aad, msg>>, n |-> c.tagLen]
CcmUpdate(c, in) ==
  IF c.ccmDone \/ (c.ccmLen >= 0 /\ Len(in) # c.ccmLen) THEN Err(c)
  ELSE LET r == Streamed([c EXCEPT !.ccmDone = TRUE], in)
       IN  CASE ~c.decrypt -> Ok([r.c EXCEPT !.tag = Mac(c, in)], r.out)
             [] c.decrypt /\ (~c.tagSet \/ Mac(c, r.out) # c.tag) -> Ok([r.c EXCEPT !.ccmFail = TRUE], <<>>)
             [] OTHER -> r
-----------------------------------------------------------------------------
(* AES key wrap: halves of a block *)

Counted(a, t) == Xor(a, <<(t \div 8) % 8, t % 8>>)
HalfOf(s, i) == Piece(s, i + 1, Half)
WithHalves(s, i, b) == WithPiece(WithPiece(s, 1, Left(b)), i + 1, Right(b))
\* The integrity value and the key behind it, six times over.
WrapCore(s) ==
  LET n == (Len(s) \div Half) - 1
  IN  FoldLeft(LAMBDA r, k :
        LET b == Encrypt(HalfOf(r, 0) \o HalfOf(r, ((k - 1) % n) + 1))
        IN  WithHalves(r, ((k - 1) % n) + 1, Counted(Left(b), k) \o Right(b)),
        s, Numbers(6 * n))
UnwrapCore(s) ==
  LET n == (Len(s) \div Half) - 1
  IN  FoldLeft(LAMBDA r, k :
        LET i == n - ((k - 1) % n)
        IN  WithHalves(r, i, Decrypt(Counted(HalfOf(r, 0), (n * (5 - ((k - 1) \div n))) + i) \o HalfOf(r, i))),
        s, Numbers(6 * n))
WrapIV == <<6, 4>>
PadIV == <<5>>
AesWrap(p) == IF Len(p) < 2 * Half \/ Len(p) % Half # 0 THEN <<>> ELSE WrapCore(WrapIV \o p)
AesUnwrap(q) ==
  LET s == UnwrapCore(q)
  IN  IF Len(q) < 3 * Half \/ Len(q) % Half # 0 THEN Err(q)
      ELSE IF HalfOf(s, 0) = WrapIV THEN Ok(q, SubSeq(s, Half + 1, Len(q))) ELSE Err(q)
AesWrapPad(p) ==
  LET s == PadIV \o <<Len(p)>> \o p \o (IF Len(p) % Half = 0 THEN <<>> ELSE <<0>>)
  IN  IF p = <<>> THEN <<>> ELSE IF Len(s) = Block THEN Encrypt(s) ELSE WrapCore(s)
AesUnwrapPad(q) ==
  LET s == IF Len(q) = Block THEN Decrypt(q) ELSE UnwrapCore(q)
      n == s[2]
      m == Len(q) - Half
  IN  IF Len(q) < Block \/ Len(q) % Half # 0 THEN Err(q)
      ELSE IF s[1] = PadIV[1] /\ n \in m - Half + 1 .. m /\ \A i \in n + Half + 1 .. m + Half : s[i] = 0
           THEN Ok(q, SubSeq(s, Half + 1, Half + n)) ELSE Err(q)
\* One call takes the whole key; pending tells that it was made.
WrapUpdate(c, in) ==
  LET d == [c EXCEPT !.wrapped = TRUE]
      out == IF c.impl = "wrap" THEN AesWrap(in) ELSE AesWrapPad(in)
  IN  CASE c.wrapped -> Err(c)
        [] ~c.wrapped /\ c.decrypt -> [IF c.impl = "wrap" THEN AesUnwrap(in) ELSE AesUnwrapPad(in) EXCEPT !.c = d]
        [] OTHER -> IF out = <<>> THEN Err(d) ELSE Ok(d, out)

-----------------------------------------------------------------------------
(* update, final and the tag *)

Update(c0, in) ==
  LET c == [c0 EXCEPT !.started = TRUE]
      r == IF c.impl = "gcm" THEN Ctr32(c, in) ELSE Streamed(c, in)
  IN  CASE c0.finalized -> Err(c0)
        [] c0.impl = "ctr" -> Streamed(c, in)
        [] c0.impl \in {"gcm", "chachapoly"} -> Ok([r.c EXCEPT !.plain = @ \o (IF c.decrypt THEN r.out ELSE in)], r.out)
        [] c0.impl = "cfb8" -> Cfb8(c, in)
        [] c0.impl = "cfb1" -> Cfb1(c, in)
        [] c0.impl = "ccm" -> CcmUpdate(c, in)
        [] c0.impl \in {"wrap", "wrappad"} -> WrapUpdate(c, in)
        [] OTHER -> Buffered(c, in)

Padded(s) == LET pad == Block - (Len(s) % Block) IN s \o Fill(pad, pad)
GoodPad(out) == Last(out) \in 1 .. Block /\ \A i \in Len(out) - Last(out) + 1 .. Len(out) : out[i] = Last(out)
FinalBlocks(c) ==
  LET open == Len(c.pending) % Block # 0
      whole == IF ~c.decrypt /\ c.padding THEN Padded(c.pending) ELSE c.pending
      r == Blocks(c, whole)
  IN  CASE ~c.decrypt -> IF ~c.padding /\ open THEN Err(c) ELSE r
        [] c.decrypt /\ (open \/ (c.padding /\ c.pending = <<>>)) -> Err(c)
        [] OTHER -> IF ~c.padding THEN r
                    ELSE IF GoodPad(r.out) THEN Ok(r.c, SubSeq(r.out, 1, Len(r.out) - Last(r.out))) ELSE Err(r.c)
Authenticates(c) == c.tagSet /\ c.tag.of = <<c.aad, c.plain>>
Final(c0) ==
  LET c == [c0 EXCEPT !.finalized = TRUE]
      late == IF c.ccmDone THEN Ok(c, <<>>) ELSE CcmUpdate(c, <<>>)
  IN  CASE c0.finalized -> Err(c0)
        [] c.impl \in {"cbc", "ecb"} -> FinalBlocks(c)
        [] c.impl \in {"gcm", "chachapoly"} /\ ~c.decrypt -> Ok([c EXCEPT !.tag = Mac(c, c.plain)], <<>>)
        [] c.impl \in {"gcm", "chachapoly"} /\ c.decrypt -> IF Authenticates(c) THEN Ok(c, <<>>) ELSE Err(c)
        [] c.impl = "ccm" -> [late EXCEPT !.ok = @ /\ ~(c.decrypt /\ late.c.ccmFail), !.out = <<>>]
        [] OTHER -> Ok(c, <<>>)
SetAAD(c, aad, plen) ==
  IF c.impl \notin Aead \/ c.started \/ c.finalized \/ (c.impl = "ccm" /\ plen < 0) THEN Err(c)
  ELSE Ok([c EXCEPT !.aad = @ \o aad, !.ccmLen = IF c.impl = "ccm" THEN plen ELSE @], <<>>)
TagFits(c, n) ==
  CASE c.impl = "gcm" -> (c.tagLen < 0 /\ n = TagFull) \/ n = c.tagLen
    [] c.impl = "ccm" -> n = c.tagLen
    [] OTHER -> n \in 1 .. TagFull /\ (c.tagLen = TagFull \/ n = c.tagLen)
SetAuthTag(c, tag) ==
  IF c.impl \notin Aead \/ ~c.decrypt \/ c.tagSet \/ c.finalized \/ ~TagFits(c, tag.n) THEN Err(c)
  ELSE Ok([c EXCEPT !.tag = tag, !.tagSet = TRUE], <<>>)
GetAuthTag(c) == IF c.impl \notin Aead \/ c.decrypt \/ ~c.finalized \/ c.tag = NoTag THEN Err(c) ELSE Ok(c, c.tag)

-----------------------------------------------------------------------------
(* A text is encrypted, damaged or not, and decrypted, in pieces *)

CPInit == \E w \in CipherWorlds :
  cp = [w |-> w, enc |-> [Ctx(w.impl, FALSE, w.encTag) EXCEPT !.padding = w.encPad],
        dec |-> [Ctx(w.impl, TRUE, w.decTag) EXCEPT !.padding = w.decPad],
        rest |-> w.text, cipher |-> <<>>, tag |-> NoTag, out |-> <<>>, phase |-> "encrypt"]
Damaged(s, fault) ==
  CASE fault = "flip" -> [s EXCEPT ![1] = XorTable[@, 1]]
    [] fault = "cut" -> Front(s)
    [] fault = "block" -> SubSeq(s, 1, Len(s) - Block)
    [] OTHER -> s
DamagedTag(tag, fault) ==
  CASE fault = "tag" -> [tag EXCEPT !.of = <<>>]
    [] fault = "short" -> [tag EXCEPT !.n = @ - 1]
    [] OTHER -> tag

EncryptsAAD ==
  /\ cp.phase = "encrypt" /\ cp.enc.aad # cp.w.aad
  /\ LET r == SetAAD(cp.enc, cp.w.aad, cp.w.plen)
     IN  cp' = [cp EXCEPT !.enc = r.c, !.phase = IF r.ok THEN @ ELSE "refused"]
Encrypts ==
  /\ cp.phase = "encrypt" /\ (cp.w.text = <<>> => ~cp.enc.started)
  /\ \E n \in 0 .. Len(cp.rest) : \E r \in {Update(cp.enc, SubSeq(cp.rest, 1, n))} :
       /\ cp.rest # <<>> => n > 0
       /\ cp' = [cp EXCEPT !.enc = r.c, !.rest = SubSeq(@, n + 1, Len(@)), !.cipher = @ \o r.out,
                           !.phase = IF r.ok THEN @ ELSE "refused"]
\* final(), getAuthTag(), and the ciphertext on its way.
Sends ==
  /\ cp.phase = "encrypt" /\ cp.rest = <<>> /\ (cp.w.impl \in {"wrap", "wrappad"} => cp.enc.wrapped)
  /\ \E r \in {Final(cp.enc)} : LET tag == GetAuthTag(r.c) IN
       cp' = [cp EXCEPT !.enc = r.c, !.phase = IF r.ok THEN "decrypt" ELSE "refused",
                          !.rest = Damaged(cp.cipher \o r.out, cp.w.fault),
                          !.tag = IF tag.ok THEN DamagedTag(tag.out, cp.w.fault) ELSE NoTag,
                          !.cipher = <<>>]
DecryptsAAD ==
  /\ cp.phase = "decrypt" /\ cp.dec.aad # cp.enc.aad /\ cp.w.fault # "aad"
  /\ LET r == SetAAD(cp.dec, cp.enc.aad, cp.w.plen)
     IN  cp' = [cp EXCEPT !.dec = r.c, !.phase = IF r.ok THEN @ ELSE "failed"]
DecryptsTag ==
  /\ cp.phase = "decrypt" /\ cp.tag # NoTag /\ ~cp.dec.tagSet
  /\ LET r == SetAuthTag(cp.dec, cp.tag) IN cp' = [cp EXCEPT !.dec = r.c, !.phase = IF r.ok THEN @ ELSE "failed"]
Decrypts ==
  /\ cp.phase = "decrypt"
  /\ \E n \in 1 .. Len(cp.rest) : \E r \in {Update(cp.dec, SubSeq(cp.rest, 1, n))} :
       cp' = [cp EXCEPT !.dec = r.c, !.rest = SubSeq(@, n + 1, Len(@)), !.out = @ \o r.out,
                        !.phase = IF r.ok THEN @ ELSE "failed"]
Finishes ==
  /\ cp.phase = "decrypt" /\ cp.rest = <<>>
  /\ \E r \in {Final(cp.dec)} :
       cp' = [cp EXCEPT !.dec = r.c, !.out = @ \o r.out, !.phase = IF r.ok THEN "done" ELSE "failed"]
CPNext == EncryptsAAD \/ Sends \/ DecryptsAAD \/ DecryptsTag \/ Finishes \/ Encrypts \/ Decrypts

\* What a decipher gives out, in whatever pieces it was fed, is the
\* text from its beginning, and all of it in the end.
Due(w) == IF w.impl \in {"cbc", "ecb"} /\ w.encPad /\ ~w.decPad THEN Padded(w.text) ELSE w.text
DecipheredTrue ==
  cp.w.fault = "none" /\ (cp.w.decPad => cp.w.encPad) =>
    /\ IsPrefix(cp.out, Due(cp.w))
    /\ cp.phase = "done" => cp.out = Due(cp.w)
\* A message that was cut inside a block, and any that authentication covers,
\* does not pass for whole.
DamageNoticed ==
  cp.phase = "done" =>
    /\ cp.w.impl \in Aead =>
         \/ cp.w.fault = "none"
         \/ cp.w.fault = "aad" /\ cp.enc.aad = <<>>
         \/ cp.w.fault = "short" /\ cp.w.impl = "chachapoly"
    /\ cp.w.impl \in {"cbc", "ecb"} => cp.w.fault # "cut"
    /\ cp.w.impl \in {"wrap", "wrappad"} => cp.w.fault = "none"

-----------------------------------------------------------------------------
(* Hash and Hmac *)

\* A hash holds what was written; one with extendable output also how much
\* was read of it.  The digests: what each was of, and from where.
HSInit == hs = [of |-> <<>>, digests |-> {}, crashed |-> FALSE, calls |-> 0]
NewHash(kind) == [kind |-> kind, data |-> <<>>, read |-> 0, finalized |-> FALSE]
HashCall(h) == hs.calls < MaxHashCalls /\ ~hs.crashed /\ h \in DOMAIN hs.of
Digested(h) == \E d \in hs.digests : d.h = h
HashCalled == [hs EXCEPT !.calls = @ + 1]
CreateHash(kind) == hs.of = <<>> /\ hs' = [hs EXCEPT !.of = <<NewHash(kind)>>]
\* update() looks at finalized, a write to the stream does not, and the
\* sponge refuses what is written after a read: a panic.
HashUpdate(h, streamed) ==
  /\ HashCall(h) /\ (streamed \/ ~hs.of[h].finalized) /\ (Digested(h) => Reused)
  /\ hs' = IF hs.of[h].kind = "xof" /\ hs.of[h].read > 0 THEN [HashCalled EXCEPT !.crashed = TRUE]
           ELSE [HashCalled EXCEPT !.of[h].data = Append(@, hs.calls)]
\* digest(), or the stream's end, which leaves finalized as it is.
HashDigest(h, streamed) ==
  /\ HashCall(h) /\ (Digested(h) => Reused)
  /\ ~hs.of[h].finalized \/ streamed
  /\ hs' = [HashCalled EXCEPT !.digests = @ \cup {[h |-> h, of |-> hs.of[h].data, from |-> hs.of[h].read]},
                         !.of[h].finalized = @ \/ ~streamed,
                         !.of[h].read = IF hs.of[h].kind = "xof" THEN @ + 1 ELSE @]
HashCopy(h) ==
  /\ HashCall(h) /\ hs.of[h].kind # "hmac" /\ ~hs.of[h].finalized /\ (Digested(h) => Reused)
  /\ hs' = [HashCalled EXCEPT !.of = Append(@, hs.of[h])]
HSNext ==
  \/ \E kind \in {"fixed", "xof", "hmac"} : CreateHash(kind)
  \/ \E h \in DOMAIN hs.of : HashCopy(h) \/ \E streamed \in BOOLEAN : HashUpdate(h, streamed) \/ HashDigest(h, streamed)
\* A digest is that of all that was written to its hash, from the first
\* byte, whatever happened to copies of it.
DigestsTrue == ~hs.crashed /\ \A d \in hs.digests : d.from = 0 /\ d.of = hs.of[d.h].data

-----------------------------------------------------------------------------
(* randomInt and randomUUIDv7 *)

RUInit == ru = [range |-> 1, lastMs |-> 0, lastSeq |-> 0, was |-> 0, id |-> 0, ids |-> 0]
RandMax == Randoms - 1
RandLimit(range) == RandMax - (RandMax % range)
\* The clock may stand still or go back.
NextId(now, random) ==
  /\ ru.ids < 2 * Sequence
  /\ LET behind == now <= ru.lastMs
         seq == IF behind THEN (ru.lastSeq + 1) % Sequence ELSE random % (Sequence \div 2)
         ms == IF ~behind THEN now ELSE IF seq = 0 THEN ru.lastMs + 1 ELSE ru.lastMs
     IN  ru' = [ru EXCEPT !.lastMs = ms, !.lastSeq = seq, !.was = ru.id, !.id = (ms * Sequence) + seq, !.ids = @ + 1]
NextRange == ru.range < RandMax /\ ru' = [ru EXCEPT !.range = @ + 1]
RUNext == NextRange \/ \E now \in 1 .. Instants, random \in 0 .. Sequence - 1 : NextId(now, random)
\* Each id is above the ones before it.
IdsRise == ru.ids > 0 => ru.id > ru.was
\* Every number of the range is as likely as any other.
IntsEven == \A n, m \in 0 .. ru.range - 1 :
  LET ways(k) == Cardinality({x \in 0 .. RandLimit(ru.range) - 1 : x % ru.range = k}) IN ways(n) = ways(m) /\ ways(n) > 0

-----------------------------------------------------------------------------
(* OutputDecoder *)

\* Bytes of UTF-8 by what they are and what the decoder takes them for: a
\* continuation, a character, a lead of two to four bytes, and bytes that are
\* never used, one that looks like a lead of two and one of four.
NeedOf == [cont |-> 0, char |-> 1, two |-> 2, three |-> 3, four |-> 4, bad2 |-> 2, bad4 |-> 4]
TrueNeed(b) == IF b \in {"bad2", "bad4", "cont"} THEN 1 ELSE NeedOf[b]
\* The units that text is made of, the last of which may be cut short.
UnitEnd(enc, s, i) ==
  LET last(n) == IF i + n - 1 <= Len(s) THEN i + n - 1 ELSE Len(s)
  IN  CASE enc = "base64" -> last(3)
        [] enc = "utf16le" -> last(2)
        [] OTHER -> LET stops == {k \in i + 1 .. last(TrueNeed(s[i])) : s[k] # "cont"}
                    IN  IF stops = {} THEN last(TrueNeed(s[i])) ELSE (CHOOSE k \in stops : \A j \in stops : k <= j) - 1
Units(enc, s) ==
  LET f[i \in 1 .. Len(s) + 1] ==
        IF i > Len(s) THEN <<>> ELSE <<SubSeq(s, i, UnitEnd(enc, s, i))>> \o f[UnitEnd(enc, s, i) + 1]
  IN  f[1]
KeptBack(enc, s) ==
  CASE enc = "base64" -> Len(s) % 3
    [] enc = "utf16le" -> Len(s) % 2
    [] OTHER -> LET leads == {i \in 1 .. 3 : i <= Len(s) /\ s[Len(s) - i + 1] # "cont"}
                    i == CHOOSE k \in leads : \A j \in leads : k <= j
                IN  IF leads # {} /\ NeedOf[s[Len(s) - i + 1]] > i THEN i ELSE 0
ODInit == od \in [enc : {"utf8", "base64", "utf16le"}, fed : {<<>>}, carry : {<<>>}, out : {<<>>}, done : {FALSE}]
OutputWrites(s) ==
  /\ ~od.done /\ Len(od.fed) + Len(s) <= MaxDecoded
  /\ LET data == od.carry \o s
         keep == KeptBack(od.enc, data)
     IN  od' = [od EXCEPT !.fed = @ \o s, !.carry = SubSeq(data, Len(data) - keep + 1, Len(data)),
                          !.out = @ \o Units(od.enc, SubSeq(data, 1, Len(data) - keep))]
OutputEnds == ~od.done /\ od' = [od EXCEPT !.done = TRUE, !.out = @ \o Units(od.enc, od.carry), !.carry = <<>>]
ODNext ==
  \/ OutputEnds
  \/ \E s \in UNION {[1 .. n -> IF od.enc = "utf8" THEN DOMAIN NeedOf ELSE {"char"}] : n \in 1 .. 3} : OutputWrites(s)
\* The text is the same as if it had been decoded at once.
OutputWhole == od.out \o Units(od.enc, od.carry) = Units(od.enc, od.fed)
=============================================================================
