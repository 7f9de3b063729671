------------------------------ MODULE Containers ------------------------------
(* The binary container of stored scenes and images (encode.ts): chunks     *)
(* behind a version and their lengths, deflated, sealed or not.  A cell     *)
(* stands for a length field or for a piece of data: reading past the end   *)
(* of a field and reading past the end of the buffer throw alike.           *)
EXTENDS Naturals, Sequences, SequencesExt

CONSTANT ContainerVersion     \* the version this code writes, the newest it reads

LOCAL Word(n) == [tag |-> "word", value |-> n]
Cells(tag, n, value) == [i \in 1..n |-> [tag |-> tag, of |-> n, value |-> value]]

(* concatBuffers.  No chunk is near the four gigabytes a length can tell.   *)
Concat(chunks) ==
  <<Word(ContainerVersion)>>
    \o FlattenSeq([i \in DOMAIN chunks |-> <<Word(Len(chunks[i]))>> \o chunks[i]])

(* splitBuffers: a last chunk shorter than its length says is handed over   *)
(* as it is.                                                                *)
Splits(bytes) == Len(bytes) >= 2 /\ bytes[1].value <= ContainerVersion
Split(bytes) ==
  LET n == Len(bytes)
      chunksFrom[at \in 2..n] ==
        LET end == at + bytes[at].value
        IN  IF end >= n THEN <<SubSeq(bytes, at + 1, n)>>
            ELSE <<SubSeq(bytes, at + 1, end)>> \o chunksFrom[end + 1]
  IN  chunksFrom[2]

(* pako and AES-GCM: what is not whole, or not of this key, throws.  How    *)
(* far a text shrinks is the environment's choice, cells.                   *)
Whole(bytes, tag) == bytes # <<>> /\ bytes[1].tag = tag /\ Len(bytes) = bytes[1].of
Deflate(text, cells) == Cells("deflated", cells, text)
Seal(bytes, key) == Cells("sealed", Len(bytes), [key |-> key, of |-> bytes])

NoKey == "none"
(* compressData: [encoding, iv, [metadata, contents] deflated and sealed].  *)
Pack(metadata, contents, key, cells) ==
  LET inner == Concat(<<Cells("json", 1, metadata), contents>>)
      body  == Deflate(inner, cells)
      info  == Cells("json", 1, [encrypted |-> key # NoKey])
  IN  IF key = NoKey THEN Concat(<<info, <<>>, body>>)
      ELSE Concat(<<info, Cells("iv", 1, key), Seal(body, key)>>)

Failed(why) == [ok |-> FALSE, why |-> why]

(* decompressData.                                                          *)
Inflated(bytes, limit) ==
  IF ~Whole(bytes, "deflated") THEN Failed("invalid")
  ELSE LET inner == bytes[1].value
       IN  IF Len(inner) > limit THEN Failed("too-large")
           ELSE LET chunks == Split(inner)
                IN  [ok |-> TRUE, metadata |-> chunks[1][1].value, contents |-> chunks[2]]
Unpack(bytes, key, limit) ==
  IF ~Splits(bytes) THEN Failed("invalid")
  ELSE LET chunks == Split(bytes)
       IN  IF Len(chunks) < 3 THEN Failed("invalid")
           ELSE IF ~chunks[1][1].value.encrypted THEN Inflated(chunks[3], limit)
           ELSE IF Whole(chunks[3], "sealed") /\ chunks[3][1].value.key = key
                THEN Inflated(chunks[3][1].value.of, limit)
                ELSE Failed("invalid")
=============================================================================
