-------------------------- MODULE ApplicationImage --------------------------
(***************************************************************************)
(* The offsets of a signed application image (applicationImage.cpp and the *)
(* verification in updateApplication.cpp), at the width of the code:       *)
(*                                                                         *)
(*   header | content, "size" bytes | timestamp | signature | certificates *)
(*                                                                         *)
(* Only "size" is in the file; every other offset is computed from it, in  *)
(* unsigned arithmetic that wraps.  A reader yields the end of what it has *)
(* read, or Thrown.                                                        *)
(***************************************************************************)
EXTENDS Integers, FiniteSetsExt

CONSTANTS
  Modulus,                   \* 2^64, the range of a uint64_t
  HEADER_SIZE,               \* 16
  SIZE_CERT_APP_DATE_SIGN,   \* 26
  FILE_CHUNK_BUFFER,         \* BUFSIZ
  MaxLength                  \* bound: bytes in a file

ASSUME FormatAssumption ==
  /\ {Modulus, HEADER_SIZE, SIZE_CERT_APP_DATE_SIGN, FILE_CHUNK_BUFFER} \subseteq Nat \ {0}
  /\ MaxLength \in Nat
  /\ 2 * MaxLength <= Modulus /\ 2 * FILE_CHUNK_BUFFER <= Modulus

uint64 == 0 .. Modulus - 1
Plus(a, b) == (a + b) % Modulus

Thrown == -1

(* A file of n bytes: "size" is what its header declares and "signed" how  *)
(* much content the signer has covered; "certs" are the offsets of         *)
(* certificate markers, of which the content may hold some; "sound" is all *)
(* that is not an offset: version, checksum, chain, time of signing.       *)
ImageFiles(n) ==
  [ length : {n}, size : uint64, signed : 0 .. n, sound : BOOLEAN,
    certs : {{}} \cup {{c, d} : c \in 0 .. n - 1, d \in 0 .. n - 1} ]

First(f, from) ==
  LET after == {c \in f.certs : c >= from}
  IN IF after = {} THEN f.length ELSE Min(after)

(* read(): all or nothing counts, a stream that has met its end throws.    *)
ReadFrom(f, from, n) == IF from + n <= f.length THEN from + n ELSE Thrown

-----------------------------------------------------------------------------
TimestampOffset(f) == Plus(f.size, HEADER_SIZE)
getTimestamp(f) == ReadFrom(f, TimestampOffset(f), SIZE_CERT_APP_DATE_SIGN)

SignatureOffset(f) == Plus(Plus(HEADER_SIZE, f.size), SIZE_CERT_APP_DATE_SIGN)

(* Up to the first certificate after it. *)
getSignature(f) ==
  IF f.length <= SignatureOffset(f) \/ SignatureOffset(f) \in f.certs THEN Thrown
  ELSE First(f, SignatureOffset(f))

(* Mutant: the content is copied in whole buffers. *)
CopyWholeBuffers(f) ==
  LET Copy[cursor \in uint64] ==
        IF Plus(cursor, FILE_CHUNK_BUFFER) > f.size THEN HEADER_SIZE + cursor
        ELSE IF ReadFrom(f, HEADER_SIZE + cursor, FILE_CHUNK_BUFFER) = Thrown
        THEN Thrown ELSE Copy[cursor + FILE_CHUNK_BUFFER]
  IN Copy[0]

(* Whole buffers first, then the rest. *)
copyImage(f) ==
  LET Copy[cursor \in uint64] ==
        IF Plus(cursor, FILE_CHUNK_BUFFER) > f.size
        THEN ReadFrom(f, HEADER_SIZE + cursor, f.size - cursor)
        ELSE IF ReadFrom(f, HEADER_SIZE + cursor, FILE_CHUNK_BUFFER) = Thrown
        THEN Thrown ELSE Copy[cursor + FILE_CHUNK_BUFFER]
  IN Copy[0]

(* At most a buffer at a time, as far as the file goes. *)
read_img_content_only(f) ==
  LET Read[bytes_read \in uint64] ==
        LET to_read == Min({FILE_CHUNK_BUFFER, f.size - bytes_read})
        IN IF bytes_read >= f.size THEN HEADER_SIZE + bytes_read
           ELSE IF ReadFrom(f, HEADER_SIZE + bytes_read, to_read) = Thrown
           THEN Thrown ELSE Read[bytes_read + to_read]
  IN Read[0]

(* Behind the content; a position past the range of an offset cannot be    *)
(* sought.                                                                 *)
extract_certificates_from_image(f) ==
  LET from == Plus(HEADER_SIZE, f.size)
  IN IF 2 * from >= Modulus THEN {} ELSE {c \in f.certs : c >= from}

(* The signature covers content and timestamp of the signer's image.       *)
check_signature(f, content, timestamp, signature) ==
  /\ content = HEADER_SIZE + f.signed
  /\ timestamp = content + SIZE_CERT_APP_DATE_SIGN
  /\ signature = First(f, timestamp)

(* The constructor, then verify_application_bundle. *)
Accepted(f) ==
  /\ f.length > HEADER_SIZE /\ f.sound
  /\ f.size > 0
  /\ extract_certificates_from_image(f) # {}
  /\ getTimestamp(f) # Thrown /\ getSignature(f) # Thrown
  /\ read_img_content_only(f) # Thrown
  /\ check_signature(f, read_img_content_only(f), getTimestamp(f), getSignature(f))

-----------------------------------------------------------------------------
(* The format, without modular arithmetic and without buffers. *)
Genuine(f) ==
  LET end == HEADER_SIZE + f.size + SIZE_CERT_APP_DATE_SIGN
  IN /\ f.sound
     /\ f.size > 0 /\ f.size = f.signed
     /\ end < f.length /\ end \notin f.certs
     /\ \E c \in f.certs : c >= HEADER_SIZE + f.size

Content(f) == HEADER_SIZE + f.signed

(* A file is accepted exactly if it is an image as its signer made it,     *)
(* however large the size in its header, and what copyImage then writes is *)
(* the content the signature covers, to the last byte.                     *)
AcceptedIsCopied ==
  \A n \in 0 .. MaxLength : \A f \in ImageFiles(n) :
    /\ Accepted(f) <=> Genuine(f)
    /\ Accepted(f) => copyImage(f) = Content(f)
=============================================================================
