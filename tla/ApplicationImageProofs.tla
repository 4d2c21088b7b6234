----------------------- MODULE ApplicationImageProofs -----------------------
(***************************************************************************)
(* What the offsets of an application image come to, for every size of the *)
(* integers, of the buffers and of a file: the verification accepts what   *)
(* the format calls a genuine image and nothing else, and copies all of    *)
(* what it has verified.                                                   *)
(*                                                                         *)
(* The two loops are recursive functions.  Each is shown to be what a      *)
(* definition without recursion says: that one solves the equation of the  *)
(* loop, and the equation has one solution, because a cursor only grows.   *)
(*                                                                         *)
(* With what UpdateImageProofs says of the slots it follows that they hold *)
(* applications as their signers made them.                                *)
(***************************************************************************)
EXTENDS MCUpdateImage, UpdateImageProofs, WellFoundedInduction

(* A set of natural numbers has a least element. *)
LEMMA LeastElement ==
  ASSUME NEW T, T \subseteq Nat, T # {}
  PROVE  \E n \in T : \A m \in T : n <= m
<1> DEFINE R == {ss \in Nat \X Nat : ss[1] < ss[2]}
<1>1. IsWellFoundedOn(R, Nat)
  BY NatLessThanWellFounded DEF OpToRel
<1>2. \A n, m \in Nat : m < n => <<m, n>> \in R
  OBVIOUS
<1> HIDE DEF R
<1>3. \E n \in T : \A m \in T : ~ (<<m, n>> \in R)
  BY <1>1, WFMin
<1>4. PICK n \in T : \A m \in T : ~ (<<m, n>> \in R)
  BY <1>3
<1>5. \A m \in T : n <= m
  <2> SUFFICES ASSUME NEW m \in T PROVE n <= m
    OBVIOUS
  <2>1. ~ (m < n)
    BY <1>2, <1>4
  <2> QED
    BY <2>1
<1> QED
  BY <1>5

(* Min names it. *)
LEMMA MinIsElement ==
  ASSUME NEW T, T \subseteq Nat, T # {}
  PROVE  Min(T) \in T /\ \A m \in T : Min(T) <= m
BY LeastElement DEF Min

(* Two functions that agree on an offset whenever they agree on all above  *)
(* it are the same.                                                        *)
LEMMA AgreeUpwards ==
  ASSUME NEW F, NEW G,
         \A b \in uint64 : (\A c \in uint64 : c > b => F[c] = G[c]) => F[b] = G[b]
  PROVE  \A b \in uint64 : F[b] = G[b]
<1> DEFINE T == {k \in Nat : \E b \in uint64 : k = Modulus - b /\ F[b] # G[b]}
<1>1. Modulus \in Nat
  BY FormatAssumption DEF FormatAssumption
<1> SUFFICES ASSUME NEW d \in uint64, F[d] # G[d] PROVE FALSE
  OBVIOUS
<1>2. Modulus - d \in T
  BY <1>1 DEF uint64
<1>3. PICK k \in T : \A m \in T : k <= m
  <2> HIDE DEF T
  <2>1. T \subseteq Nat /\ T # {}
    BY <1>2 DEF T
  <2> QED
    BY <2>1, LeastElement
<1>4. PICK b \in uint64 : k = Modulus - b /\ F[b] # G[b]
  BY <1>3
<1>5. \A c \in uint64 : c > b => F[c] = G[c]
  <2> SUFFICES ASSUME NEW c \in uint64, c > b, F[c] # G[c] PROVE FALSE
    OBVIOUS
  <2>1. Modulus - c \in T /\ Modulus - c < k
    BY <1>1, <1>4 DEF uint64
  <2> QED
    BY <1>3, <2>1
<1> QED
  BY <1>4, <1>5

-----------------------------------------------------------------------------
(* The modulus is subtracted when a sum leaves the range. *)
LEMMA WrapsOnce ==
  ASSUME NEW a \in Nat, NEW m \in Nat, m <= a, a < 2 * m
  PROVE  a % m = a - m
OBVIOUS

(* An unsigned sum. *)
LEMMA PlusIs ==
  ASSUME NEW a \in Nat, NEW b \in Nat, a + b < 2 * Modulus
  PROVE  Plus(a, b) = IF a + b < Modulus THEN a + b ELSE a + b - Modulus
<1>1. Modulus \in Nat
  BY FormatAssumption DEF FormatAssumption
<1>2. CASE a + b < Modulus
  BY <1>1, <1>2 DEF Plus
<1>3. CASE a + b >= Modulus
  <2> DEFINE sum == a + b
  <2>1. sum \in Nat /\ Modulus <= sum /\ sum < 2 * Modulus
    BY <1>1, <1>3
  <2> HIDE DEF sum
  <2>2. sum % Modulus = sum - Modulus
    BY <1>1, <2>1, WrapsOnce
  <2> QED
    BY <1>1, <1>3, <2>2 DEF Plus, sum
<1> QED
  BY <1>1, <1>2, <1>3

(* The files that verify_application_bundle may be given. *)
ImageFile(f) == \E n \in 0 .. MaxLength : f \in ImageFiles(n)

(* Their offsets are small against the range; the size in the header may   *)
(* be any number.                                                          *)
LEMMA FileFields ==
  ASSUME NEW f, ImageFile(f)
  PROVE  /\ f.length \in Nat /\ 2 * f.length <= Modulus
         /\ f.size \in uint64 /\ f.size \in Nat /\ f.size < Modulus
         /\ f.signed \in Nat /\ f.sound \in BOOLEAN
         /\ f.certs \subseteq Nat
<1>1. PICK n \in 0 .. MaxLength : f \in ImageFiles(n)
  BY DEF ImageFile
<1>2. /\ f.length = n /\ f.size \in uint64 /\ f.signed \in 0 .. n /\ f.sound \in BOOLEAN
      /\ f.certs \in {{}} \cup {{c, d} : c \in 0 .. n - 1, d \in 0 .. n - 1}
  BY <1>1 DEF ImageFiles
<1>3. f.certs \subseteq 0 .. n - 1
  BY <1>2
<1> QED
  BY <1>2, <1>3, FormatAssumption DEF FormatAssumption, uint64

(* Where the content ends, if the file goes that far. *)
ContentEnd(f) == IF HEADER_SIZE + f.size <= f.length THEN HEADER_SIZE + f.size ELSE Thrown

(* read_img_content_only without recursion. *)
LEMMA ContentIsRead ==
  ASSUME NEW f, ImageFile(f), f.size > 0
  PROVE  read_img_content_only(f) = ContentEnd(f)
<1> DEFINE to_read(b) == Min({FILE_CHUNK_BUFFER, f.size - b})
           Body(g, b) == IF b >= f.size THEN HEADER_SIZE + b
                         ELSE IF ReadFrom(f, HEADER_SIZE + b, to_read(b)) = Thrown
                         THEN Thrown ELSE g[b + to_read(b)]
           Solves(g) == g = [b \in uint64 |-> Body(g, b)]
           Result == [b \in uint64 |-> IF b >= f.size THEN HEADER_SIZE + b ELSE ContentEnd(f)]
           Read == CHOOSE g : Solves(g)
<1>1. /\ HEADER_SIZE \in Nat /\ FILE_CHUNK_BUFFER \in Nat \ {0} /\ Modulus \in Nat \ {0}
      /\ f.length \in Nat /\ f.size \in Nat /\ f.size < Modulus
  BY FileFields, FormatAssumption DEF FormatAssumption
<1>2. ASSUME NEW b \in uint64, b < f.size
      PROVE  /\ to_read(b) \in Nat \ {0} /\ b + to_read(b) <= f.size
             /\ b + to_read(b) \in uint64
  <2>1. {FILE_CHUNK_BUFFER, f.size - b} \subseteq Nat \ {0}
    BY <1>1, <1>2 DEF uint64
  <2>2. to_read(b) \in {FILE_CHUNK_BUFFER, f.size - b} /\ to_read(b) <= f.size - b
    BY <2>1, MinIsElement
  <2> HIDE DEF to_read
  <2> QED
    BY <1>1, <1>2, <2>1, <2>2 DEF uint64
<1> HIDE DEF to_read
<1>3. \A b \in uint64 : Result[b] = Body(Result, b)
  <2> SUFFICES ASSUME NEW b \in uint64 PROVE Result[b] = Body(Result, b)
    OBVIOUS
  <2>1. CASE b >= f.size
    BY <2>1
  <2>2. CASE b < f.size
    <3> DEFINE m == to_read(b)
    <3>1. m \in Nat \ {0} /\ b + m <= f.size /\ b + m \in uint64 /\ b \in Nat
      BY <1>2, <2>2 DEF uint64
    <3>2. ~ (b >= f.size)
      BY <1>1, <2>2, <3>1
    <3>3. Result[b] = ContentEnd(f)
      BY <3>2
    <3>4. Result[b + m] = IF b + m >= f.size THEN HEADER_SIZE + (b + m) ELSE ContentEnd(f)
      BY <3>1
    <3> HIDE DEF m, Result
    <3>5. ContentEnd(f) = IF ReadFrom(f, HEADER_SIZE + b, m) = Thrown THEN Thrown ELSE Result[b + m]
      BY <1>1, <3>1, <3>4 DEF ContentEnd, ReadFrom, Thrown
    <3> QED
      BY <3>2, <3>3, <3>5 DEF m
  <2> QED
    BY <1>1, <2>1, <2>2 DEF uint64
<1>4. Solves(Result)
  <2>1. Result = [b \in uint64 |-> Result[b]]
    OBVIOUS
  <2> HIDE DEF Result, Body
  <2> QED
    BY <1>3, <2>1
<1>5. Solves(Read)
  <2> HIDE DEF Solves, Result
  <2> QED
    BY <1>4
<1>6. \A b \in uint64 : Read[b] = Result[b]
  <2> SUFFICES ASSUME NEW b \in uint64, \A c \in uint64 : c > b => Read[c] = Result[c]
               PROVE  Read[b] = Result[b]
    <3> HIDE DEF Read, Result
    <3> QED
      BY AgreeUpwards
  <2>1. Read[b] = Body(Read, b)
    <3> HIDE DEF Read, Body
    <3> QED
      BY <1>5
  <2>2. Body(Read, b) = Body(Result, b)
    <3> HIDE DEF Read, Result
    <3>1. CASE b < f.size
      <4>1. b + to_read(b) \in uint64 /\ b + to_read(b) > b
        BY <1>2, <3>1 DEF uint64
      <4> QED
        BY <4>1
    <3>2. CASE b >= f.size
      BY <3>2
    <3> QED
      BY <1>1, <3>1, <3>2 DEF uint64
  <2> HIDE DEF Read, Result, Body
  <2> QED
    BY <1>3, <2>1, <2>2
<1>7. 0 \in uint64
  BY <1>1 DEF uint64
<1>8. Result[0] = ContentEnd(f)
  BY <1>1, <1>7
<1>9. read_img_content_only(f) = Read[0]
  BY DEF read_img_content_only, to_read
<1> HIDE DEF Read, Result
<1> QED
  BY <1>6, <1>7, <1>8, <1>9

(* copyImage without recursion, for a file that holds all of its content.  *)
LEMMA ContentIsCopied ==
  ASSUME NEW f, ImageFile(f), HEADER_SIZE + f.size <= f.length
  PROVE  copyImage(f) = HEADER_SIZE + f.size
<1> DEFINE Body(g, c) == IF Plus(c, FILE_CHUNK_BUFFER) > f.size
                         THEN ReadFrom(f, HEADER_SIZE + c, f.size - c)
                         ELSE IF ReadFrom(f, HEADER_SIZE + c, FILE_CHUNK_BUFFER) = Thrown
                         THEN Thrown ELSE g[c + FILE_CHUNK_BUFFER]
           Solves(g) == g = [c \in uint64 |-> Body(g, c)]
           Wraps(c) == c + FILE_CHUNK_BUFFER >= Modulus
                         /\ c + FILE_CHUNK_BUFFER - Modulus <= f.size
           Result == [c \in uint64 |-> IF Wraps(c) THEN Thrown ELSE HEADER_SIZE + f.size]
           Copy == CHOOSE g : Solves(g)
<1>1. /\ HEADER_SIZE \in Nat \ {0} /\ FILE_CHUNK_BUFFER \in Nat \ {0} /\ Modulus \in Nat \ {0}
      /\ f.length \in Nat /\ f.size \in Nat /\ f.size < Modulus
      /\ 2 * f.length <= Modulus /\ 2 * FILE_CHUNK_BUFFER <= Modulus
  BY FileFields, FormatAssumption DEF FormatAssumption
<1>2. ASSUME NEW c \in uint64
      PROVE  /\ c \in Nat /\ c < Modulus
             /\ Plus(c, FILE_CHUNK_BUFFER) = IF c + FILE_CHUNK_BUFFER < Modulus
                                             THEN c + FILE_CHUNK_BUFFER
                                             ELSE c + FILE_CHUNK_BUFFER - Modulus
  <2>1. c \in Nat /\ c < Modulus /\ c + FILE_CHUNK_BUFFER < 2 * Modulus
    BY <1>1 DEF uint64
  <2> QED
    BY <1>1, <2>1, PlusIs
<1>3. ASSUME NEW c \in uint64, ~ (Plus(c, FILE_CHUNK_BUFFER) > f.size), ~ Wraps(c)
      PROVE  /\ c + FILE_CHUNK_BUFFER \in uint64 /\ c + FILE_CHUNK_BUFFER <= f.size
             /\ ~ Wraps(c + FILE_CHUNK_BUFFER)
  <2> DEFINE next == c + FILE_CHUNK_BUFFER
  <2>0. /\ c \in Nat /\ c < Modulus
        /\ Plus(c, FILE_CHUNK_BUFFER) = IF next < Modulus THEN next ELSE next - Modulus
    BY <1>1, <1>2
  <2>1. c + FILE_CHUNK_BUFFER < Modulus /\ c + FILE_CHUNK_BUFFER <= f.size
    <3>1. CASE next < Modulus
      <4>1. Plus(c, FILE_CHUNK_BUFFER) = next
        BY <2>0, <3>1
      <4> QED
        BY <1>1, <1>3, <2>0, <3>1, <4>1
    <3>2. CASE ~ (next < Modulus)
      <4>1. Plus(c, FILE_CHUNK_BUFFER) = next - Modulus
        BY <2>0, <3>2
      <4>2. next - Modulus <= f.size
        BY <1>1, <1>3, <2>0, <4>1
      <4> QED
        BY <1>1, <1>3, <2>0, <3>2, <4>2
    <3> QED
      BY <3>1, <3>2
  <2>2. c \in Nat /\ c + FILE_CHUNK_BUFFER + FILE_CHUNK_BUFFER < Modulus
    BY <1>1, <1>2, <2>1
  <2>3. c + FILE_CHUNK_BUFFER \in uint64
    BY <1>1, <2>1, <2>2 DEF uint64
  <2>4. ~ Wraps(c + FILE_CHUNK_BUFFER)
    BY <1>1, <2>2
  <2> QED
    BY <2>1, <2>3, <2>4
<1>4. \A c \in uint64 : Result[c] = Body(Result, c)
  <2> SUFFICES ASSUME NEW c \in uint64 PROVE Result[c] = Body(Result, c)
    OBVIOUS
  <2> DEFINE next == c + FILE_CHUNK_BUFFER
  <2>1. c \in Nat /\ c < Modulus
    BY <1>2
  <2>2. CASE Wraps(c)
    <3>1. ~ (Plus(c, FILE_CHUNK_BUFFER) > f.size)
      BY <1>1, <1>2, <2>1, <2>2
    <3>2. ReadFrom(f, HEADER_SIZE + c, FILE_CHUNK_BUFFER) = Thrown
      BY <1>1, <2>1, <2>2 DEF ReadFrom
    <3> QED
      BY <2>2, <3>1, <3>2
  <2>3. CASE ~ Wraps(c) /\ Plus(c, FILE_CHUNK_BUFFER) > f.size
    <3>1. ReadFrom(f, HEADER_SIZE + c, f.size - c) = HEADER_SIZE + f.size
      BY <1>1, <2>1 DEF ReadFrom
    <3> QED
      BY <2>3, <3>1
  <2>4. CASE ~ Wraps(c) /\ ~ (Plus(c, FILE_CHUNK_BUFFER) > f.size)
    <3>1. next \in uint64 /\ next <= f.size /\ ~ Wraps(next)
      BY <1>3, <2>4
    <3>2. ReadFrom(f, HEADER_SIZE + c, FILE_CHUNK_BUFFER) # Thrown
      BY <1>1, <2>1, <3>1 DEF ReadFrom, Thrown
    <3>3. Result[next] = HEADER_SIZE + f.size /\ Result[c] = HEADER_SIZE + f.size
      BY <2>4, <3>1
    <3> HIDE DEF Result
    <3> QED
      BY <2>4, <3>2, <3>3
  <2> QED
    BY <2>2, <2>3, <2>4
<1>5. Solves(Result)
  <2>1. Result = [c \in uint64 |-> Result[c]]
    OBVIOUS
  <2> HIDE DEF Result, Body
  <2> QED
    BY <1>4, <2>1
<1>6. Solves(Copy)
  <2> HIDE DEF Solves, Result
  <2> QED
    BY <1>5
<1>7. \A c \in uint64 : Copy[c] = Result[c]
  <2> SUFFICES ASSUME NEW c \in uint64, \A d \in uint64 : d > c => Copy[d] = Result[d]
               PROVE  Copy[c] = Result[c]
    <3> HIDE DEF Copy, Result
    <3> QED
      BY AgreeUpwards
  <2>1. Copy[c] = Body(Copy, c)
    <3> HIDE DEF Copy, Body
    <3> QED
      BY <1>6
  <2>2. Body(Copy, c) = Body(Result, c)
    <3>1. CASE ~ Wraps(c) /\ ~ (Plus(c, FILE_CHUNK_BUFFER) > f.size)
      <4>1. c + FILE_CHUNK_BUFFER \in uint64 /\ c + FILE_CHUNK_BUFFER > c
        BY <1>1, <1>2, <1>3, <3>1
      <4> HIDE DEF Copy, Result
      <4>2. Copy[c + FILE_CHUNK_BUFFER] = Result[c + FILE_CHUNK_BUFFER]
        BY <4>1
      <4> QED
        BY <4>2
    <3>2. CASE Wraps(c)
      <4>1. ReadFrom(f, HEADER_SIZE + c, FILE_CHUNK_BUFFER) = Thrown
        BY <1>1, <1>2, <3>2 DEF ReadFrom
      <4> HIDE DEF Copy, Result
      <4> QED
        BY <4>1
    <3>3. CASE Plus(c, FILE_CHUNK_BUFFER) > f.size
      <4> HIDE DEF Copy, Result
      <4> QED
        BY <3>3
    <3> QED
      BY <3>1, <3>2, <3>3
  <2> HIDE DEF Copy, Result, Body
  <2> QED
    BY <1>4, <2>1, <2>2
<1>8. 0 \in uint64 /\ ~ Wraps(0)
  BY <1>1 DEF uint64
<1>9. Result[0] = HEADER_SIZE + f.size
  BY <1>8
<1>10. copyImage(f) = Copy[0]
  BY DEF copyImage
<1> HIDE DEF Copy, Result, Wraps
<1> QED
  BY <1>7, <1>8, <1>9, <1>10

-----------------------------------------------------------------------------
(* Where a file may have its next certificate, or its end. *)
LEMMA FirstIsOffset ==
  ASSUME NEW f, ImageFile(f), NEW from \in Nat
  PROVE  First(f, from) # Thrown
<1> DEFINE after == {c \in f.certs : c >= from}
<1>1. after \subseteq Nat /\ f.length \in Nat
  BY FileFields
<1>2. CASE after = {}
  BY <1>1, <1>2 DEF First, Thrown
<1>3. CASE after # {}
  <2>1. Min(after) \in Nat
    BY <1>1, <1>3, MinIsElement
  <2> QED
    BY <1>3, <2>1 DEF First, Thrown
<1> QED
  BY <1>2, <1>3

(* In a file that goes as far as its timestamp no offset wraps. *)
LEMMA OffsetsInFile ==
  ASSUME NEW f, ImageFile(f),
         HEADER_SIZE + f.size + SIZE_CERT_APP_DATE_SIGN <= f.length
  PROVE  /\ TimestampOffset(f) = HEADER_SIZE + f.size
         /\ Plus(HEADER_SIZE, f.size) = HEADER_SIZE + f.size
         /\ getTimestamp(f) = HEADER_SIZE + f.size + SIZE_CERT_APP_DATE_SIGN
         /\ SignatureOffset(f) = HEADER_SIZE + f.size + SIZE_CERT_APP_DATE_SIGN
         /\ ContentEnd(f) = HEADER_SIZE + f.size
<1>1. /\ {HEADER_SIZE, SIZE_CERT_APP_DATE_SIGN, f.size, f.length} \subseteq Nat
      /\ 2 * f.length <= Modulus /\ Modulus \in Nat \ {0}
  BY FileFields, FormatAssumption DEF FormatAssumption
<1>2. /\ Plus(f.size, HEADER_SIZE) = HEADER_SIZE + f.size
      /\ Plus(HEADER_SIZE, f.size) = HEADER_SIZE + f.size
      /\ Plus(HEADER_SIZE + f.size, SIZE_CERT_APP_DATE_SIGN)
           = HEADER_SIZE + f.size + SIZE_CERT_APP_DATE_SIGN
  BY <1>1, PlusIs
<1> QED
  BY <1>1, <1>2 DEF TimestampOffset, SignatureOffset, getTimestamp, ReadFrom, ContentEnd

(* A genuine image passes every check. *)
LEMMA GenuineIsAccepted ==
  ASSUME NEW f, ImageFile(f), Genuine(f)
  PROVE  Accepted(f)
<1> DEFINE end == HEADER_SIZE + f.size + SIZE_CERT_APP_DATE_SIGN
<1>1. /\ f.length \in Nat /\ f.size \in Nat /\ f.certs \subseteq Nat
      /\ {HEADER_SIZE, SIZE_CERT_APP_DATE_SIGN} \subseteq Nat \ {0}
      /\ 2 * f.length <= Modulus /\ Modulus \in Nat
  BY FileFields, FormatAssumption DEF FormatAssumption
<1>2. /\ f.sound /\ f.size > 0 /\ f.size = f.signed
      /\ end < f.length /\ end \notin f.certs
      /\ \E c \in f.certs : c >= HEADER_SIZE + f.size
  BY DEF Genuine
<1>3. /\ Plus(HEADER_SIZE, f.size) = HEADER_SIZE + f.size
      /\ getTimestamp(f) = end /\ SignatureOffset(f) = end
      /\ ContentEnd(f) = HEADER_SIZE + f.size
  BY <1>1, <1>2, OffsetsInFile
<1>4. extract_certificates_from_image(f) # {}
  BY <1>1, <1>2, <1>3 DEF extract_certificates_from_image
<1>5. getSignature(f) = First(f, end) /\ getSignature(f) # Thrown
  <2>1. ~ (f.length <= SignatureOffset(f) \/ SignatureOffset(f) \in f.certs)
    BY <1>1, <1>2, <1>3
  <2>2. getSignature(f) = First(f, end)
    BY <1>3, <2>1 DEF getSignature
  <2> QED
    BY <1>1, <2>2, FirstIsOffset
<1>6. read_img_content_only(f) = HEADER_SIZE + f.size
  BY <1>2, <1>3, ContentIsRead
<1>7. check_signature(f, HEADER_SIZE + f.size, end, First(f, end))
  BY <1>2 DEF check_signature
<1> QED
  BY <1>1, <1>2, <1>3, <1>4, <1>5, <1>6, <1>7 DEF Accepted, Thrown

(* An accepted file is a genuine image: a size that wraps an offset cannot *)
(* pass, because the content is read up to it.                             *)
LEMMA AcceptedIsGenuine ==
  ASSUME NEW f, ImageFile(f), Accepted(f)
  PROVE  Genuine(f)
<1> DEFINE end == HEADER_SIZE + f.size + SIZE_CERT_APP_DATE_SIGN
<1>1. /\ f.length \in Nat /\ f.size \in Nat /\ f.certs \subseteq Nat /\ f.signed \in Nat
      /\ {HEADER_SIZE, SIZE_CERT_APP_DATE_SIGN} \subseteq Nat \ {0}
      /\ 2 * f.length <= Modulus /\ Modulus \in Nat
  BY FileFields, FormatAssumption DEF FormatAssumption
<1>2. /\ f.sound /\ f.size > 0 /\ extract_certificates_from_image(f) # {}
      /\ getTimestamp(f) # Thrown /\ getSignature(f) # Thrown
      /\ read_img_content_only(f) # Thrown
      /\ read_img_content_only(f) = HEADER_SIZE + f.signed
  BY DEF Accepted, check_signature
<1>3. /\ HEADER_SIZE + f.size <= f.length
      /\ f.size = f.signed
  BY <1>1, <1>2, ContentIsRead DEF ContentEnd
<1>4. TimestampOffset(f) = HEADER_SIZE + f.size
  BY <1>1, <1>3, PlusIs DEF TimestampOffset
<1>5. end <= f.length
  BY <1>1, <1>2, <1>4 DEF getTimestamp, ReadFrom
<1>6. Plus(HEADER_SIZE, f.size) = HEADER_SIZE + f.size /\ SignatureOffset(f) = end
  BY <1>5, OffsetsInFile
<1>7. ~ (f.length <= end) /\ end \notin f.certs
  BY <1>2, <1>6 DEF getSignature
<1>8. \E c \in f.certs : c >= HEADER_SIZE + f.size
  BY <1>2, <1>6 DEF extract_certificates_from_image
<1> QED
  BY <1>1, <1>2, <1>3, <1>5, <1>7, <1>8 DEF Genuine

(* Whatever a file declares in its header and wherever it ends, it is      *)
(* accepted exactly if it is an image as its signer made it, and copyImage *)
(* writes the content the signature covers, to the last byte.              *)
THEOREM ImagesAreCopied == AcceptedIsCopied
<1> SUFFICES ASSUME NEW f, ImageFile(f)
             PROVE  /\ Accepted(f) <=> Genuine(f)
                    /\ Accepted(f) => copyImage(f) = Content(f)
  BY DEF AcceptedIsCopied, ImageFile
<1>1. Accepted(f) <=> Genuine(f)
  BY AcceptedIsGenuine, GenuineIsAccepted DEF Accepted, Genuine
<1>2. ASSUME Genuine(f) PROVE copyImage(f) = Content(f)
  <2>1. /\ HEADER_SIZE + f.size <= f.length /\ f.size = f.signed
    BY <1>2, FileFields, FormatAssumption DEF Genuine, FormatAssumption
  <2> QED
    BY <2>1, ContentIsCopied DEF Content
<1> QED
  BY <1>1, <1>2

-----------------------------------------------------------------------------
(* The applications of MCUpdateImage fit into the bound on a file.         *)
LayoutFits == 9 <= MaxLength /\ HEADER_SIZE <= Modulus

(* A pair of offsets may be one of them twice. *)
LEMMA SingleCertificate ==
  ASSUME NEW S, NEW d \in S
  PROVE  {d} \in {{c, e} : c \in S, e \in S}
<1>1. {d} = {d, d}
  OBVIOUS
<1> QED
  BY <1>1

(* A broken image differs in nothing else. *)
LEMMA BrokenImage ==
  ASSUME NEW l, NEW z, NEW s, NEW k
  PROVE  [[length |-> l, size |-> z, signed |-> s, sound |-> TRUE, certs |-> k]
            EXCEPT !.sound = FALSE]
           = [length |-> l, size |-> z, signed |-> s, sound |-> FALSE, certs |-> k]
<1>1. PICK yes : yes = TRUE
  OBVIOUS
<1>2. PICK no : no = FALSE
  OBVIOUS
<1>3. [[length |-> l, size |-> z, signed |-> s, sound |-> yes, certs |-> k]
         EXCEPT !.sound = no]
        = [length |-> l, size |-> z, signed |-> s, sound |-> no, certs |-> k]
  OBVIOUS
<1> QED
  BY <1>1, <1>2, <1>3, Zenon

(* They are files, the broken ones included. *)
LEMMA LayoutsAreFiles ==
  ASSUME LayoutFits, NEW c \in AllContents
  PROVE  ImageFile(Layout[c])
<1> DEFINE Image(signed, size) ==
             [ length |-> signed + 5, size |-> size, signed |-> signed, sound |-> TRUE,
               certs |-> {signed + 4} ]
           Whole == Image(4, 4)
           Broken == [Whole EXCEPT !.sound = FALSE]
<1>1. Layout[c] \in {Image(4, 4), Image(3, 3), Image(4, Modulus - HEADER_SIZE),
                     Image(4, 3), Broken}
  BY DEF Layout
<1>2. /\ MaxLength \in Nat /\ 18 <= Modulus /\ Modulus \in Nat /\ HEADER_SIZE \in Nat \ {0}
  BY FormatAssumption DEF FormatAssumption, LayoutFits
<1>3. {3, 4, Modulus - HEADER_SIZE} \subseteq uint64 /\ {8, 9} \subseteq 0 .. MaxLength
  BY <1>2 DEF uint64, LayoutFits
<1>4. ASSUME NEW n \in {8, 9}, NEW z \in {3, 4, Modulus - HEADER_SIZE}, NEW b \in BOOLEAN
      PROVE  ImageFile([ length |-> n, size |-> z, signed |-> n - 5, sound |-> b,
                         certs |-> {n - 1} ])
  <2>1. {n - 1} \in {{d, e} : d \in 0 .. n - 1, e \in 0 .. n - 1}
    <3>1. n - 1 \in 0 .. n - 1
      OBVIOUS
    <3> QED
      BY <3>1, SingleCertificate
  <2>2. n - 5 \in 0 .. n
    OBVIOUS
  <2>3. [ length |-> n, size |-> z, signed |-> n - 5, sound |-> b, certs |-> {n - 1} ]
          \in ImageFiles(n)
    BY <1>3, <2>1, <2>2 DEF ImageFiles
  <2> QED
    BY <1>3, <2>3 DEF ImageFile
<1>5. ASSUME NEW z \in {3, 4, Modulus - HEADER_SIZE}
      PROVE  ImageFile(Image(4, z)) /\ ImageFile(Image(3, z))
  <2>1. /\ Image(4, z) = [ length |-> 9, size |-> z, signed |-> 9 - 5, sound |-> TRUE,
                           certs |-> {9 - 1} ]
        /\ Image(3, z) = [ length |-> 8, size |-> z, signed |-> 8 - 5, sound |-> TRUE,
                           certs |-> {8 - 1} ]
    OBVIOUS
  <2> HIDE DEF Image
  <2> QED
    BY <1>4, <2>1
<1>6. ImageFile(Broken)
  <2>1. Broken = [ length |-> 9, size |-> 4, signed |-> 9 - 5, sound |-> FALSE,
                   certs |-> {9 - 1} ]
    <3> DEFINE l == 4 + 5  k == {4 + 4}
    <3>1. l = 9 /\ k = {9 - 1} /\ 9 - 5 = 4
      OBVIOUS
    <3>2. Broken = [ length |-> l, size |-> 4, signed |-> 4, sound |-> FALSE, certs |-> k ]
      BY BrokenImage
    <3> HIDE DEF l, k, Broken
    <3> QED
      BY <3>1, <3>2
  <2> HIDE DEF Broken
  <2> QED
    BY <1>4, <2>1
<1> HIDE DEF Image, Broken
<1> QED
  BY <1>1, <1>5, <1>6

(* Each slot holds an application as its signer made it, and all of it,    *)
(* however the installations of clients that take turns fail or end.       *)
THEOREM SlotsAsSigned ==
  ASSUME LayoutFits PROVE Spec /\ TakeTurns => []InstalledAsSigned
<1>1. Bundles \subseteq SignedContents
  <2> SUFFICES ASSUME NEW c \in Bundles PROVE c \in SignedContents
    OBVIOUS
  <2>1. c \in AllContents /\ Accepted(Layout[c])
    BY BundlesAreAccepted DEF BundlesAreAccepted
  <2>2. Genuine(Layout[c]) /\ copyImage(Layout[c]) = Content(Layout[c])
    BY <2>1, LayoutsAreFiles, ImagesAreCopied DEF AcceptedIsCopied, ImageFile
  <2> QED
    BY <2>1, <2>2 DEF SignedContents
<1>2. SlotsIntact => InstalledAsSigned
  BY <1>1, ImagesAreCopied DEF SlotsIntact, InstalledAsSigned
<1> QED
  BY <1>2, SlotsAlwaysIntact, PTL
=============================================================================
