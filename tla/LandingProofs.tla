---------------------------- MODULE LandingProofs ----------------------------
(***************************************************************************)
(* Proofs about the three ways a file reaches the landing Volume, for any  *)
(* files, sizes, days, rates, merchants and limits: what the WebDAV tools  *)
(* leave on the disk and in the Volume (Extraction), what the central      *)
(* bank's quotes become (ApiLanding), what a snapshot of the merchant      *)
(* registry is a snapshot of (MerchantSnapshot), and the three together as *)
(* they are composed in MCLanding.                                         *)
(***************************************************************************)
EXTENDS MCLanding, FiniteSetTheorems, SequenceTheorems, WellFoundedInduction, TLAPS

(* Least and greatest elements.                                            *)

\* A set of naturals has a least element.
LEMMA HasLeast ==
  ASSUME NEW S \in SUBSET Nat, S # {}
  PROVE  \E x \in S : \A y \in S : x <= y
<1> DEFINE Less == {ss \in Nat \X Nat : ss[1] < ss[2]}
<1>1. IsWellFoundedOn(Less, Nat)
  BY NatLessThanWellFounded, Zenon DEF OpToRel
<1>2. PICK x \in S : \A y \in S : ~ (<<y, x>> \in Less)
  BY <1>1, WFMin
<1>3. ASSUME NEW y \in S PROVE x <= y
  <2>1. x \in Nat /\ y \in Nat
    OBVIOUS
  <2>2. y < x => <<y, x>> \in Less
    BY <2>1
  <2> QED
    BY <1>2, <2>1, <2>2
<1> QED
  BY <1>3

\* Min is that element.
LEMMA MinIsLeast ==
  ASSUME NEW S \in SUBSET Nat, S # {}
  PROVE  Min(S) \in S /\ \A y \in S : Min(S) <= y
BY HasLeast DEF Min

\* A bounded set of naturals has a greatest element.
LEMMA HasGreatest ==
  ASSUME NEW S \in SUBSET Nat, S # {}, NEW bound \in Nat, \A y \in S : y <= bound
  PROVE  \E x \in S : \A y \in S : y <= x
<1> DEFINE below == {bound - x : x \in S}
<1>0. \A x \in S : x \in Nat /\ x <= bound
  OBVIOUS
<1>1. below \in SUBSET Nat /\ below # {}
  <2>1. \A x \in S : bound - x \in Nat
    BY <1>0
  <2> QED
    BY <2>1
<1>2. PICK n \in below : \A k \in below : n <= k
  BY <1>1, HasLeast
<1>3. PICK x \in S : n = bound - x
  OBVIOUS
<1>4. ASSUME NEW y \in S PROVE y <= x
  <2>1. bound - x <= bound - y
    BY <1>2, <1>3
  <2>2. x \in Nat /\ y \in Nat
    OBVIOUS
  <2> QED
    BY <2>1, <2>2
<1> QED
  BY <1>4

-----------------------------------------------------------------------------
(* The WebDAV share.                                                       *)

InPlace(content) == \A k \in DOMAIN content : content[k] # Misplaced

\* What the script holds in its variables.
Typed ==
  /\ share \in [File -> Version \cup {Missing}] /\ listing \in [File -> Version \cup {Missing}]
  /\ disk \in [File -> Content] /\ volume \in [File -> Content]
  /\ file \in File /\ todo \in SUBSET File /\ put \in SUBSET File
  /\ littered \in SUBSET File
  /\ sized \in BOOLEAN /\ failed \in BOOLEAN /\ tool \in {"giants", "cnpj"}
  /\ at \in {"idle", "next", "get", "downloaded", "verify", "discard"}

AtWork == {"get", "downloaded", "verify", "discard"}

\* A share never takes a file back, and a run works on a file it was shown.
Shown ==
  /\ \A f \in File : listing[f] # Missing => share[f] # Missing
  /\ at \in AtWork => listing[file] # Missing /\ file \in todo

\* What is being verified is the file, or less than the file; what may still be
\* discarded is something this run sent.
Sent ==
  /\ at = "verify" =>
       /\ volume[file] \in ShortObject \cup {disk[file]}
       /\ Unzips
  /\ at \in {"verify", "discard"} => file \in put

ExtractionInv == Typed /\ Shown /\ BytesInPlace /\ Sent /\ NoHalfObjectAtRest

-----------------------------------------------------------------------------
(* Contents.                                                               *)

LEMMA VersionFacts ==
  /\ Misplaced \notin Version /\ Missing \notin Version
  /\ \A v \in Version : Size[v] \in Nat \ {0}
BY ExtractionAssumption DEF Version, Misplaced, Missing

LEMMA EmptyContent == Nothing \in Content /\ InPlace(Nothing)
BY DEF Nothing, Content, InPlace

LEMMA WholeContent ==
  ASSUME NEW v \in Version
  PROVE  Whole(v) \in Content /\ InPlace(Whole(v)) /\ Len(Whole(v)) = Size[v]
<1>1. Size[v] \in Nat
  BY VersionFacts
<1>2. /\ Whole(v) \in Seq(Version \cup {Misplaced}) /\ Len(Whole(v)) = Size[v]
      /\ \A k \in 1..Size[v] : Whole(v)[k] = v
  BY <1>1 DEF Whole
<1> QED
  BY <1>2, VersionFacts DEF Content, InPlace

LEMMA BytesContent ==
  ASSUME NEW v \in Version, NEW from \in Nat, NEW to \in Nat, from <= to + 1
  PROVE  /\ Bytes(v, from, to) \in Content /\ InPlace(Bytes(v, from, to))
         /\ Len(Bytes(v, from, to)) = to + 1 - from
<1> DEFINE n == to + 1 - from
           b == Bytes(v, from, to)
<1>1. n \in Nat
  OBVIOUS
<1>2. b = [k \in 1..n |-> v]
  BY DEF Bytes
<1> HIDE DEF n, b
<1>3. b \in Seq(Version \cup {Misplaced}) /\ Len(b) = n /\ \A k \in 1..n : b[k] = v
  BY <1>1, <1>2
<1>4. DOMAIN b = 1..n
  BY <1>2
<1>5. b \in Content /\ InPlace(b) /\ Len(b) = n
  BY <1>3, <1>4, VersionFacts DEF Content, InPlace
<1> QED
  BY <1>5 DEF n, b

LEMMA JunkContent ==
  ASSUME NEW n \in Nat
  PROVE  Junk(n) \in Content /\ Len(Junk(n)) = n
BY DEF Junk, Content

\* What is kept of a file, and bytes of a version after it.
LEMMA ResumedContent ==
  ASSUME NEW s \in Content, InPlace(s), NEW v \in Version,
         NEW from \in Nat, from <= Len(s), NEW n \in Nat, from <= n
  PROVE  LET c == SubSeq(s, 1, from) \o Bytes(v, from + 1, n)
         IN  c \in Content /\ InPlace(c) /\ Len(c) = n
<1> DEFINE kept == SubSeq(s, 1, from)
           rest == Bytes(v, from + 1, n)
           c    == kept \o rest
<1>1. /\ kept \in Content /\ Len(kept) = from
      /\ \A k \in 1..from : kept[k] = s[k]
  BY DEF Content
<1>2. rest \in Content /\ Len(rest) = n - from /\ InPlace(rest)
  <2>1. from + 1 \in Nat /\ from + 1 <= n + 1 /\ n + 1 - (from + 1) = n - from
    OBVIOUS
  <2>2. Bytes(v, from + 1, n) \in Content /\ InPlace(Bytes(v, from + 1, n))
        /\ Len(Bytes(v, from + 1, n)) = n + 1 - (from + 1)
    BY ONLY <2>1, n \in Nat, v \in Version, BytesContent
  <2> QED
    BY <2>1, <2>2
<1> HIDE DEF kept, rest
<1>3. c \in Content /\ Len(c) = n
  BY <1>1, <1>2 DEF Content
<1>4. \A k \in 1..n : c[k] = IF k <= from THEN kept[k] ELSE rest[k - from]
  <2>1. kept \in Seq(Version \cup {Misplaced}) /\ rest \in Seq(Version \cup {Misplaced})
    BY <1>1, <1>2 DEF Content
  <2>2. Len(kept) = from /\ Len(kept) + Len(rest) = n
    BY <1>1, <1>2
  <2>3. \A k \in 1..(Len(kept) + Len(rest)) :
          (kept \o rest)[k] = IF k <= Len(kept) THEN kept[k] ELSE rest[k - Len(kept)]
    BY ONLY <2>1
  <2> QED
    BY <2>2, <2>3
<1>5. ASSUME NEW k \in DOMAIN c PROVE c[k] # Misplaced
  <2>1. k \in 1..n
    BY <1>3 DEF Content
  <2>2. CASE k <= from
    <3>1. k \in DOMAIN s
      BY <2>1, <2>2 DEF Content
    <3>2. s[k] # Misplaced
      BY <3>1 DEF InPlace
    <3>3. c[k] = kept[k]
      BY <2>1, <2>2, <1>4
    <3>4. kept[k] = s[k]
      BY <2>1, <2>2, <1>1
    <3> QED
      BY <3>2, <3>3, <3>4
  <2>3. CASE ~ (k <= from)
    <3>1. k - from \in DOMAIN rest
      BY <2>1, <2>3, <1>2 DEF Content
    <3>2. rest[k - from] # Misplaced
      BY <3>1, <1>2 DEF InPlace
    <3>3. c[k] = rest[k - from]
      BY <2>1, <2>3, <1>4
    <3> QED
      BY <3>2, <3>3
  <2> QED
    BY <2>2, <2>3
<1> QED
  BY <1>3, <1>5 DEF InPlace, kept, rest

-----------------------------------------------------------------------------
(* A request.  What it does to the file it is about.                       *)

\* A download that ended well: some bytes, as many as the listing showed.
Arrived(content) ==
  content # Nothing /\ (sized => Len(content) = Size[listing[file]])

\* After a step of the download the disk holds another content of the file, in
\* place; nothing else of what the invariant reads has moved but the end of it.
Downloads ==
  /\ \E c \in Content : /\ InPlace(c) /\ disk' = [disk EXCEPT ![file] = c]
                        /\ at' = "downloaded" => Arrived(c)
  /\ UNCHANGED <<share, volume, tool, listing, sized, file, rc, put, littered>>
  /\ \/ at' \in {"get", "downloaded"} /\ UNCHANGED <<todo, failed>>
     \/ at' = "next" /\ todo' = todo \ {file} /\ failed' = TRUE

LEMMA DownloadsKeep ==
  ASSUME ExtractionInv, at \in AtWork \ {"verify", "discard"}, Downloads
  PROVE  ExtractionInv'
<1> USE DEF ExtractionInv, Downloads
<1>1. PICK c \in Content : InPlace(c) /\ disk' = [disk EXCEPT ![file] = c]
  OBVIOUS
<1>2. Typed'
  BY <1>1 DEF Typed
<1>3. Shown'
  BY DEF Shown, AtWork, Typed
<1>4. BytesInPlace'
  BY <1>1 DEF BytesInPlace, InPlace, Typed
<1>5. Sent'
  BY DEF Sent
<1>6. NoHalfObjectAtRest'
  BY DEF NoHalfObjectAtRest, InFlight, AtWork, OfOneVersion, Whole
<1> QED
  BY <1>2, <1>3, <1>4, <1>5, <1>6

LEMMA SettleMoves ==
  ASSUME Typed, NEW ok \in BOOLEAN, Settle(ok)
  PROVE  /\ at' = "next" /\ todo' = todo \ {file} /\ failed' \in BOOLEAN
         /\ ~ok => failed' = TRUE
         /\ ok => failed' = failed
BY DEF Settle, Typed

LEMMA DiskIsKept ==
  ASSUME ExtractionInv, UNCHANGED disk
  PROVE  \E c \in Content : InPlace(c) /\ disk' = [disk EXCEPT ![file] = c]
BY DEF ExtractionInv, Typed, BytesInPlace, InPlace

LEMMA ListedIsAVersion ==
  ASSUME ExtractionInv, at \in AtWork
  PROVE  listing[file] \in Version /\ Size[listing[file]] \in Nat \ {0}
<1>1. listing[file] \in Version
  BY DEF ExtractionInv, Typed, Shown
<1> QED
  BY <1>1, VersionFacts

LEMMA AcceptDownloads ==
  ASSUME ExtractionInv, at = "get", NEW c \in Content, InPlace(c), c # Nothing,
         NEW n \in Nat, Accept(c, n)
  PROVE  Downloads
<1>1. disk' = [disk EXCEPT ![file] = c]
  BY DEF Accept, Write
<1>2. CASE Raises
  <2>1. at' = "next"
    BY <1>2, SettleMoves DEF Raises, ExtractionInv
  <2> QED
    BY <1>1, <1>2, <2>1, SettleMoves DEF Downloads, Raises, ExtractionInv
<1>3. CASE ~Raises
  <2>1. at' = "downloaded" /\ StaysInDownload
    BY <1>3 DEF Accept
  <2>2. ~((IF ExpectedSize # Unknown THEN ExpectedSize ELSE n) # Unknown
            /\ Len(c) # (IF ExpectedSize # Unknown THEN ExpectedSize ELSE n))
    BY <1>3 DEF Accept
  <2>3. Size[listing[file]] # Unknown
    BY ListedIsAVersion DEF AtWork, Unknown
  <2>4. Arrived(c)
    BY <2>2, <2>3 DEF Arrived, ExpectedSize
  <2> QED
    BY <1>1, <2>1, <2>4 DEF Downloads, StaysInDownload, task, ends
<1> QED
  BY <1>2, <1>3

LEMMA DiesDownloads ==
  ASSUME ExtractionInv, at = "get", NEW c \in Content, InPlace(c), StreamDies(c)
  PROVE  Downloads
<1>1. disk' = [disk EXCEPT ![file] = c]
  BY DEF StreamDies, Write
<1>2. Raises \/ (at' = "get" /\ StaysInDownload)
  BY DEF StreamDies
<1>3. CASE Raises
  BY <1>1, <1>3, SettleMoves DEF Downloads, Raises, ExtractionInv
<1>4. CASE at' = "get" /\ StaysInDownload
  BY <1>1, <1>4 DEF Downloads, StaysInDownload, task, ends
<1> QED
  BY <1>2, <1>3, <1>4

LEMMA ServedIsAVersion ==
  ASSUME ExtractionInv, at \in AtWork
  PROVE  Served \in Version /\ Size[Served] \in Nat \ {0} /\ disk[file] \in Content
         /\ InPlace(disk[file])
<1>1. share[file] \in Version /\ disk[file] \in Content /\ InPlace(disk[file])
  BY DEF ExtractionInv, Typed, Shown, BytesInPlace, InPlace
<1> QED
  BY <1>1, VersionFacts DEF Served

LEMMA StreamDownloads ==
  ASSUME ExtractionInv, at = "get", NEW from \in Nat, from <= Len(disk[file]),
         from <= Size[Served], Stream(from)
  PROVE  Downloads
<1> DEFINE upTo(n) == SubSeq(disk[file], 1, from) \o Bytes(Served, from + 1, n)
<1>1. ASSUME NEW n \in Nat, from <= n
      PROVE  upTo(n) \in Content /\ InPlace(upTo(n)) /\ (n > 0 => upTo(n) # Nothing)
  <2>1. Served \in Version /\ disk[file] \in Content /\ InPlace(disk[file])
    BY ServedIsAVersion DEF AtWork
  <2>2. upTo(n) \in Content /\ InPlace(upTo(n)) /\ Len(upTo(n)) = n
    BY <1>1, <2>1, ResumedContent
  <2> HIDE DEF upTo
  <2>3. Len(Nothing) = 0
    BY DEF Nothing
  <2> QED
    BY <2>2, <2>3
<1>2. Size[Served] \in Nat /\ Size[Served] > 0
  BY ServedIsAVersion DEF AtWork
<1>3. \/ Accept(upTo(Size[Served]), Size[Served])
      \/ \E n \in from..Size[Served] : StreamDies(upTo(n)) \/ (n > 0 /\ Accept(upTo(n), Unknown))
  BY DEF Stream
<1>4. CASE Accept(upTo(Size[Served]), Size[Served])
  BY <1>1, <1>2, <1>4, AcceptDownloads
<1>5. ASSUME NEW n \in from..Size[Served],
             StreamDies(upTo(n)) \/ (n > 0 /\ Accept(upTo(n), Unknown))
      PROVE  Downloads
  <2>1. n \in Nat /\ from <= n /\ Unknown \in Nat
    BY <1>2 DEF Unknown
  <2> QED
    BY <2>1, <1>1, <1>5, AcceptDownloads, DiesDownloads
<1> QED
  BY <1>3, <1>4, <1>5

LEMMA RestartDownloads ==
  ASSUME ExtractionInv, at = "get", RestartFromScratch
  PROVE  Downloads
<1>1. CASE Write(Nothing) /\ at' = at /\ StaysInDownload
  BY <1>1, EmptyContent DEF Downloads, Write, StaysInDownload, task, ends
<1>2. CASE Raises /\ UNCHANGED disk
  BY <1>2, SettleMoves, DiskIsKept DEF Downloads, Raises, ExtractionInv
<1> QED
  BY <1>1, <1>2 DEF RestartFromScratch

LEMMA GetDownloads ==
  ASSUME ExtractionInv, Get
  PROVE  at = "get" /\ Downloads
<1>0. at = "get"
  BY DEF Get, RequestFails, RangeUnsatisfiable, Unproven206, Proven206, Full200
<1>1. CASE RequestFails
  BY <1>1, <1>0, SettleMoves, DiskIsKept DEF RequestFails, Downloads, Raises, ExtractionInv
<1>2. CASE RangeUnsatisfiable
  <2>1. CASE /\ ExpectedSize # Unknown /\ ResumeFrom = ExpectedSize
             /\ at' = "downloaded" /\ UNCHANGED disk /\ StaysInDownload
    <3>1. ResumeFrom > 0
      BY <1>2 DEF RangeUnsatisfiable
    <3>2. Arrived(disk[file])
      BY <2>1, <3>1 DEF Arrived, ResumeFrom, ExpectedSize, Nothing
    <3>3. /\ disk[file] \in Content /\ InPlace(disk[file])
          /\ disk' = [disk EXCEPT ![file] = disk[file]]
      BY <2>1 DEF ExtractionInv, Typed, BytesInPlace, InPlace
    <3>4. \E c \in Content : /\ InPlace(c) /\ disk' = [disk EXCEPT ![file] = c]
                             /\ at' = "downloaded" => Arrived(c)
      BY <3>2, <3>3, Zenon
    <3>5. /\ UNCHANGED <<share, volume, tool, listing, sized, file, rc, put, littered>>
          /\ at' = "downloaded" /\ UNCHANGED <<todo, failed>>
      BY <2>1 DEF StaysInDownload, task, ends
    <3> QED
      BY <1>0, <3>4, <3>5, Zenon DEF Downloads
  <2>2. CASE RestartFromScratch
    BY <2>2, <1>0, RestartDownloads
  <2> QED
    BY <1>2, <2>1, <2>2 DEF RangeUnsatisfiable
<1>3. CASE Unproven206
  BY <1>3, <1>0, RestartDownloads DEF Unproven206
<1>4. CASE Proven206
  <2>1. Len(disk[file]) \in Nat
    BY <1>0, ServedIsAVersion DEF Content, AtWork
  <2>2. Len(disk[file]) < Size[Served] /\ Stream(Len(disk[file])) /\ Size[Served] \in Nat
    BY <1>4, <1>0, ServedIsAVersion DEF Proven206, ResumeFrom, AtWork
  <2> QED
    BY <1>0, <2>1, <2>2, StreamDownloads
<1>5. CASE Full200
  <2>1. 0 \in Nat /\ 0 <= Len(disk[file]) /\ 0 <= Size[Served]
    BY <1>0, ServedIsAVersion DEF Content, AtWork
  <2> QED
    BY <1>5, <1>0, <2>1, StreamDownloads DEF Full200
<1> QED
  BY <1>0, <1>1, <1>2, <1>3, <1>4, <1>5 DEF Get

-----------------------------------------------------------------------------
(* The other steps.                                                        *)

LEMMA ExtractionInitInv == ExtractionInit => ExtractionInv
<1> SUFFICES ASSUME ExtractionInit PROVE ExtractionInv
  OBVIOUS
<1>0. \E f \in File : TRUE
  BY ExtractionAssumption
<1>1. file \in File
  BY <1>0 DEF ExtractionInit
<1>2. Typed
  BY <1>1, EmptyContent DEF ExtractionInit, Typed
<1>3. Shown /\ Sent
  BY DEF ExtractionInit, Shown, Sent, AtWork
<1>4. BytesInPlace
  BY EmptyContent DEF ExtractionInit, BytesInPlace, InPlace
<1>5. NoHalfObjectAtRest
  BY DEF ExtractionInit, NoHalfObjectAtRest
<1> QED
  BY <1>2, <1>3, <1>4, <1>5 DEF ExtractionInv

LEMMA RepublishStep == ASSUME ExtractionInv, Republish PROVE ExtractionInv'
<1> USE DEF ExtractionInv
<1>1. PICK f \in File : share[f] + 1 \in Version /\ share' = [share EXCEPT ![f] = @ + 1]
  BY DEF Republish
<1>2. UNCHANGED <<disk, volume, runs, tool, todo, listing, sized, file, at, failed, put, littered>>
  BY DEF Republish, task, ends
<1>3. Typed'
  BY <1>1, <1>2 DEF Typed
<1>4. Shown'
  BY <1>1, <1>2, VersionFacts DEF Shown, Typed
<1>5. BytesInPlace' /\ Sent' /\ NoHalfObjectAtRest'
  BY <1>2 DEF BytesInPlace, Sent, ShortObject, Junk, Unzips, OfOneVersion, NoHalfObjectAtRest, InFlight
<1> QED
  BY <1>3, <1>4, <1>5

LEMMA StartStep == ASSUME ExtractionInv, Start PROVE ExtractionInv'
<1> USE DEF ExtractionInv
<1>1. /\ listing' = share /\ at = "idle" /\ at' \in {"idle", "next"} /\ todo' \in SUBSET File
      /\ tool' \in {"giants", "cnpj"} /\ sized' \in BOOLEAN /\ failed' \in BOOLEAN
      /\ put' = {} /\ UNCHANGED <<share, disk, volume, file, littered>>
  BY ExtractionAssumption DEF Start, Asked
<1>2. Typed'
  BY <1>1 DEF Typed
<1>3. Shown' /\ Sent'
  BY <1>1 DEF Shown, Sent, AtWork
<1>4. BytesInPlace' /\ NoHalfObjectAtRest'
  BY <1>1 DEF BytesInPlace, NoHalfObjectAtRest, InFlight, OfOneVersion, Whole
<1> QED
  BY <1>2, <1>3, <1>4

LEMMA PickStep == ASSUME ExtractionInv, PickFile PROVE ExtractionInv'
<1> USE DEF ExtractionInv
<1>1. PICK f \in todo :
        /\ file' = f /\ listing' = [listing EXCEPT ![f] = Relisted[f]]
        /\ \/ Relisted[f] # Missing /\ at' = "get" /\ UNCHANGED <<todo, failed>>
           \/ /\ Relisted[f] = Missing /\ todo' = todo \ {f} /\ failed' = TRUE /\ UNCHANGED at
  BY DEF PickFile
<1>2. at = "next" /\ UNCHANGED <<share, disk, volume, tool, sized, put, littered>>
  BY DEF PickFile
<1>3. f \in File /\ (Relisted[f] = share[f] \/ Relisted[f] = listing[f])
  BY DEF Typed, Relisted
<1>4. Typed'
  BY <1>1, <1>2, <1>3 DEF Typed
<1>5. Shown'
  BY <1>1, <1>2, <1>3 DEF Shown, AtWork, Typed
<1>6. Sent' /\ BytesInPlace'
  BY <1>1, <1>2 DEF Sent, BytesInPlace
<1>7. NoHalfObjectAtRest'
  BY <1>1, <1>2 DEF NoHalfObjectAtRest, InFlight, OfOneVersion, Whole
<1> QED
  BY <1>4, <1>5, <1>6, <1>7

LEMMA DoneStep == ASSUME ExtractionInv, Done PROVE ExtractionInv'
BY DEF Done, task, ExtractionInv, Typed, Shown, AtWork, Sent, BytesInPlace, NoHalfObjectAtRest,
       InFlight, OfOneVersion, Whole

LEMMA LocalFailsStep == ASSUME ExtractionInv, LocalFails PROVE ExtractionInv'
<1>1. Downloads
  BY SettleMoves, DiskIsKept DEF LocalFails, Downloads, ExtractionInv
<1> QED
  BY <1>1, DownloadsKeep DEF LocalFails, AtWork

LEMMA PutStep == ASSUME ExtractionInv, Put PROVE ExtractionInv'
<1> USE DEF ExtractionInv
<1>1. /\ at = "downloaded" /\ Unzips /\ put' = put \cup {file}
      /\ UNCHANGED <<share, disk, runs, tool, todo, listing, sized, file, failed, littered>>
      /\ at' \in {"verify", "discard"}
  BY DEF Put, task
<1>2. PICK object \in ShortObject \cup {disk[file], volume[file]} :
        /\ volume' = [volume EXCEPT ![file] = object]
        /\ at' = "verify" => object \in ShortObject \cup {disk[file]}
  BY DEF Put, Stored
<1>3. disk[file] \in Content /\ volume[file] \in Content /\ file \in File
  BY DEF Typed
<1>4. ASSUME object \in ShortObject PROVE object \in Content
  <2>1. Len(disk[file]) \in Nat
    BY <1>3 DEF Content
  <2>2. PICK n \in 1..(Len(disk[file]) - 1) : object = Junk(n)
    BY <1>4 DEF ShortObject
  <2> QED
    BY <2>1, <2>2, JunkContent
<1>5. Typed'
  BY <1>1, <1>2, <1>3, <1>4 DEF Typed
<1>6. Shown'
  BY <1>1 DEF Shown, AtWork
<1>7. Sent'
  <2>1. volume'[file] = object
    BY <1>2, <1>3 DEF Typed
  <2>2. ShortObject' = ShortObject /\ Unzips'
    BY <1>1 DEF ShortObject, Junk, Unzips, OfOneVersion, Whole
  <2> QED
    BY <1>1, <1>2, <2>1, <2>2 DEF Sent
<1>8. BytesInPlace'
  BY <1>1 DEF BytesInPlace
<1>9. NoHalfObjectAtRest'
  BY <1>1, <1>2 DEF NoHalfObjectAtRest, InFlight, OfOneVersion, Whole, Typed
<1> QED
  BY <1>5, <1>6, <1>7, <1>8, <1>9

\* A PUT that stored as many bytes as the file has stored the file.
LEMMA VerifiedIsTheFile ==
  ASSUME ExtractionInv, at = "verify", Verifies
  PROVE  volume[file] = disk[file]
<1>1. Len(disk[file]) \in Nat
  BY DEF ExtractionInv, Typed, Content
<1>2. CASE volume[file] \in ShortObject
  <2>1. PICK n \in 1..(Len(disk[file]) - 1) : volume[file] = Junk(n)
    BY <1>2 DEF ShortObject
  <2>2. Len(volume[file]) = n
    BY <2>1, <1>1, JunkContent
  <2> QED
    BY <2>2, <1>1 DEF Verifies
<1> QED
  BY <1>2 DEF ExtractionInv, Sent

LEMMA VerifyStep == ASSUME ExtractionInv, Verify PROVE ExtractionInv'
<1> USE DEF ExtractionInv
<1>1. CASE /\ Verifies /\ Settle(TRUE) /\ littered' = littered \ {file}
           /\ UNCHANGED <<share, disk, volume, runs, tool, listing, sized, file, rc, put>>
  <2>1. /\ at = "verify" /\ at' = "next" /\ todo' = todo \ {file} /\ failed' \in BOOLEAN
    BY <1>1, SettleMoves DEF Verify
  <2>2. Typed' /\ Shown' /\ Sent' /\ BytesInPlace'
    BY <1>1, <2>1 DEF Typed, Shown, Sent, BytesInPlace, AtWork
  <2>3. volume[file] = disk[file] /\ Unzips
    BY <1>1, <2>1, VerifiedIsTheFile DEF Sent
  <2>4. NoHalfObjectAtRest'
    BY <1>1, <2>1, <2>3
       DEF NoHalfObjectAtRest, InFlight, OfOneVersion, Whole, Unzips, BytesInPlace, Typed
  <2> QED
    BY <2>2, <2>4
<1>2. CASE at' = "discard" /\ UNCHANGED <<share, disk, volume, task, resumes, restarts, ends>>
  BY <1>2 DEF Verify, task, ends, Typed, Shown, AtWork, Sent, BytesInPlace, NoHalfObjectAtRest,
              InFlight, OfOneVersion, Whole
<1> QED
  BY <1>1, <1>2 DEF Verify

LEMMA DiscardStep == ASSUME ExtractionInv, Discard PROVE ExtractionInv'
<1> USE DEF ExtractionInv
<1>1. /\ at = "discard" /\ at' = "next" /\ todo' = todo \ {file} /\ failed' \in BOOLEAN
      /\ UNCHANGED <<share, disk, tool, listing, sized, file, put>>
  BY SettleMoves DEF Discard
<1>2. \/ volume' = [volume EXCEPT ![file] = Nothing] /\ littered' = littered \ {file}
      \/ UNCHANGED volume /\ littered' = littered \cup {file}
  BY DEF Discard, Stored
<1>3. Typed'
  BY <1>1, <1>2, EmptyContent DEF Typed
<1>4. Shown' /\ Sent' /\ BytesInPlace'
  BY <1>1 DEF Shown, Sent, BytesInPlace, AtWork
<1>5. ASSUME NEW f \in File, f \notin littered', volume'[f] # Nothing
      PROVE  /\ \A k \in DOMAIN volume'[f] : volume'[f][k] # Misplaced
             /\ f \notin Giants => OfOneVersion(volume'[f])
  <2>1. f # file
    BY <1>2, <1>5 DEF Typed
  <2>2. f \notin littered /\ volume'[f] = volume[f]
    BY <1>2, <1>5, <2>1 DEF Typed
  <2> QED
    BY <1>5, <2>1, <2>2 DEF NoHalfObjectAtRest, InFlight
<1>6. NoHalfObjectAtRest'
  BY <1>5 DEF NoHalfObjectAtRest, OfOneVersion, Whole
<1> QED
  BY <1>3, <1>4, <1>6

LEMMA KilledStep == ASSUME ExtractionInv, Killed PROVE ExtractionInv'
<1> USE DEF ExtractionInv
<1>1. /\ at' = "idle"
      /\ littered' = IF at \in {"verify", "discard"} THEN littered \cup {file} ELSE littered
      /\ UNCHANGED <<share, disk, volume, runs, tool, todo, listing, sized, file, failed, put>>
  BY DEF Killed, task
<1>2. Typed' /\ Shown' /\ Sent' /\ BytesInPlace'
  BY <1>1 DEF Typed, Shown, Sent, BytesInPlace, AtWork
<1>3. NoHalfObjectAtRest'
  BY <1>1 DEF NoHalfObjectAtRest, InFlight, OfOneVersion, Whole
<1> QED
  BY <1>2, <1>3

LEMMA ExtractionInvStep ==
  ASSUME ExtractionInv, [ExtractionNext]_vars
  PROVE  ExtractionInv'
<1>1. CASE Get
  BY <1>1, GetDownloads, DownloadsKeep DEF AtWork
<1>2. CASE UNCHANGED vars
  BY <1>2 DEF vars, ExtractionInv, Typed, Shown, AtWork, Sent, ShortObject, Junk, Unzips,
              BytesInPlace, NoHalfObjectAtRest, InFlight, OfOneVersion, Whole
<1> QED
  BY <1>1, <1>2, RepublishStep, StartStep, PickStep, DoneStep, LocalFailsStep, PutStep,
     VerifyStep, DiscardStep, KilledStep DEF ExtractionNext, Step

-----------------------------------------------------------------------------
(* What an extraction promises.                                            *)

\* The files of this run that are through, as they should be.
Landed(f) ==
  /\ volume[f] = disk[f] /\ volume[f] # Nothing /\ f \notin littered
  /\ sized => Len(volume[f]) = Size[listing[f]]

\* A run that has not failed has landed what it is through with, and there is no
\* exit code before the end of a run.
RunsHonestly ==
  /\ at # "idle" => rc = 3
  /\ at # "idle" /\ ~failed => \A f \in Asked(tool) \ todo : Landed(f)
  /\ at = "idle" /\ rc = 0 => \A f \in Asked(tool) : Landed(f)
  /\ at \in {"downloaded", "verify"} => Arrived(disk[file])

LEMMA RunsHonestlyInit == ExtractionInit => RunsHonestly
BY DEF ExtractionInit, RunsHonestly

LEMMA RunsHonestlyStep ==
  ASSUME ExtractionInv, RunsHonestly, [ExtractionNext]_vars
  PROVE  RunsHonestly'
<1>0. Typed /\ Shown
  BY DEF ExtractionInv
<1>a. Asked(tool) \subseteq File
  BY ExtractionAssumption DEF Asked
<1>1. CASE Downloads /\ at \in {"get", "downloaded"}
  <2>1. /\ file \in todo /\ rc = 3
        /\ UNCHANGED <<volume, tool, listing, sized, file, rc, littered>> /\ at' # "idle"
    BY <1>0, <1>1 DEF Downloads, Shown, AtWork, RunsHonestly
  <2>2. PICK c \in Content : disk' = [disk EXCEPT ![file] = c] /\ (at' = "downloaded" => Arrived(c))
    BY <1>1 DEF Downloads
  <2>3. \A f \in File \ {file} : Landed(f)' <=> Landed(f)
    BY <1>0, <2>1, <2>2 DEF Landed, Typed
  <2>4. at' \in {"downloaded", "verify"} => Arrived(disk[file])'
    BY <1>0, <1>1, <2>1, <2>2 DEF Downloads, Arrived, Typed
  <2>5. ~failed' => \A f \in Asked(tool)' \ todo' : Landed(f)'
    BY <1>1, <1>a, <2>1, <2>3 DEF Downloads, RunsHonestly, Asked
  <2> QED
    BY <2>1, <2>4, <2>5 DEF RunsHonestly
<1>2. CASE Republish
  BY <1>2 DEF Republish, task, ends, RunsHonestly, Landed, Arrived, Asked
<1>3. CASE Start
  BY <1>3 DEF Start, RunsHonestly, Asked
<1>4. CASE PickFile
  <2>1. PICK f \in todo :
          /\ file' = f /\ listing' = [listing EXCEPT ![f] = Relisted[f]]
          /\ \/ at' = "get" /\ UNCHANGED <<todo, failed>>
             \/ failed' = TRUE /\ UNCHANGED at
    BY <1>4 DEF PickFile
  <2>2. at = "next" /\ UNCHANGED <<disk, volume, tool, sized, rc, littered>>
    BY <1>4 DEF PickFile
  <2>3. \A g \in File \ {f} : Landed(g)' <=> Landed(g)
    BY <1>0, <2>1, <2>2 DEF Landed, Typed
  <2>4. ~failed' => \A g \in Asked(tool)' \ todo' : Landed(g)'
    BY <1>a, <2>1, <2>2, <2>3 DEF RunsHonestly, Asked
  <2> QED
    BY <2>1, <2>2, <2>4 DEF RunsHonestly
<1>5. CASE Done
  <2>1. /\ at = "next" /\ todo = {} /\ at' = "idle" /\ (rc' = 0 => ~failed)
        /\ UNCHANGED <<disk, volume, tool, listing, sized, littered>>
    BY <1>5 DEF Done, task
  <2> QED
    BY <2>1 DEF RunsHonestly, Landed, Asked
<1>6. CASE Put
  <2>1. /\ at = "downloaded" /\ file \in todo /\ at' \in {"verify", "discard"}
        /\ UNCHANGED <<disk, tool, todo, listing, sized, file, failed, rc, littered>>
    BY <1>0, <1>6 DEF Put, task, Shown, AtWork
  <2>2. PICK object : volume' = [volume EXCEPT ![file] = object]
    BY <1>6 DEF Put, Stored
  <2>3. \A f \in File \ {file} : Landed(f)' <=> Landed(f)
    BY <1>0, <2>1, <2>2 DEF Landed, Typed
  <2>4. \A f \in Asked(tool) \ todo : f \in File \ {file}
    BY <1>a, <2>1
  <2> QED
    BY <2>1, <2>3, <2>4 DEF RunsHonestly, Arrived, Asked
<1>7. CASE Verify
  <2>1. CASE /\ Verifies /\ Settle(TRUE) /\ littered' = littered \ {file}
             /\ UNCHANGED <<share, disk, volume, runs, tool, listing, sized, file, rc, put>>
    <3>1. /\ at = "verify" /\ at' = "next" /\ todo' = todo \ {file} /\ failed' = failed
      BY <1>0, <1>7, <2>1, SettleMoves DEF Verify
    <3>2. volume[file] = disk[file] /\ Arrived(disk[file])
      BY <2>1, <3>1, VerifiedIsTheFile DEF RunsHonestly
    <3>3. Landed(file)'
      BY <1>0, <2>1, <3>2 DEF Landed, Arrived, Typed
    <3>4. \A f \in File : Landed(f) => Landed(f)'
      BY <2>1 DEF Landed
    <3>5. ~failed' => \A f \in Asked(tool)' \ todo' : Landed(f)'
      BY <1>a, <2>1, <3>1, <3>3, <3>4 DEF RunsHonestly, Asked
    <3> QED
      BY <2>1, <3>1, <3>5 DEF RunsHonestly
  <2>2. CASE at' = "discard" /\ UNCHANGED <<share, disk, volume, task, resumes, restarts, ends>>
    BY <1>7, <2>2 DEF Verify, task, ends, RunsHonestly, Landed, Asked
  <2> QED
    BY <1>7, <2>1, <2>2 DEF Verify
<1>8. CASE Discard
  <2>1. at = "discard" /\ at' = "next" /\ failed' = TRUE /\ UNCHANGED rc
    BY <1>0, <1>8, SettleMoves DEF Discard
  <2> QED
    BY <2>1 DEF RunsHonestly
<1>9. CASE Killed
  BY <1>9 DEF Killed, RunsHonestly
<1>10. CASE UNCHANGED vars
  BY <1>10 DEF vars, RunsHonestly, Landed, Arrived, Asked
<1> QED
  <2>1. CASE Get
    BY <1>1, <2>1, GetDownloads
  <2>2. CASE LocalFails
    <3>1. Downloads /\ at = "downloaded"
      BY <1>0, <2>2, SettleMoves, DiskIsKept DEF LocalFails, Downloads, ExtractionInv
    <3> QED
      BY <1>1, <3>1
  <2> QED
    BY <1>2, <1>3, <1>4, <1>5, <1>6, <1>7, <1>8, <1>9, <1>10, <2>1, <2>2 DEF ExtractionNext, Step

LEMMA ExtractionInvHolds == Spec => []ExtractionInv
BY ExtractionInitInv, ExtractionInvStep, PTL DEF Spec

\* Whatever a share serves, replaces and answers to a resume, for any files, sizes
\* and limits, no byte on the disk is a byte of another place.
THEOREM InPlaceAlways == Spec => []BytesInPlace
<1>1. ExtractionInv => BytesInPlace
  BY DEF ExtractionInv
<1> QED
  BY <1>1, ExtractionInvHolds, PTL

\* Nor does the Volume keep half an object: what is at rest there, and was not left
\* by a cleanup that failed or a process that died, is whole.
THEOREM NoHalfAtRest == Spec => []NoHalfObjectAtRest
<1>1. ExtractionInv => NoHalfObjectAtRest
  BY DEF ExtractionInv
<1> QED
  BY <1>1, ExtractionInvHolds, PTL

\* An exit code of 0 is the state of the Volume: each file asked for is there, as
\* downloaded, with the length the listing showed.
THEOREM ZeroIsLanded == Spec => []ZeroMeansLanded
<1>1. RunsHonestly => ZeroMeansLanded
  BY DEF RunsHonestly, ZeroMeansLanded, Landed
<1>2. Spec => []RunsHonestly
  BY ExtractionInvHolds, RunsHonestlyInit, RunsHonestlyStep, PTL DEF Spec
<1> QED
  BY <1>1, <1>2, PTL

\* A run changes no object it did not send.
THEOREM SenderDeletes == Spec => OnlyTheSenderDeletes
<1>1. ExtractionInv /\ [ExtractionNext]_vars =>
        [\A f \in File : volume'[f] # volume[f] => f \in put']_vars
  <2> SUFFICES ASSUME ExtractionInv, ExtractionNext, NEW f \in File, volume'[f] # volume[f]
               PROVE  f \in put'
    OBVIOUS
  <2>1. CASE Get
    BY <2>1, GetDownloads DEF Downloads
  <2>2. CASE Put
    <3>1. PICK object : volume' = [volume EXCEPT ![file] = object]
      BY <2>2 DEF Put, Stored
    <3> QED
      BY <2>2, <3>1 DEF Put, ExtractionInv, Typed
  <2>3. CASE Discard
    <3>1. \/ volume' = [volume EXCEPT ![file] = Nothing]
          \/ volume' = volume
      BY <2>3 DEF Discard, Stored
    <3> QED
      BY <2>3, <3>1 DEF Discard, ExtractionInv, Typed, Sent
  <2>4. CASE Verify
    BY <2>4 DEF Verify
  <2>5. CASE Republish \/ Start \/ PickFile \/ Done \/ LocalFails \/ Killed
    BY <2>5 DEF Republish, Start, PickFile, Done, LocalFails, Killed
  <2> QED
    BY <2>1, <2>2, <2>3, <2>4, <2>5 DEF ExtractionNext, Step
<1> QED
  BY <1>1, ExtractionInvHolds, PTL DEF Spec, OnlyTheSenderDeletes

-----------------------------------------------------------------------------
(* The central bank's quotes.                                              *)

\* Types, and an edition is something the bank did.
ApiTyped ==
  /\ series \in [QuoteDates -> SUBSET PtaxRow]
  /\ edition \in Nat /\ events \in 0..MaxEvents /\ edition <= events
  /\ fetcher \in [Fetcher -> Fetch]
  /\ stagedFile \in [Fetcher -> Files] /\ landedFile \in Files /\ bronzeFile \in Files

Derived == {"look", "write", "check", "move", "landed", "already", "refused"}

\* What a run is about to rename is its payload, and it looked before.
ReadBackFirst ==
  /\ NeverHalf
  /\ \A f \in Fetcher :
       /\ fetcher[f].at = "move" => stagedFile[f] = fetcher[f].quotes
       /\ fetcher[f].at \in {"write", "check", "move"} => fetcher[f].sawAbsent

\* What the API answers for the days before n, reduced to quotes.
QuotesBefore(n) == UNION {SoleQuote(d, series[d]) : d \in {e \in QuoteDates : e < n}}

\* A run that began with the edition of now has read the answers of now.
ReadsTheEdition(run) ==
  run.at \in Derived \cup {"fetch"} =>
    /\ run.first <= run.last /\ run.last <= edition
    /\ run.first = edition => run.quotes = QuotesBefore(run.day)
    /\ run.at # "fetch" => run.day = LastDay + 1

\* Two runs through with one edition hold one payload.
Complete(run) == run.at \in Derived \cup {"fetch"} /\ run.day = LastDay + 1

SamePayload(a, b) ==
  Complete(a) /\ Complete(b) /\ a.first = a.last /\ b.first = b.last /\ a.first = b.first
    => a.quotes = b.quotes

Reproducible ==
  /\ \A f \in Fetcher : ReadsTheEdition(fetcher[f])
  /\ \A f, g \in Fetcher : SamePayload(fetcher[f], fetcher[g])

ApiInv == ApiTyped /\ ReadBackFirst /\ Reproducible

LEMMA ApiNumbers ==
  /\ LastDay \in Nat /\ LastDay > 0 /\ DayLength \in Nat /\ Spread \in Nat
  /\ MaxEvents \in Nat /\ MaxFetches \in Nat /\ Rate \subseteq Nat
  /\ Instants \subseteq Nat /\ QuoteDates \subseteq Nat
BY ApiAssumption DEF Instants, QuoteDates

\* A payload is neither half a file nor none.
LEMMA PayloadsAreFiles ==
  ASSUME NEW q \in SUBSET PtaxQuote
  PROVE  q \in Files /\ q # Partial /\ q # Absent
<1>1. \A x \in PtaxQuote : DOMAIN x = {"day", "at", "rate"}
  BY DEF PtaxQuote
<1>2. DOMAIN [partial |-> TRUE] = {"partial"} /\ DOMAIN [gone |-> TRUE] = {"gone"}
  OBVIOUS
<1>3. [partial |-> TRUE] \notin PtaxQuote /\ [gone |-> TRUE] \notin PtaxQuote
  BY <1>1, <1>2
<1> QED
  BY <1>3 DEF Partial, Absent, Files

LEMMA AbsentIsNotPartial == Absent # Partial
<1>1. DOMAIN [partial |-> TRUE] = {"partial"} /\ DOMAIN [gone |-> TRUE] = {"gone"}
  OBVIOUS
<1>2. [partial |-> TRUE] # [gone |-> TRUE]
  BY <1>1
<1> QED
  BY <1>2 DEF Absent, Partial

\* A re-publication of a day changes no quote.
LEMMA RepublicationKeepsTheQuote ==
  ASSUME NEW d, NEW rows \in SUBSET PtaxRow, NEW old \in rows, NEW t \in Instants, old.at < t,
         \A row \in rows : row.rate = old.rate
  PROVE  SoleQuote(d, rows \cup {[old EXCEPT !.at = t]}) = SoleQuote(d, rows)
<1> DEFINE new == [old EXCEPT !.at = t]
           more == rows \cup {new}
           S == {row.at : row \in rows}
           T == {row.at : row \in more}
<1>1. /\ new.at = t /\ new.rate = old.rate /\ t \in Nat /\ old.at \in Nat
      /\ S \in SUBSET Nat /\ S # {}
  BY ApiNumbers DEF PtaxRow
<1> HIDE DEF new
<1>2. T = S \cup {t} /\ T \in SUBSET Nat /\ T # {} /\ old.at \in S
  BY <1>1
<1>3. Min(S) \in S /\ (\A y \in S : Min(S) <= y) /\ Min(T) \in T /\ (\A y \in T : Min(T) <= y)
  BY <1>1, <1>2, MinIsLeast
<1> HIDE DEF S, T
<1>4. Min(S) = Min(T)
  <2>1. Min(S) \in Nat /\ Min(T) \in Nat /\ Min(T) <= Min(S) /\ Min(S) <= old.at
    BY <1>1, <1>2, <1>3
  <2>2. Min(T) # t
    BY <1>1, <2>1
  <2>3. Min(S) <= Min(T)
    BY <1>2, <1>3, <2>2
  <2> QED
    BY <2>1, <2>3
<1>5. (CHOOSE row \in rows : TRUE).rate = old.rate /\ (CHOOSE row \in more : TRUE).rate = old.rate
  BY <1>1
<1>6. EarliestOf(d, more) = EarliestOf(d, rows)
  BY <1>4, <1>5 DEF EarliestOf, S, T
<1>7. more # {} /\ rows # {}
  OBVIOUS
<1>8. SoleQuote(d, more) = SoleQuote(d, rows)
  BY <1>6, <1>7 DEF SoleQuote
<1> QED
  BY <1>8 DEF new

\* One readable publication is one quote of its day.
LEMMA QuoteTyped ==
  ASSUME NEW d \in QuoteDates, NEW rows \in SUBSET PtaxRow, Readable(d, rows)
  PROVE  SoleQuote(d, rows) \in SUBSET PtaxQuote
<1>1. CASE rows = {}
  BY <1>1 DEF SoleQuote
<1>2. CASE rows # {}
  <2> DEFINE S == {row.at : row \in rows}
             some == CHOOSE row \in rows : TRUE
  <2>1. S \in SUBSET Nat /\ S # {} /\ S \subseteq Instants
    BY <1>2, ApiNumbers DEF PtaxRow
  <2>2. Min(S) \in Instants
    BY <2>1, MinIsLeast
  <2>3. some \in rows
    BY <1>2
  <2>4. some.rate \in Rate \ {0}
    BY <2>3, ApiNumbers DEF Readable, PtaxRow
  <2> QED
    BY <1>2, <2>2, <2>4 DEF SoleQuote, EarliestOf, PtaxQuote
<1> QED
  BY <1>1, <1>2

-----------------------------------------------------------------------------
(* A run of the task, step by step.                                        *)

\* What a run is after a step, as far as the invariant reads it.
RunOk(run, content) ==
  /\ run \in Fetch
  /\ run.at = "move" => content = run.quotes
  /\ run.at \in {"write", "check", "move"} => run.sawAbsent
  /\ ReadsTheEdition(run)

\* One run took a step, the files under the landing name are whole, and its
\* payload, if it is complete, is one the others share.
LEMMA RunSteps ==
  ASSUME ApiInv, NEW f \in Fetcher, NEW run, Moves(f, run), UNCHANGED <<series, edition, events>>,
         NEW content \in Files, stagedFile' = [stagedFile EXCEPT ![f] = content],
         landedFile' \in Files, bronzeFile' \in Files, NeverHalf',
         RunOk(run, content),
         \A g \in Fetcher : SamePayload(run, fetcher[g]) /\ SamePayload(fetcher[g], run)
  PROVE  ApiInv'
<1>0. /\ ApiTyped /\ ReadBackFirst /\ Reproducible
      /\ fetcher \in [Fetcher -> Fetch] /\ stagedFile \in [Fetcher -> Files]
  BY DEF ApiInv, ApiTyped
<1>1. fetcher' = [fetcher EXCEPT ![f] = run]
  BY DEF Moves
<1>2. \A g \in Fetcher : /\ fetcher'[g] = IF g = f THEN run ELSE fetcher[g]
                         /\ stagedFile'[g] = IF g = f THEN content ELSE stagedFile[g]
  BY <1>0, <1>1
<1>3. ApiTyped'
  BY <1>0, <1>1 DEF ApiTyped, RunOk
<1>4. ReadBackFirst'
  BY <1>0, <1>2 DEF ReadBackFirst, RunOk
<1>5. ASSUME NEW r PROVE ReadsTheEdition(r)' <=> ReadsTheEdition(r)
  BY DEF ReadsTheEdition, QuotesBefore
<1>6. \A g \in Fetcher : ReadsTheEdition(fetcher'[g])
  BY <1>0, <1>2 DEF Reproducible, RunOk
<1>7. SamePayload(run, run)
  BY DEF SamePayload
<1>8. \A g, h \in Fetcher : SamePayload(fetcher'[g], fetcher'[h])
  BY <1>0, <1>2, <1>7 DEF Reproducible
<1>9. Reproducible'
  <2>1. \A g \in Fetcher : ReadsTheEdition(fetcher[g])'
    BY <1>6 DEF ReadsTheEdition, QuotesBefore
  <2>2. \A g, h \in Fetcher : SamePayload(fetcher[g], fetcher[h])'
    BY <1>8 DEF SamePayload, Complete
  <2> QED
    BY <2>1, <2>2 DEF Reproducible
<1> QED
  BY <1>3, <1>4, <1>9 DEF ApiInv

LEMMA RunsAtRest ==
  /\ Off \in Fetch /\ Off.at = "off" /\ Off.day = 1 /\ Off.quotes = {}
  /\ Failed \in Fetch /\ Failed.at = "failed"
<1>1. /\ Off.at = "off" /\ Off.day = 1 /\ Off.quotes = {} /\ Off.first = 0 /\ Off.last = 0
      /\ Off.sawAbsent = FALSE
  BY DEF Off
<1>2. Off \in Fetch
  BY ApiNumbers DEF Off, Fetch
<1>3. Failed \in Fetch /\ Failed.at = "failed"
  BY <1>2 DEF Failed, Fetch
<1> QED
  BY <1>1, <1>2, <1>3

\* A run that failed says nothing.
LEMMA FailedIsOk == ASSUME NEW content PROVE RunOk(Failed, content) /\ ~Complete(Failed)
BY RunsAtRest DEF RunOk, ReadsTheEdition, Derived, Complete

\* A run that goes on past its requests says what it said before.
LEMMA GoesOn ==
  ASSUME ApiInv, NEW f \in Fetcher, fetcher[f].at \in Derived \cup {"fetch"},
         fetcher[f].at = "fetch" => fetcher[f].day > LastDay,
         NEW run \in Fetch, run.at \in Derived, run.day = fetcher[f].day,
         run.quotes = fetcher[f].quotes, run.first = fetcher[f].first, run.last = fetcher[f].last,
         NEW content,
         run.at = "move" => content = run.quotes,
         run.at \in {"write", "check", "move"} => run.sawAbsent
  PROVE  /\ RunOk(run, content)
         /\ \A g \in Fetcher : SamePayload(run, fetcher[g]) /\ SamePayload(fetcher[g], run)
<1>1. /\ ReadsTheEdition(fetcher[f]) /\ fetcher[f] \in Fetch
      /\ \A g \in Fetcher : SamePayload(fetcher[f], fetcher[g]) /\ SamePayload(fetcher[g], fetcher[f])
  BY DEF ApiInv, Reproducible, ApiTyped
<1>2. fetcher[f].day = LastDay + 1
  <2>1. fetcher[f].day \in 1..(LastDay + 1)
    BY <1>1 DEF Fetch
  <2> QED
    BY <1>1, <2>1, ApiNumbers DEF ReadsTheEdition
<1>3. ReadsTheEdition(run)
  BY <1>1, <1>2 DEF ReadsTheEdition
<1>4. Complete(fetcher[f]) /\ Complete(run)
  BY <1>2 DEF Complete
<1> QED
  BY <1>1, <1>3, <1>4 DEF RunOk, SamePayload

LEMMA LaunchStep == ASSUME ApiInv, NEW f \in Fetcher, Launch(f) PROVE ApiInv'
<1> DEFINE run == [Off EXCEPT !.at = "fetch", !.first = edition, !.last = edition]
<1>1. /\ Moves(f, run) /\ UNCHANGED <<series, edition, events, stagedFile, landedFile, bronzeFile>>
  BY DEF Launch, bank
<1>2. edition \in 0..MaxEvents /\ stagedFile \in [Fetcher -> Files] /\ ApiTyped /\ NeverHalf
  BY ApiNumbers DEF ApiInv, ApiTyped, ReadBackFirst
<1>3. /\ run \in Fetch /\ run.at = "fetch" /\ run.day = 1 /\ run.quotes = {}
      /\ run.first = edition /\ run.last = edition
  BY <1>2, RunsAtRest DEF Fetch
<1> HIDE DEF run
<1>4. QuotesBefore(1) = {}
  BY ApiNumbers DEF QuotesBefore, QuoteDates
<1>5. RunOk(run, stagedFile[f])
  BY <1>2, <1>3, <1>4 DEF RunOk, ReadsTheEdition
<1>6. ~Complete(run)
  BY <1>3, ApiNumbers DEF Complete
<1>7. \A g \in Fetcher : SamePayload(run, fetcher[g]) /\ SamePayload(fetcher[g], run)
  BY <1>6 DEF SamePayload
<1>8. stagedFile[f] \in Files /\ stagedFile' = [stagedFile EXCEPT ![f] = stagedFile[f]]
  BY <1>1, <1>2
<1>9. landedFile' \in Files /\ bronzeFile' \in Files /\ NeverHalf'
  BY <1>1, <1>2 DEF ApiTyped, NeverHalf
<1> QED
  BY <1>1, <1>5, <1>7, <1>8, <1>9, RunSteps

\* A step that only moves a run.
LEMMA IdleSteps ==
  ASSUME ApiInv, NEW f \in Fetcher, NEW run, Moves(f, run), Idle, RunOk(run, stagedFile[f]),
         \A g \in Fetcher : SamePayload(run, fetcher[g]) /\ SamePayload(fetcher[g], run)
  PROVE  ApiInv'
<1>1. UNCHANGED <<series, edition, events, stagedFile, landedFile, bronzeFile>>
  BY DEF Idle, bank
<1>2. ApiTyped /\ NeverHalf /\ stagedFile \in [Fetcher -> Files]
  BY DEF ApiInv, ApiTyped, ReadBackFirst
<1>3. stagedFile[f] \in Files /\ stagedFile' = [stagedFile EXCEPT ![f] = stagedFile[f]]
  BY <1>1, <1>2
<1>4. landedFile' \in Files /\ bronzeFile' \in Files /\ NeverHalf'
  BY <1>1, <1>2 DEF ApiTyped, NeverHalf
<1> QED
  BY <1>1, <1>3, <1>4, RunSteps

LEMMA FailsStep == ASSUME ApiInv, NEW f \in Fetcher, Moves(f, Failed), Idle PROVE ApiInv'
<1>1. \A g \in Fetcher : SamePayload(Failed, fetcher[g]) /\ SamePayload(fetcher[g], Failed)
  BY FailedIsOk DEF SamePayload
<1> QED
  BY <1>1, FailedIsOk, IdleSteps

LEMMA FetchDayStep == ASSUME ApiInv, NEW f \in Fetcher, FetchDay(f) PROVE ApiInv'
<1> DEFINE old == fetcher[f]
           d == old.day
           sole == SoleQuote(d, series[d])
           run == [old EXCEPT !.day = d + 1, !.last = edition, !.quotes = @ \cup sole]
<1>0. old.at = "fetch" /\ d <= LastDay /\ Idle
  BY DEF FetchDay
<1>1. /\ ApiTyped /\ Reproducible /\ old \in Fetch /\ ReadsTheEdition(old) /\ edition \in 0..MaxEvents
      /\ series \in [QuoteDates -> SUBSET PtaxRow]
  BY ApiNumbers DEF ApiInv, ApiTyped, Reproducible
<1>2. d \in QuoteDates /\ d \in Nat
  <2>1. d \in 1..(LastDay + 1)
    BY <1>1 DEF Fetch
  <2> QED
    BY <1>0, <2>1, ApiNumbers DEF QuoteDates
<1>3. CASE Moves(f, Failed)
  BY <1>0, <1>3, FailsStep
<1>4. CASE Readable(d, series[d]) /\ Moves(f, run)
  <2>1. sole \in SUBSET PtaxQuote
    BY <1>1, <1>2, <1>4, QuoteTyped
  <2> HIDE DEF sole
  <2>2. /\ run \in Fetch /\ run.at = "fetch" /\ run.day = d + 1 /\ run.last = edition
        /\ run.quotes = old.quotes \cup sole /\ run.first = old.first
    <3> DEFINE mid == [old EXCEPT !.day = d + 1, !.last = edition]
               more == old.quotes \cup sole
    <3>0. d + 1 \in 1..(LastDay + 1)
      BY <1>0, <1>2, ApiNumbers DEF QuoteDates
    <3>1. /\ mid \in Fetch /\ mid.at = "fetch" /\ mid.day = d + 1 /\ mid.last = edition
          /\ mid.quotes = old.quotes /\ mid.first = old.first
      BY <1>0, <1>1, <3>0 DEF Fetch
    <3>2. run = [mid EXCEPT !.quotes = more] /\ more \in SUBSET PtaxQuote
      BY <1>1, <2>1 DEF Fetch
    <3> HIDE DEF mid, more, run
    <3>3. run \in Fetch /\ run.at = mid.at /\ run.day = mid.day /\ run.last = mid.last
          /\ run.quotes = more /\ run.first = mid.first
      BY <3>1, <3>2 DEF Fetch
    <3> QED
      BY <3>1, <3>3 DEF more
  <2>3. QuotesBefore(d + 1) = QuotesBefore(d) \cup sole
    <3>0. \A e \in QuoteDates : e < d + 1 <=> e < d \/ e = d
      <4>1. \A e \in QuoteDates : e \in Nat
        BY ApiNumbers
      <4> QED
        BY <1>2, <4>1
    <3>1. {e \in QuoteDates : e < d + 1} = {e \in QuoteDates : e < d} \cup {d}
      BY <1>2, <3>0
    <3> QED
      BY <3>1 DEF QuotesBefore, sole
  <2>4. ReadsTheEdition(run)
    <3>1. old.first \in Nat /\ old.first <= old.last /\ old.last \in Nat /\ old.last <= edition
          /\ (old.first = edition => old.quotes = QuotesBefore(d))
      BY <1>0, <1>1, ApiNumbers DEF ReadsTheEdition, Fetch
    <3>2. run.first <= run.last /\ run.last <= edition
      BY <1>1, <2>2, <3>1
    <3>3. run.first = edition => run.quotes = QuotesBefore(run.day)
      BY <2>2, <2>3, <3>1
    <3> QED
      BY <2>2, <3>2, <3>3 DEF ReadsTheEdition
  <2>5. RunOk(run, stagedFile[f])
    BY <2>2, <2>4 DEF RunOk
  <2>6. ASSUME NEW g \in Fetcher, Complete(run), Complete(fetcher[g]), run.first = run.last,
               fetcher[g].first = fetcher[g].last, fetcher[g].first = run.first
        PROVE  run.quotes = fetcher[g].quotes
    <3>1. ReadsTheEdition(fetcher[g])
      BY <1>1 DEF Reproducible
    <3>2. fetcher[g].quotes = QuotesBefore(LastDay + 1)
      BY <2>2, <2>6, <3>1 DEF ReadsTheEdition, Complete
    <3> QED
      BY <2>2, <2>4, <2>6, <3>2 DEF ReadsTheEdition, Complete
  <2>7. \A g \in Fetcher : SamePayload(run, fetcher[g]) /\ SamePayload(fetcher[g], run)
    <3> HIDE DEF run
    <3> QED
      BY <2>6 DEF SamePayload
  <2> QED
    BY <1>0, <1>4, <2>5, <2>7, IdleSteps
<1> QED
  BY <1>3, <1>4 DEF FetchDay

\* A run past its requests that only moves on.
LEMMA MovesOn ==
  ASSUME ApiInv, NEW f \in Fetcher, fetcher[f].at \in Derived \cup {"fetch"},
         fetcher[f].at = "fetch" => fetcher[f].day > LastDay,
         NEW to \in Derived, to = "move" => stagedFile[f] = fetcher[f].quotes,
         to \in {"write", "check", "move"} => fetcher[f].sawAbsent,
         Moves(f, [fetcher[f] EXCEPT !.at = to]), Idle
  PROVE  ApiInv'
<1> DEFINE old == fetcher[f]
           run == [old EXCEPT !.at = to]
<1>1. old \in Fetch
  BY DEF ApiInv, ApiTyped
<1>2. /\ run \in Fetch /\ run.at = to /\ run.day = old.day /\ run.quotes = old.quotes
      /\ run.first = old.first /\ run.last = old.last /\ run.sawAbsent = old.sawAbsent
  BY <1>1 DEF Fetch, Derived
<1>3. Moves(f, run)
  OBVIOUS
<1> HIDE DEF run
<1>4. /\ RunOk(run, stagedFile[f])
      /\ \A g \in Fetcher : SamePayload(run, fetcher[g]) /\ SamePayload(fetcher[g], run)
  BY <1>2, GoesOn
<1> QED
  BY <1>3, <1>4, IdleSteps

LEMMA LookStep == ASSUME ApiInv, NEW f \in Fetcher, Look(f) PROVE ApiInv'
<1> DEFINE old == fetcher[f]
           saw == landedFile = Absent
           to == IF saw THEN "write" ELSE IF landedFile = old.quotes THEN "already" ELSE "refused"
           run == [old EXCEPT !.sawAbsent = saw, !.at = to]
<1>1. old \in Fetch /\ old.at = "look" /\ Idle /\ Moves(f, run)
  BY DEF ApiInv, ApiTyped, Look
<1>2. saw \in BOOLEAN /\ to \in Derived /\ to # "move" /\ (to \in {"write", "check", "move"} => saw)
  BY DEF Derived
<1>3. run = [[old EXCEPT !.sawAbsent = saw] EXCEPT !.at = to]
  OBVIOUS
<1> HIDE DEF saw, to, run
<1>4. /\ run \in Fetch /\ run.at = to /\ run.day = old.day /\ run.quotes = old.quotes
      /\ run.first = old.first /\ run.last = old.last /\ run.sawAbsent = saw
  <2> DEFINE mid == [old EXCEPT !.sawAbsent = saw]
  <2>1. /\ mid \in Fetch /\ mid.day = old.day /\ mid.quotes = old.quotes
        /\ mid.first = old.first /\ mid.last = old.last /\ mid.sawAbsent = saw
    BY <1>1, <1>2 DEF Fetch
  <2>2. run = [mid EXCEPT !.at = to]
    BY <1>3
  <2> HIDE DEF mid
  <2> QED
    BY <1>2, <2>1, <2>2 DEF Fetch, Derived
<1>5. /\ RunOk(run, stagedFile[f])
      /\ \A g \in Fetcher : SamePayload(run, fetcher[g]) /\ SamePayload(fetcher[g], run)
  <2>1. /\ old.at \in Derived \cup {"fetch"} /\ old.at # "fetch" /\ run.at \in Derived
        /\ run.at # "move" /\ (run.at \in {"write", "check", "move"} => run.sawAbsent)
    BY <1>1, <1>2, <1>4 DEF Derived
  <2> QED
    BY <1>4, <2>1, GoesOn
<1> QED
  BY <1>1, <1>5, IdleSteps

LEMMA WriteStep == ASSUME ApiInv, NEW f \in Fetcher, WriteStaged(f) PROVE ApiInv'
<1> DEFINE old == fetcher[f]
           run == [old EXCEPT !.at = "check"]
<1>1. /\ ApiTyped /\ NeverHalf /\ old \in Fetch /\ old.at = "write" /\ old.sawAbsent /\ Moves(f, run)
      /\ UNCHANGED <<series, edition, events, landedFile, bronzeFile>>
  BY DEF ApiInv, ApiTyped, ReadBackFirst, WriteStaged, bank
<1>2. PICK content \in {old.quotes, Partial} : stagedFile' = [stagedFile EXCEPT ![f] = content]
  BY DEF WriteStaged
<1>3. content \in Files
  BY <1>1, PayloadsAreFiles DEF Fetch, Files
<1>4. /\ run \in Fetch /\ run.at = "check" /\ run.day = old.day /\ run.quotes = old.quotes
      /\ run.first = old.first /\ run.last = old.last /\ run.sawAbsent = old.sawAbsent
  BY <1>1 DEF Fetch
<1> HIDE DEF run
<1>5. /\ RunOk(run, content)
      /\ \A g \in Fetcher : SamePayload(run, fetcher[g]) /\ SamePayload(fetcher[g], run)
  <2>1. /\ old.at \in Derived \cup {"fetch"} /\ old.at # "fetch" /\ run.at \in Derived
        /\ run.at # "move" /\ run.sawAbsent
    BY <1>1, <1>4 DEF Derived
  <2> QED
    BY <1>4, <2>1, GoesOn
<1>6. landedFile' \in Files /\ bronzeFile' \in Files /\ NeverHalf'
  BY <1>1 DEF ApiTyped, NeverHalf
<1> QED
  BY <1>1, <1>2, <1>3, <1>5, <1>6, RunSteps

LEMMA RenameStep == ASSUME ApiInv, NEW f \in Fetcher, Rename(f) PROVE ApiInv'
<1> DEFINE old == fetcher[f]
           run == [old EXCEPT !.at = "landed"]
<1>1. /\ ApiTyped /\ NeverHalf /\ old \in Fetch /\ old.at = "move" /\ stagedFile[f] = old.quotes
      /\ Moves(f, run) /\ landedFile' = stagedFile[f] /\ stagedFile' = [stagedFile EXCEPT ![f] = Absent]
      /\ UNCHANGED <<series, edition, events, bronzeFile>>
  BY DEF ApiInv, ApiTyped, ReadBackFirst, Rename, bank
<1>2. landedFile' \in Files /\ landedFile' # Partial
  BY <1>1, PayloadsAreFiles DEF Fetch
<1>3. /\ run \in Fetch /\ run.at = "landed" /\ run.day = old.day /\ run.quotes = old.quotes
      /\ run.first = old.first /\ run.last = old.last
  BY <1>1 DEF Fetch
<1> HIDE DEF run
<1>4. /\ RunOk(run, Absent)
      /\ \A g \in Fetcher : SamePayload(run, fetcher[g]) /\ SamePayload(fetcher[g], run)
  <2>1. /\ old.at \in Derived \cup {"fetch"} /\ old.at # "fetch" /\ run.at \in Derived
        /\ run.at # "move" /\ run.at \notin {"write", "check", "move"}
    BY <1>1, <1>3 DEF Derived
  <2> QED
    BY <1>3, <2>1, GoesOn
<1>5. Absent \in Files /\ bronzeFile' \in Files /\ NeverHalf'
  BY <1>1, <1>2 DEF ApiTyped, NeverHalf, Files
<1> QED
  BY <1>1, <1>2, <1>4, <1>5, RunSteps

\* The bank's steps leave the runs alone.
LEMMA BankSteps ==
  ASSUME ApiInv, NEW d \in QuoteDates, NEW rows \in SUBSET PtaxRow, NEW counts \in {0, 1},
         Happens(d, rows, counts), counts = 0 => SoleQuote(d, rows) = SoleQuote(d, series[d])
  PROVE  ApiInv'
<1>1. /\ ApiTyped /\ ReadBackFirst /\ Reproducible
      /\ series \in [QuoteDates -> SUBSET PtaxRow] /\ edition \in Nat
      /\ fetcher \in [Fetcher -> Fetch]
  BY DEF ApiInv, ApiTyped
<1>2. /\ events < MaxEvents /\ events' = events + 1 /\ edition' = edition + counts
      /\ series' = [series EXCEPT ![d] = rows]
      /\ UNCHANGED <<fetches, fetcher, stagedFile, landedFile, bronzeFile>>
  BY DEF Happens
<1>3. ApiTyped'
  <2>1. /\ edition' \in Nat /\ events' \in 0..MaxEvents /\ edition' <= events'
    BY <1>1, <1>2, ApiNumbers DEF ApiTyped
  <2>2. series' \in [QuoteDates -> SUBSET PtaxRow]
    BY <1>1, <1>2
  <2> QED
    BY <1>1, <1>2, <2>1, <2>2 DEF ApiTyped
<1>4. ReadBackFirst'
  BY <1>1, <1>2 DEF ReadBackFirst, NeverHalf
<1>5. ASSUME counts = 0, NEW n PROVE QuotesBefore(n)' = QuotesBefore(n)
  <2>1. \A e \in QuoteDates : SoleQuote(e, series'[e]) = SoleQuote(e, series[e])
    BY <1>1, <1>2, <1>5
  <2>2. \A e, q : SoleQuote(e, q)' = SoleQuote(e, q)
    BY DEF SoleQuote, EarliestOf
  <2> QED
    BY <2>1, <2>2 DEF QuotesBefore
<1>6. ASSUME NEW f \in Fetcher PROVE ReadsTheEdition(fetcher[f])'
  <2> DEFINE run == fetcher[f]
  <2>1. ReadsTheEdition(run) /\ run \in Fetch /\ run' = run
    BY <1>1, <1>2 DEF Reproducible
  <2>2. run.last \in Nat /\ run.first \in Nat
    BY <2>1, ApiNumbers DEF Fetch
  <2>3. CASE counts = 0
    <3>1. edition' = edition
      BY <1>1, <1>2, <2>3
    <3>2. QuotesBefore(run.day)' = QuotesBefore(run.day)
      BY <1>5, <2>1, <2>3 DEF QuotesBefore
    <3> QED
      BY <2>1, <3>1, <3>2 DEF ReadsTheEdition
  <2>4. CASE counts = 1
    <3>1. run.at \in Derived \cup {"fetch"} =>
            /\ run.first <= run.last /\ run.last <= edition' /\ run.first # edition'
            /\ run.at # "fetch" => run.day = LastDay + 1
      BY <1>1, <1>2, <2>1, <2>2, <2>4 DEF ReadsTheEdition
    <3> QED
      BY <2>1, <3>1 DEF ReadsTheEdition
  <2> QED
    BY <2>3, <2>4
<1>7. \A f, g \in Fetcher : SamePayload(fetcher[f], fetcher[g])'
  BY <1>1, <1>2 DEF Reproducible, SamePayload, Complete
<1> QED
  BY <1>3, <1>4, <1>6, <1>7 DEF ApiInv, Reproducible

LEMMA ApiStep == ASSUME ApiInv, [ApiNext]_apiVars PROVE ApiInv'
<1>0. ApiTyped /\ ReadBackFirst /\ series \in [QuoteDates -> SUBSET PtaxRow]
  BY DEF ApiInv, ApiTyped
<1>1. CASE Publish
  <2>1. PICK d \in QuoteDates, row \in PtaxRow : Happens(d, series[d] \cup {row}, 1)
    BY <1>1 DEF Publish
  <2>2. series[d] \cup {row} \in SUBSET PtaxRow
    BY <1>0
  <2> QED
    BY <2>1, <2>2, BankSteps
<1>2. CASE Republication
  <2>1. PICK d \in QuoteDates : \E old \in series[d], t \in Instants :
               /\ old.at < t
               /\ \A row \in series[d] : t <= row.at + Spread /\ row.rate = old.rate
               /\ Happens(d, series[d] \cup {[old EXCEPT !.at = t]}, 0)
    BY <1>2 DEF Republication
  <2>2. PICK old \in series[d], t \in Instants :
               /\ old.at < t
               /\ \A row \in series[d] : row.rate = old.rate
               /\ Happens(d, series[d] \cup {[old EXCEPT !.at = t]}, 0)
    BY <2>1
  <2> DEFINE new == [old EXCEPT !.at = t]
             more == series[d] \cup {new}
  <2>3. series[d] \in SUBSET PtaxRow
    BY <1>0
  <2>4. new \in PtaxRow
    BY <2>3 DEF PtaxRow
  <2>5. SoleQuote(d, more) = SoleQuote(d, series[d])
    BY <2>2, <2>3, RepublicationKeepsTheQuote
  <2>6. Happens(d, more, 0)
    BY <2>2
  <2> HIDE DEF new
  <2>7. more \in SUBSET PtaxRow
    BY <2>3, <2>4
  <2> HIDE DEF more
  <2> QED
    BY <2>5, <2>6, <2>7, BankSteps
<1>3. CASE Revise
  <2>1. PICK d \in QuoteDates, row \in PtaxRow : Happens(d, {row}, 1)
    BY <1>3 DEF Revise
  <2> QED
    BY <2>1, BankSteps
<1>4. CASE AutoLoad \/ UNCHANGED apiVars
  <2>1. /\ UNCHANGED <<series, edition, events, fetcher, stagedFile, landedFile>>
        /\ bronzeFile' \in {bronzeFile, landedFile}
    BY <1>4 DEF AutoLoad, apiVars, bank
  <2>2. ApiTyped' /\ ReadBackFirst'
    BY <1>0, <2>1 DEF ApiTyped, ReadBackFirst, NeverHalf
  <2>3. \A n : QuotesBefore(n)' = QuotesBefore(n)
    BY <2>1 DEF QuotesBefore, SoleQuote, EarliestOf
  <2>4. ASSUME NEW f \in Fetcher PROVE ReadsTheEdition(fetcher[f])'
    <3>1. ReadsTheEdition(fetcher[f])
      BY DEF ApiInv, Reproducible
    <3> QED
      BY <2>1, <3>1 DEF ReadsTheEdition, QuotesBefore
  <2>5. \A f, g \in Fetcher : SamePayload(fetcher[f], fetcher[g])'
    BY <2>1 DEF ApiInv, Reproducible, SamePayload, Complete
  <2> QED
    BY <2>2, <2>4, <2>5 DEF ApiInv, Reproducible
<1>5. ASSUME NEW f \in Fetcher, Fetched(f) PROVE ApiInv'
  <2>1. fetcher[f].at = "fetch" /\ fetcher[f].day > LastDay /\ Idle
    BY <1>5 DEF Fetched
  <2>2. CASE Moves(f, Failed)
    BY <2>1, <2>2, FailsStep
  <2>3. CASE Moves(f, [fetcher[f] EXCEPT !.at = "look"])
    BY <2>1, <2>3, MovesOn DEF Derived
  <2> QED
    BY <1>5, <2>2, <2>3 DEF Fetched
<1>6. ASSUME NEW f \in Fetcher, ReadBack(f) PROVE ApiInv'
  <2>1. fetcher[f].at = "check" /\ fetcher[f].sawAbsent /\ Idle
    BY <1>0, <1>6 DEF ReadBack, ReadBackFirst
  <2>2. CASE Moves(f, Failed)
    BY <2>1, <2>2, FailsStep
  <2>3. CASE stagedFile[f] = fetcher[f].quotes /\ Moves(f, [fetcher[f] EXCEPT !.at = "move"])
    BY <2>1, <2>3, MovesOn DEF Derived
  <2> QED
    BY <1>6, <2>2, <2>3 DEF ReadBack
<1>7. ASSUME NEW f \in Fetcher, FetchFails(f) PROVE ApiInv'
  BY <1>7, FailsStep DEF FetchFails
<1> QED
  BY <1>1, <1>2, <1>3, <1>4, <1>5, <1>6, <1>7, LaunchStep, FetchDayStep, LookStep, WriteStep, RenameStep
     DEF ApiNext

LEMMA ApiInitInv == ApiInit => ApiInv
<1> SUFFICES ASSUME ApiInit PROVE ApiInv
  OBVIOUS
<1>1. /\ fetcher = [f \in Fetcher |-> Off] /\ \A f \in Fetcher : fetcher[f] = Off
  BY DEF ApiInit
<1>2. Absent \in Files /\ Absent # Partial
  BY AbsentIsNotPartial DEF Files
<1>3. ApiTyped
  BY <1>1, <1>2, ApiNumbers, RunsAtRest DEF ApiInit, ApiTyped
<1>4. ReadBackFirst
  BY <1>1, <1>2, RunsAtRest DEF ApiInit, ReadBackFirst, NeverHalf
<1>5. Reproducible
  BY <1>1, RunsAtRest DEF Reproducible, ReadsTheEdition, SamePayload, Complete, Derived
<1> QED
  BY <1>3, <1>4, <1>5 DEF ApiInv

LEMMA ApiInvHolds == ApiSpec => []ApiInv
BY ApiInitInv, ApiStep, PTL DEF ApiSpec

\* Two fetches through with one edition of the bank's answers hold one payload,
\* whatever was re-published between them.
LEMMA ApiInvMeans == ApiInv => NeverHalf /\ ReproducibleUntilRevised
<1> SUFFICES ASSUME ApiInv PROVE NeverHalf /\ ReproducibleUntilRevised
  OBVIOUS
<1>1. NeverHalf
  BY DEF ApiInv, ReadBackFirst
<1>2. ASSUME NEW f \in Fetcher, NEW g \in Fetcher,
             {fetcher[f].at, fetcher[g].at} \subseteq Derived,
             Cardinality({fetcher[f].first, fetcher[f].last, fetcher[g].first, fetcher[g].last}) = 1
      PROVE  fetcher[f].quotes = fetcher[g].quotes
  <2>1. PICK e : {fetcher[f].first, fetcher[f].last, fetcher[g].first, fetcher[g].last} = {e}
    <3> DEFINE S == {fetcher[f].first, fetcher[f].last, fetcher[g].first, fetcher[g].last}
    <3>1. S \in SUBSET (0..MaxEvents)
      BY DEF ApiInv, ApiTyped, Fetch
    <3>a. Cardinality(S) = 1
      BY <1>2
    <3> HIDE DEF S
    <3>b. IsFiniteSet(0..MaxEvents)
      BY ApiNumbers, FS_Interval
    <3>2. IsFiniteSet(S) /\ Cardinality(S) = 1
      BY <3>1, <3>a, <3>b, FS_Subset
    <3>3. \E e : S = {e}
      BY <3>2, FS_Singleton
    <3> QED
      BY <3>3 DEF S
  <2>2. /\ fetcher[f].first = e /\ fetcher[f].last = e
        /\ fetcher[g].first = e /\ fetcher[g].last = e
    BY <2>1
  <2>3. Complete(fetcher[f]) /\ Complete(fetcher[g])
    BY <1>2 DEF ApiInv, Reproducible, ReadsTheEdition, Complete, Derived
  <2> QED
    BY <2>2, <2>3 DEF ApiInv, Reproducible, SamePayload
<1> QED
  BY <1>1, <1>2 DEF ReproducibleUntilRevised, Derived

\* Auto Loader never finds half of a file, and a fetch run again derives the same
\* bytes until the bank revises its answer, for any window, rates and runs.
THEOREM QuotesReproduce == ApiSpec => [](NeverHalf /\ ReproducibleUntilRevised)
BY ApiInvHolds, ApiInvMeans, PTL

LEMMA ReplacesUnseen ==
  ASSUME ApiInv, ApiNext, NEW f \in Fetcher, landedFile' # landedFile, fetcher'[f] # fetcher[f]
  PROVE  fetcher[f].sawAbsent
<1>1. PICK g \in Fetcher : Rename(g)
  BY DEF ApiNext, Publish, Republication, Revise, Happens, AutoLoad, Launch, FetchDay, Fetched, Look,
         WriteStaged, ReadBack, FetchFails, Idle
<1>2. g = f
  BY <1>1 DEF Rename, Moves, ApiInv, ApiTyped
<1> QED
  BY <1>1, <1>2 DEF Rename, ApiInv, ReadBackFirst

\* A landed file gives way only to a run that looked before it was there.
THEOREM ReplacesOnlyUnseen == ApiSpec => OnlyUnseenReplaced
<1>1. ApiInv /\ [ApiNext]_apiVars =>
        [\A f \in Fetcher : landedFile' # landedFile /\ fetcher'[f] # fetcher[f]
           => fetcher[f].sawAbsent]_apiVars
  BY ReplacesUnseen
<1> QED
  BY <1>1, ApiInvHolds, PTL DEF ApiSpec, OnlyUnseenReplaced

-----------------------------------------------------------------------------
(* The merchant registry.                                                  *)

MutationState == {"none", "held", "early", "announced", "insert", "update", "silent",
                  "delete", "done", "over"}

RunAt == {"off", "wait", "stamp", "columns", "rows", "count", "watermark",
          "incremental", "check", "land"}

ExtractType == [at : RunAt, t2 : Instant \cup {Never}, seen : Observation]

\* A stamp is never of the future, and a hand-off is never at the seed's stamp.
RegistryTyped ==
  /\ clock \in Instant /\ created \in 0..MaxSeeds /\ mutation \in MutationState
  /\ table \in SUBSET Row /\ pending \in SUBSET Row
  /\ t1 \in Instant \cup {Never} /\ ready \in Instant \cup {Never} /\ SeedStamp < ready
  /\ extract \in ExtractType /\ SeedStamp < extract.t2 /\ landed \in SUBSET Observation
  /\ \A row \in table \cup pending : row.stamp <= clock

-----------------------------------------------------------------------------

\* How far the mutation has gone.
Held     == {"held", "early", "announced"}
Released == {"insert", "update", "silent", "delete", "done"}
Inserted == {"update", "silent", "delete", "done"}
Advanced == Released \cup {"early", "announced"}
Rewritten == {"silent", "delete", "done"}
Silenced == {"delete", "done"}

Present(done) ==
  (Seeded \cup (IF done \in Inserted THEN Class["insert"] ELSE {}))
    \ (IF done = "done" THEN Class["delete"] ELSE {})

Mutated(key, done) ==
  \/ key \in Class["held"] /\ done \in Released
  \/ key \in Class["update"] /\ done \in Rewritten
  \/ key \in Class["silent"] /\ done \in Silenced

\* The stamp of a row, told by its class.
StampIs(row, done) ==
  /\ row.key \in Class["silent"] \cup Class["delete"] \cup Class["untouched"] => row.stamp = SeedStamp
  /\ row.key \in Class["held"] => row.stamp = IF done \in Released THEN t1 ELSE SeedStamp
  /\ row.key \in Class["advance"] => IF done \in Advanced THEN t1 < row.stamp ELSE row.stamp = SeedStamp
  /\ row.key \in Class["update"] /\ done \notin Rewritten => row.stamp = SeedStamp

\* The registry while a mutation is under way, or before it.
TableIsMutated ==
  /\ mutation # "over" =>
       /\ Keys(table) = Present(mutation)
       /\ \A row \in table : /\ row.mutated <=> Mutated(row.key, mutation)
                             /\ StampIs(row, mutation)
       /\ mutation # "none" => t1 \in Instant /\ SeedStamp < t1 /\ Seeded # {}
  /\ IF mutation \in Held
       THEN /\ Keys(pending) = Class["held"]
            /\ \A row \in pending : row.mutated /\ row.stamp = t1
       ELSE pending = {}

-----------------------------------------------------------------------------

\* The observations there are: those landed, and that of the run.
Stamped == {"columns", "rows", "count", "watermark", "incremental", "check", "land"}
Seen == landed \cup (IF extract.at \in Stamped THEN {extract.seen} ELSE {})

\* What a held observation showed, and what is left of it.
HeldShows(m) ==
  /\ Seeded # {} /\ Keys(m.truth) = Seeded /\ \A row \in m.truth : ~row.mutated
  /\ m.created = created =>
       /\ mutation # "none"
       /\ mutation # "over" =>
            /\ \A x \in m.truth : x.stamp = SeedStamp \/ t1 < x.stamp
            /\ mutation \in Held \cup {"insert", "update"} =>
                 \A x \in m.truth : \E row \in table : x.stamp <= row.stamp
            /\ \A x \in m.truth, row \in table :
                 \/ row.key \in Class["insert"]
                 \/ row.key \in Class["update"] /\ mutation \in Rewritten
                 => x.stamp < row.stamp

\* What an observation of a mutated registry showed.
MutatedShows(m) ==
  /\ Keys(m.truth) = Present("done")
  /\ \A row \in m.truth : /\ row.mutated <=> Mutated(row.key, "done")
                          /\ row.key \in Class["silent"] => row.stamp = SeedStamp
  /\ m.created = created => mutation = "done"

\* What a mutation does between two observations of one registry.
Between(m1, m2) ==
  \A x \in m1.truth, row \in m2.truth :
    /\ row.key \in Class["insert"] \cup Class["update"] => x.stamp < row.stamp
    /\ row.key \in Class["held"] /\ x.stamp # SeedStamp => row.stamp < x.stamp

ObservedInOrder ==
  /\ \A m \in Seen : /\ m.created <= created
                     /\ m.held => HeldShows(m)
                     /\ m.mutated => MutatedShows(m)
  /\ \A m1, m2 \in Seen : m1.created = m2.created /\ m1.held /\ m2.mutated => Between(m1, m2)

-----------------------------------------------------------------------------

\* What the run has read, of what it can see.
ReadSoFar ==
  LET seen == extract.seen IN
  /\ extract.at \in {"count", "watermark", "incremental"} => seen.rows \subseteq Visible
  /\ extract.at \in {"watermark", "incremental"} => seen.rows = Visible
  /\ extract.at = "incremental" => seen.watermark = Watermark(Visible)
  /\ extract.at \in {"check", "land"} =>
       /\ seen.rows \in {seen.truth, {}}
       /\ seen.watermark = Watermark(seen.rows) /\ seen.keys = Incremental(seen.rows, seen.since)
  /\ extract.at # "off" /\ seen.since # Never => seen.handOff
  /\ extract.at = "land" /\ seen.handOff =>
       seen.watermark # Never /\ (seen.since # Never => seen.since # SeedStamp)

\* What was landed.
LandedAsRead ==
  \A m \in landed :
    /\ m.rows \in {m.truth, {}}
    /\ m.watermark = Watermark(m.rows) /\ m.keys = Incremental(m.rows, m.since)
    /\ m.since # Never => m.handOff /\ m.since # SeedStamp
    /\ m.handOff => m.watermark # Never

MerchantInv ==
  RegistryTyped /\ TableIsMutated /\ ObservedInOrder /\ ReadSoFar /\ LandedAsRead

-----------------------------------------------------------------------------
(* Rows, watermarks, classes.                                              *)

\* The classes' merchants are finitely many, and a merchant is of one class.
LEMMA ClassesApart ==
  /\ DOMAIN Class = {"held", "advance", "insert", "update", "silent", "delete", "untouched"}
  /\ \A c, d \in DOMAIN Class : c # d => Class[c] \cap Class[d] = {}
  /\ \A c \in DOMAIN Class : Class[c] \subseteq Merchants
  /\ \A c \in DOMAIN Class : c # "insert" => Class[c] \subseteq Seeded
  /\ \A k \in Merchants : \E c \in DOMAIN Class : k \in Class[c]
  /\ IsFiniteSet(Merchants)
<1>1. /\ DOMAIN Class = {"held", "advance", "insert", "update", "silent", "delete", "untouched"}
      /\ \A c, d \in DOMAIN Class : c # d => Class[c] \cap Class[d] = {}
      /\ \A c \in DOMAIN Class : IsFiniteSet(Class[c])
  BY MerchantAssumption
<1>2. \A c \in DOMAIN Class : Class[c] \subseteq Merchants
  BY DEF Merchants
<1>3. \A c \in DOMAIN Class : c # "insert" => Class[c] \subseteq Seeded
  BY <1>1, <1>2 DEF Seeded
<1>4. \A k \in Merchants : \E c \in DOMAIN Class : k \in Class[c]
  BY DEF Merchants
<1>5. IsFiniteSet(Merchants)
  <2>1. Merchants = Class["held"] \cup (Class["advance"] \cup (Class["insert"] \cup (Class["update"]
                      \cup (Class["silent"] \cup (Class["delete"] \cup Class["untouched"])))))
    BY <1>1 DEF Merchants
  <2> QED
    BY <1>1, <2>1, FS_Union
<1> QED
  BY <1>1, <1>2, <1>3, <1>4, <1>5

\* So are the rows.
LEMMA RowsFinite == IsFiniteSet(Row)
<1> DEFINE T == (Merchants \X Instant) \X BOOLEAN
           f == [x \in T |-> [key |-> x[1][1], stamp |-> x[1][2], mutated |-> x[2]]]
<1>1. IsFiniteSet(Instant)
  BY MerchantAssumption, FS_Interval DEF Instant
<1>2. IsFiniteSet(BOOLEAN)
  <2> DEFINE A == {TRUE}
             B == {FALSE}
  <2>1. BOOLEAN = A \cup B
    OBVIOUS
  <2>2. IsFiniteSet(A) /\ IsFiniteSet(B)
    BY FS_Singleton
  <2> HIDE DEF A, B
  <2>3. IsFiniteSet(A \cup B)
    BY <2>2, FS_Union
  <2> QED
    BY <2>1, <2>3
<1>3. IsFiniteSet(T)
  BY <1>1, <1>2, ClassesApart, FS_Product
<1>4. f \in Surjection(T, Row)
  <2>1. \A x \in T : f[x] \in Row
    BY DEF Row
  <2>2. ASSUME NEW r \in Row PROVE \E x \in T : f[x] = r
    <3>1. <<<<r.key, r.stamp>>, r.mutated>> \in T
      BY DEF Row
    <3>2. f[<<<<r.key, r.stamp>>, r.mutated>>] = r
      BY <3>1 DEF Row
    <3> QED
      BY <3>1, <3>2
  <2> QED
    BY <2>1, <2>2 DEF Surjection
<1> QED
  BY <1>3, <1>4, FS_Surjection

\* The watermark is the latest stamp, and there is one where there is a row.
LEMMA WatermarkIsLatest ==
  ASSUME NEW R \in SUBSET Row
  PROVE  /\ Watermark(R) \in Instant \cup {Never}
         /\ Watermark(R) = Never <=> R = {}
         /\ R # {} => /\ \E row \in R : row.stamp = Watermark(R)
                      /\ \A row \in R : row.stamp <= Watermark(R)
<1> DEFINE S == {row.stamp : row \in R}
<1>1. Never \notin Instant /\ Horizon \in Nat /\ Instant \subseteq Nat
  BY MerchantAssumption DEF Never, Instant
<1>2. S \in SUBSET Instant /\ S \in SUBSET Nat /\ \A y \in S : y <= Horizon
  BY MerchantAssumption DEF Row, Instant
<1>3. CASE R = {}
  BY <1>3 DEF Watermark
<1>4. CASE R # {}
  <2>1. Max(S) \in S /\ \A y \in S : Max(S) >= y
    <3>1. \E x \in S : \A y \in S : y <= x
      BY <1>1, <1>2, <1>4, HasGreatest
    <3>2. \E x \in S : \A y \in S : x >= y
      BY <1>2, <3>1
    <3> QED
      BY <3>2 DEF Max
  <2>2. Watermark(R) = Max(S)
    BY <1>4 DEF Watermark
  <2> HIDE DEF S
  <2>3. Watermark(R) \in S /\ \A y \in S : y <= Watermark(R)
    BY <1>1, <1>2, <2>1, <2>2
  <2> USE DEF S
  <2> QED
    BY <1>1, <1>2, <1>4, <2>3
<1> QED
  BY <1>3, <1>4

\* What an UPDATE of a class writes.
LEMMA UpdatedRows ==
  ASSUME RegistryTyped, NEW c \in DOMAIN Class, NEW armed \in BOOLEAN, NEW mut \in BOOLEAN
  PROVE  /\ Updated(c, armed, mut) \in SUBSET Row
         /\ Keys(Updated(c, armed, mut)) = Keys(table) \cap Class[c]
         /\ \A u \in Updated(c, armed, mut) :
              \E r \in table : /\ r.key \in Class[c] /\ u.key = r.key
                               /\ u.stamp = (IF armed THEN clock ELSE r.stamp)
                               /\ u.mutated <=> (mut \/ r.mutated)
<1> DEFINE new(row) == [row EXCEPT !.stamp = Restamped(row, armed), !.mutated = mut \/ @]
<1>1. Updated(c, armed, mut) = {new(row) : row \in {r \in table : r.key \in Class[c]}}
  BY DEF Updated
<1>2. ASSUME NEW r \in table
      PROVE  /\ new(r) \in Row /\ new(r).key = r.key
             /\ new(r).stamp = (IF armed THEN clock ELSE r.stamp)
             /\ new(r).mutated <=> (mut \/ r.mutated)
  <2>1. r \in Row /\ clock \in Instant
    BY DEF RegistryTyped
  <2> DEFINE st == Restamped(r, armed)
             mu == mut \/ r.mutated
             mid == [r EXCEPT !.stamp = st]
  <2>2. st = (IF armed THEN clock ELSE r.stamp) /\ st \in Instant
    BY <2>1 DEF Restamped, Row
  <2>3. mu \in BOOLEAN
    OBVIOUS
  <2>4. new(r) = [mid EXCEPT !.mutated = mu]
    BY Zenon
  <2> HIDE DEF st, mu, new
  <2>5. mid \in Row /\ mid.key = r.key /\ mid.stamp = st
    BY <2>1, <2>2 DEF Row
  <2> HIDE DEF mid
  <2>6. new(r) \in Row /\ new(r).key = mid.key /\ new(r).stamp = mid.stamp /\ new(r).mutated = mu
    BY <2>3, <2>4, <2>5 DEF Row
  <2> QED
    BY <2>2, <2>5, <2>6 DEF mu
<1> HIDE DEF new
<1>3. Keys(Updated(c, armed, mut)) = Keys(table) \cap Class[c]
  BY <1>1, <1>2 DEF Keys
<1> QED
  BY <1>1, <1>2, <1>3

\* The table after the rows of U took the place of those with their keys.
LEMMA WithRows ==
  ASSUME NEW U
  PROVE  /\ Keys(U) \subseteq Keys(table) => Keys(With(U)) = Keys(table)
         /\ \A row \in With(U) : row \in U \/ (row \in table /\ row.key \notin Keys(U))
         /\ \A row \in table : row.key \notin Keys(U) => row \in With(U)
         /\ U \subseteq With(U)
BY DEF With, Keys

-----------------------------------------------------------------------------
(* The registry: types, and what each step of the mutation writes.         *)

DbNext == Tick \/ Seed \/ Hold \/ Advance \/ Announce \/ Release \/ ApplyRest \/ MutationDies

ExtractNext ==
  \/ BeginExtract \/ WaitForReadiness \/ Stamp \/ ReadColumns \/ ReadRows \/ ReadCount
  \/ ReadWatermark \/ ReadIncremental \/ CheckHandOff \/ LandSnapshot

LEMMA MerchantInitInv == MerchantInit => MerchantInv
<1> SUFFICES ASSUME MerchantInit PROVE MerchantInv
  OBVIOUS
<1>1. Never \in Nat /\ SeedStamp < Never /\ 0 \in Instant /\ 0 \in 0..MaxSeeds
  BY MerchantAssumption DEF Never, SeedStamp, Instant
<1>2. NothingSeen \in Observation
  BY <1>1 DEF NothingSeen, Observation
<1>3. NoRun \in ExtractType
  BY <1>1, <1>2 DEF NoRun, ExtractType, RunAt
<1>4. NoRun.at = "off" /\ NoRun.t2 = Never /\ NoRun.seen = NothingSeen /\ NothingSeen.since = Never
  BY DEF NoRun, NothingSeen
<1>5. RegistryTyped
  BY <1>1, <1>3, <1>4 DEF MerchantInit, RegistryTyped, MutationState
<1>6. TableIsMutated
  BY DEF MerchantInit, TableIsMutated, Held
<1>7. ObservedInOrder /\ ReadSoFar /\ LandedAsRead
  BY <1>4 DEF MerchantInit, ObservedInOrder, ReadSoFar, LandedAsRead, Seen, Stamped
<1> QED
  BY <1>5, <1>6, <1>7 DEF MerchantInv

\* The stamps are instants, in order.
LEMMA StampsAreNaturals ==
  /\ Instant \subseteq Nat /\ Horizon \in Nat /\ Never = Horizon + 1 /\ Never \notin Instant
  /\ SeedStamp = 0 /\ SeedStamp \in Instant
BY MerchantAssumption DEF Instant, Never, SeedStamp

LEMMA SeedStep ==
  ASSUME MerchantInv, Seed
  PROVE  /\ table' \in SUBSET Row /\ \A row \in table' : row.stamp <= clock
         /\ TableIsMutated'
<1> DEFINE seed(k) == [key |-> k, stamp |-> SeedStamp, mutated |-> FALSE]
<1>1. table' = {seed(k) : k \in Seeded} /\ mutation' = "none"
  BY DEF Seed
<1>2. \A k \in Seeded : seed(k) \in Row
  BY StampsAreNaturals DEF Seeded, Row
<1>a. \A k \in Seeded : seed(k).key = k /\ seed(k).stamp = SeedStamp /\ seed(k).mutated = FALSE
  OBVIOUS
<1> HIDE DEF seed
<1>3. \A row \in table' : row.key \in Seeded /\ row.stamp = SeedStamp /\ row.mutated = FALSE
  BY <1>1, <1>a
<1>4. table' \in SUBSET Row /\ Keys(table') = Seeded
  BY <1>1, <1>2, <1>a DEF Keys
<1>5. \A row \in table' : row.stamp <= clock
  BY <1>3, StampsAreNaturals DEF MerchantInv, RegistryTyped
<1>6. Keys(table') = Present("none") /\ \A k : ~Mutated(k, "none")
  BY <1>4 DEF Present, Inserted, Mutated, Released, Rewritten, Silenced
<1>7. \A row \in table' : StampIs(row, "none")'
  BY <1>3 DEF StampIs, Released, Advanced, Rewritten
<1>8. pending' = {}
  BY DEF Seed, MerchantInv, TableIsMutated, Held
<1> QED
  BY <1>1, <1>3, <1>4, <1>5, <1>6, <1>7, <1>8 DEF TableIsMutated, Held

\* The registry of a state of the mutation, put together.
LEMMA TableIs ==
  ASSUME NEW d, mutation' = d, d \notin {"none", "over"},
         Keys(table') = Present(d), t1' \in Instant, SeedStamp < t1', Seeded # {},
         \A row \in table' : (row.mutated <=> Mutated(row.key, d)) /\ StampIs(row, d)',
         d \in Held => /\ Keys(pending') = Class["held"]
                       /\ \A row \in pending' : row.mutated /\ row.stamp = t1',
         d \notin Held => pending' = {}
  PROVE  TableIsMutated'
<1>1. Present(mutation)' = Present(d)
  BY DEF Present
<1>2. \A row : StampIs(row, mutation)' <=> StampIs(row, d)'
  BY DEF StampIs
<1>3. \A k : Mutated(k, mutation)' <=> Mutated(k, d)
  BY DEF Mutated
<1>4. Keys(table)' = Keys(table') /\ Keys(pending)' = Keys(pending')
  BY DEF Keys
<1>5. (mutation # "over" =>
       /\ Keys(table) = Present(mutation)
       /\ \A row \in table : /\ row.mutated <=> Mutated(row.key, mutation)
                             /\ StampIs(row, mutation)
       /\ mutation # "none" => t1 \in Instant /\ SeedStamp < t1 /\ Seeded # {})'
  BY <1>1, <1>2, <1>3, <1>4
<1>6. (IF mutation \in Held
         THEN /\ Keys(pending) = Class["held"]
              /\ \A row \in pending : row.mutated /\ row.stamp = t1
         ELSE pending = {})'
  BY <1>4
<1> QED
  BY <1>5, <1>6 DEF TableIsMutated

LEMMA HoldStep ==
  ASSUME MerchantInv, Hold
  PROVE  /\ pending' \in SUBSET Row /\ (\A row \in pending' : row.stamp <= clock)
         /\ t1' \in Instant \cup {Never} /\ TableIsMutated'
<1>0. /\ RegistryTyped /\ TableIsMutated /\ clock \in Instant /\ mutation = "none"
      /\ UNCHANGED <<table, clock>>
  BY DEF Hold, MerchantInv, RegistryTyped
<1>1. CASE mutation' = "over"
  BY <1>0, <1>1 DEF Hold, TableIsMutated, Held, RegistryTyped
<1>2. CASE mutation' # "over"
  <2>1. /\ mutation' = "held" /\ pending' = Updated("held", TRUE, TRUE) /\ t1' = clock
        /\ SeedStamp < clock
    BY <1>2 DEF Hold
  <2>2. Keys(table) = Seeded
    BY <1>0 DEF TableIsMutated, Present, Inserted
  <2>a. Seeded # {}
    <3>1. Watermark(table) = SeedStamp /\ table \in SUBSET Row
      BY <1>0, <1>2 DEF Hold, RegistryTyped
    <3>2. table # {}
      BY <3>1, WatermarkIsLatest, StampsAreNaturals
    <3> QED
      BY <2>2, <3>2 DEF Keys
  <2>3. /\ pending' \in SUBSET Row /\ Keys(pending') = Class["held"]
        /\ \A u \in pending' : u.stamp = clock /\ u.mutated
    <3>1. "held" \in DOMAIN Class /\ Class["held"] \subseteq Seeded
      BY ClassesApart
    <3>2. /\ Updated("held", TRUE, TRUE) \in SUBSET Row
          /\ Keys(Updated("held", TRUE, TRUE)) = Keys(table) \cap Class["held"]
          /\ \A u \in Updated("held", TRUE, TRUE) : u.stamp = clock /\ u.mutated
      BY <1>0, <3>1, UpdatedRows
    <3> QED
      BY <2>1, <2>2, <3>1, <3>2
  <2>4. Present("held") = Present("none") /\ \A k : Mutated(k, "held") <=> Mutated(k, "none")
    BY DEF Present, Inserted, Mutated, Released, Rewritten, Silenced
  <2>5. \A row : StampIs(row, "none") => StampIs(row, "held")'
    BY DEF StampIs, Released, Advanced, Rewritten
  <2> QED
    <3>1. \A row \in pending' : row.stamp <= clock
      BY <1>0, <2>3, StampsAreNaturals
    <3>2. Keys(table') = Present("held") /\ t1' \in Instant /\ SeedStamp < t1'
      <4>1. Keys(table) = Present("none")
        BY <1>0 DEF TableIsMutated
      <4>2. Keys(table') = Keys(table)
        BY <1>0
      <4>3. t1' \in Instant /\ SeedStamp < t1'
        BY <1>0, <2>1
      <4> QED
        BY <2>4, <4>1, <4>2, <4>3
    <3>3. \A row \in table' : (row.mutated <=> Mutated(row.key, "held")) /\ StampIs(row, "held")'
      BY <1>0, <2>4, <2>5 DEF TableIsMutated
    <3> QED
      BY <2>1, <2>3, <2>a, <3>1, <3>2, <3>3, TableIs DEF Held
<1> QED
  BY <1>1, <1>2

\* A write of one class, from one state of the mutation to the next: what has to
\* hold of the class's new rows for the table to be that of the next state.
LEMMA ClassWritten ==
  ASSUME MerchantInv, mutation \notin {"none", "over"}, UNCHANGED t1,
         NEW d, mutation' = d,
         NEW c \in DOMAIN Class, c # "insert", NEW U \in SUBSET Row,
         Keys(U) = Keys(table) \cap Class[c], table' = With(U), d \notin {"none", "over"},
         Present(d) = Present(mutation),
         \A k \in Merchants \ Class[c] : Mutated(k, d) <=> Mutated(k, mutation),
         \A row \in Row : row.key \notin Class[c] /\ StampIs(row, mutation) => StampIs(row, d),
         \A u \in U : /\ u.mutated <=> Mutated(u.key, d)
                      /\ StampIs(u, d) /\ u.stamp <= clock
  PROVE  /\ table' \in SUBSET Row /\ \A row \in table' : row.stamp <= clock
         /\ Keys(table') = Present(d)
         /\ \A row \in table' : /\ row.mutated <=> Mutated(row.key, d)
                                /\ StampIs(row, d)'
         /\ t1' \in Instant /\ SeedStamp < t1' /\ Seeded # {}
<1>1. /\ table \in SUBSET Row /\ \A row \in table : row.stamp <= clock
      /\ Keys(table) = Present(mutation) /\ t1 \in Instant /\ SeedStamp < t1 /\ Seeded # {}
      /\ \A row \in table : (row.mutated <=> Mutated(row.key, mutation)) /\ StampIs(row, mutation)
  BY DEF MerchantInv, RegistryTyped, TableIsMutated
<1>2. Keys(table') = Keys(table)
  BY WithRows
<1>3. \A row : StampIs(row, d) => StampIs(row, d)'
  BY DEF StampIs
<1>4. ASSUME NEW row \in table'
      PROVE  /\ row \in Row /\ row.stamp <= clock /\ (row.mutated <=> Mutated(row.key, d))
             /\ StampIs(row, d)
  <2>1. CASE row \in U
    BY <2>1
  <2>2. CASE row \in table /\ row.key \notin Keys(U)
    <3>1. row.key \notin Class[c] /\ row.key \in Merchants
      BY <1>1, <2>2 DEF Keys, Row
    <3> QED
      BY <1>1, <2>2, <3>1
  <2> QED
    BY <2>1, <2>2, WithRows
<1> QED
  BY <1>1, <1>2, <1>3, <1>4

LEMMA AdvanceStep ==
  ASSUME MerchantInv, Advance
  PROVE  /\ table' \in SUBSET Row /\ \A row \in table' : row.stamp <= clock
         /\ TableIsMutated'
<1> DEFINE U == Updated("advance", TRUE, FALSE)
<1>0. /\ RegistryTyped /\ TableIsMutated /\ clock \in Instant /\ mutation = "held"
      /\ table' = With(U) /\ UNCHANGED <<clock, t1>> /\ mutation' \in {"early", "over"}
      /\ (\A row \in table : row.stamp <= clock) /\ table \in SUBSET Row
  BY DEF Advance, MerchantInv, RegistryTyped
<1>1. "advance" \in DOMAIN Class
  BY ClassesApart
<1>2. /\ U \in SUBSET Row /\ Keys(U) = Keys(table) \cap Class["advance"]
      /\ \A u \in U : \E r \in table : /\ r.key \in Class["advance"] /\ u.key = r.key
                                       /\ u.stamp = clock /\ (u.mutated <=> r.mutated)
  BY <1>0, <1>1, UpdatedRows
<1> HIDE DEF U
<1>3. CASE mutation' = "over"
  <2>1. table' \in SUBSET Row /\ \A row \in table' : row.stamp <= clock
    BY <1>0, <1>2, WithRows, StampsAreNaturals
  <2>2. pending' = {}
    BY <1>3 DEF Advance
  <2> QED
    BY <1>3, <2>1, <2>2 DEF TableIsMutated, Held
<1>4. CASE mutation' = "early"
  <2>1. clock > t1 /\ UNCHANGED pending
    BY <1>4 DEF Advance
  <2>2. Present("early") = Present(mutation)
    BY <1>0 DEF Present, Inserted
  <2>3. \A k \in Merchants : Mutated(k, "early") <=> Mutated(k, mutation)
    BY <1>0 DEF Mutated, Released, Rewritten, Silenced
  <2>4. \A row \in Row : row.key \notin Class["advance"] /\ StampIs(row, mutation) => StampIs(row, "early")
    BY <1>0 DEF StampIs, Released, Rewritten, Advanced
  <2>5. ASSUME NEW u \in U
        PROVE  (u.mutated <=> Mutated(u.key, "early")) /\ StampIs(u, "early") /\ u.stamp <= clock
    <3>1. PICK r \in table : /\ r.key \in Class["advance"] /\ u.key = r.key
                             /\ u.stamp = clock /\ (u.mutated <=> r.mutated)
      BY <1>2
    <3>2. r.mutated <=> Mutated(r.key, mutation)
      BY <1>0 DEF TableIsMutated
    <3>3. u.mutated <=> Mutated(u.key, "early")
      BY <1>0, <2>3, <3>1, <3>2 DEF Row
    <3>4. StampIs(u, "early")
      BY <2>1, <3>1, <1>0, ClassesApart, StampsAreNaturals DEF StampIs, Advanced, RegistryTyped
    <3> QED
      BY <1>0, <3>1, <3>3, <3>4, StampsAreNaturals
  <2>6. /\ table' \in SUBSET Row /\ \A row \in table' : row.stamp <= clock
        /\ Keys(table') = Present("early")
        /\ \A row \in table' : (row.mutated <=> Mutated(row.key, "early")) /\ StampIs(row, "early")'
        /\ t1' \in Instant /\ SeedStamp < t1' /\ Seeded # {}
    BY <1>0, <1>1, <1>2, <1>4, <2>2, <2>3, <2>4, <2>5, ClassWritten
  <2>7. Keys(pending') = Class["held"] /\ \A row \in pending' : row.mutated /\ row.stamp = t1'
    BY <1>0, <2>1 DEF TableIsMutated, Held
  <2> QED
    BY <1>4, <2>6, <2>7, TableIs DEF Held
<1> QED
  BY <1>0, <1>3, <1>4

LEMMA ReleaseStep ==
  ASSUME MerchantInv, Release
  PROVE  /\ table' \in SUBSET Row /\ \A row \in table' : row.stamp <= clock
         /\ TableIsMutated'
<1>0. /\ RegistryTyped /\ TableIsMutated /\ clock \in Instant /\ mutation = "announced"
      /\ table' = With(pending) /\ UNCHANGED <<clock, t1>> /\ mutation' = "insert" /\ pending' = {}
      /\ pending \in SUBSET Row
      /\ (\A row \in pending : row.stamp <= clock) /\ table \in SUBSET Row
  BY DEF Release, MerchantInv, RegistryTyped
<1>1. "held" \in DOMAIN Class /\ Class["held"] \subseteq Seeded
  BY ClassesApart
<1>2. /\ Keys(table) = Seeded /\ Keys(pending) = Class["held"] /\ t1 \in Instant
      /\ \A u \in pending : u.mutated /\ u.stamp = t1
  BY <1>0 DEF TableIsMutated, Held, Present, Inserted
<1>3. Keys(pending) = Keys(table) \cap Class["held"]
  BY <1>1, <1>2
<1>4. Present("insert") = Present(mutation)
  BY <1>0 DEF Present, Inserted
<1>5. \A k \in Merchants \ Class["held"] : Mutated(k, "insert") <=> Mutated(k, mutation)
  BY <1>0 DEF Mutated, Rewritten, Silenced
<1>6. \A row \in Row : row.key \notin Class["held"] /\ StampIs(row, mutation) => StampIs(row, "insert")
  BY <1>0 DEF StampIs, Rewritten, Advanced, Released
<1>7. \A u \in pending : u.key \in Class["held"]
  BY <1>2 DEF Keys
<1>8. \A u \in pending : u.mutated <=> Mutated(u.key, "insert")
  BY <1>2, <1>7 DEF Mutated, Released
<1>9. \A u \in pending : StampIs(u, "insert")
  BY <1>2, <1>7, ClassesApart DEF StampIs, Released
<1>10. /\ table' \in SUBSET Row /\ \A row \in table' : row.stamp <= clock
       /\ Keys(table') = Present("insert")
       /\ \A row \in table' : (row.mutated <=> Mutated(row.key, "insert")) /\ StampIs(row, "insert")'
       /\ t1' \in Instant /\ SeedStamp < t1' /\ Seeded # {}
  BY <1>0, <1>1, <1>3, <1>4, <1>5, <1>6, <1>8, <1>9, ClassWritten
<1> QED
  BY <1>0, <1>10, TableIs DEF Held

LEMMA ApplyStep ==
  ASSUME MerchantInv, ApplyRest
  PROVE  /\ table' \in SUBSET Row /\ \A row \in table' : row.stamp <= clock
         /\ TableIsMutated'
<1>0. /\ RegistryTyped /\ TableIsMutated /\ clock \in Instant
      /\ UNCHANGED <<clock, t1, pending>> /\ table \in SUBSET Row
      /\ \A row \in table : row.stamp <= clock
  BY DEF ApplyRest, MerchantInv, RegistryTyped
<1>1. mutation \in {"insert", "update", "silent", "delete"} /\ pending = {}
  BY <1>0 DEF ApplyRest, AfterThat, TableIsMutated, Held
<1>2. /\ Keys(table) = Present(mutation) /\ t1 \in Instant /\ SeedStamp < t1 /\ Seeded # {}
      /\ \A row \in table : (row.mutated <=> Mutated(row.key, mutation)) /\ StampIs(row, mutation)
  BY <1>0, <1>1 DEF TableIsMutated
<1>3. CASE mutation = "insert"
  <2> DEFINE new(k) == [key |-> k, stamp |-> clock, mutated |-> FALSE]
  <2>1. mutation' = "update" /\ table' = table \cup {new(k) : k \in Class["insert"]}
    BY <1>3 DEF ApplyRest, AfterThat
  <2>2. \A k \in Class["insert"] : /\ new(k) \in Row /\ new(k).key = k /\ new(k).stamp = clock
                                   /\ new(k).mutated = FALSE
    BY <1>0, ClassesApart DEF Row
  <2> HIDE DEF new
  <2>3. Keys(table') = Present("update")
    <3>1. Keys(table') = Keys(table) \cup Class["insert"]
      BY <2>1, <2>2 DEF Keys
    <3> QED
      BY <1>2, <1>3, <3>1 DEF Present, Inserted
  <2>4. \A k \in Merchants : Mutated(k, "update") <=> Mutated(k, mutation)
    BY <1>3 DEF Mutated, Released, Rewritten, Silenced
  <2>5. \A row : StampIs(row, mutation) => StampIs(row, "update")'
    BY <1>0, <1>3 DEF StampIs, Released, Rewritten, Advanced
  <2>6. ASSUME NEW row \in table', row \notin table
        PROVE  (row.mutated <=> Mutated(row.key, "update")) /\ StampIs(row, "update")'
    <3>1. row.key \in Class["insert"] /\ row.mutated = FALSE
      BY <2>1, <2>2, <2>6
    <3>2. /\ row.key \notin Class["held"] /\ row.key \notin Class["update"]
          /\ row.key \notin Class["silent"] /\ row.key \notin Class["delete"]
          /\ row.key \notin Class["untouched"] /\ row.key \notin Class["advance"]
      BY <3>1, ClassesApart
    <3> QED
      BY <3>1, <3>2 DEF Mutated, StampIs
  <2>7. \A row \in table : row.key \in Merchants
    BY <1>0 DEF Row
  <2>8. \A row \in table' : (row.mutated <=> Mutated(row.key, "update")) /\ StampIs(row, "update")'
    BY <1>2, <2>1, <2>4, <2>5, <2>6, <2>7
  <2>9. table' \in SUBSET Row /\ \A row \in table' : row.stamp <= clock
    BY <1>0, <2>1, <2>2, StampsAreNaturals
  <2> QED
    BY <1>0, <1>1, <1>2, <2>1, <2>3, <2>8, <2>9, TableIs DEF Held
<1>4. CASE mutation = "update"
  <2> DEFINE U == Updated("update", TRUE, TRUE)
  <2>1. mutation' = "silent" /\ table' = With(U)
    BY <1>4 DEF ApplyRest, AfterThat
  <2>0. "update" \in DOMAIN Class
    BY ClassesApart
  <2>2. /\ U \in SUBSET Row /\ Keys(U) = Keys(table) \cap Class["update"]
        /\ \A u \in U : u.key \in Class["update"] /\ u.stamp = clock /\ u.mutated
    BY <1>0, <2>0, UpdatedRows
  <2> HIDE DEF U
  <2>3. Present("silent") = Present(mutation)
    BY <1>4 DEF Present, Inserted
  <2>4. \A k \in Merchants \ Class["update"] : Mutated(k, "silent") <=> Mutated(k, mutation)
    BY <1>4 DEF Mutated, Released, Rewritten, Silenced
  <2>5. \A row \in Row : row.key \notin Class["update"] /\ StampIs(row, mutation) => StampIs(row, "silent")
    BY <1>4 DEF StampIs, Released, Rewritten, Advanced
  <2>6. ASSUME NEW u \in U
        PROVE  (u.mutated <=> Mutated(u.key, "silent")) /\ StampIs(u, "silent") /\ u.stamp <= clock
    <3>1. /\ u.key \notin Class["held"] /\ u.key \notin Class["silent"] /\ u.key \notin Class["delete"]
          /\ u.key \notin Class["untouched"] /\ u.key \notin Class["advance"]
      BY <2>2, ClassesApart
    <3> QED
      BY <1>0, <2>2, <3>1, StampsAreNaturals DEF Mutated, StampIs, Rewritten
  <2>7. /\ table' \in SUBSET Row /\ \A row \in table' : row.stamp <= clock
        /\ Keys(table') = Present("silent")
        /\ \A row \in table' : (row.mutated <=> Mutated(row.key, "silent")) /\ StampIs(row, "silent")'
        /\ t1' \in Instant /\ SeedStamp < t1' /\ Seeded # {}
    BY <1>0, <1>4, <2>0, <2>1, <2>2, <2>3, <2>4, <2>5, <2>6, ClassWritten
  <2> QED
    BY <1>0, <1>1, <2>1, <2>7, TableIs DEF Held
<1>5. CASE mutation = "silent"
  <2> DEFINE U == Updated("silent", FALSE, TRUE)
  <2>1. mutation' = "delete" /\ table' = With(U)
    BY <1>5 DEF ApplyRest, AfterThat
  <2>0. "silent" \in DOMAIN Class
    BY ClassesApart
  <2>2. /\ U \in SUBSET Row /\ Keys(U) = Keys(table) \cap Class["silent"]
        /\ \A u \in U : /\ u.key \in Class["silent"] /\ u.mutated
                        /\ \E r \in table : r.key = u.key /\ u.stamp = r.stamp
    <3>1. /\ U \in SUBSET Row /\ Keys(U) = Keys(table) \cap Class["silent"]
          /\ \A u \in U : \E r \in table : /\ r.key \in Class["silent"] /\ u.key = r.key
                                           /\ u.stamp = (IF FALSE THEN clock ELSE r.stamp)
                                           /\ u.mutated <=> (TRUE \/ r.mutated)
      BY <1>0, <2>0, UpdatedRows
    <3> QED
      BY <3>1
  <2> HIDE DEF U
  <2>3. Present("delete") = Present(mutation)
    BY <1>5 DEF Present, Inserted
  <2>4. \A k \in Merchants \ Class["silent"] : Mutated(k, "delete") <=> Mutated(k, mutation)
    BY <1>5 DEF Mutated, Released, Rewritten, Silenced
  <2>5. \A row \in Row : row.key \notin Class["silent"] /\ StampIs(row, mutation) => StampIs(row, "delete")
    BY <1>5 DEF StampIs, Released, Rewritten, Advanced
  <2>6. ASSUME NEW u \in U
        PROVE  (u.mutated <=> Mutated(u.key, "delete")) /\ StampIs(u, "delete") /\ u.stamp <= clock
    <3>1. /\ u.key \notin Class["held"] /\ u.key \notin Class["update"] /\ u.key \notin Class["delete"]
          /\ u.key \notin Class["untouched"] /\ u.key \notin Class["advance"]
      BY <2>2, ClassesApart
    <3>2. u.stamp = SeedStamp
      BY <1>2, <2>2 DEF StampIs
    <3> QED
      BY <1>0, <2>2, <3>1, <3>2, StampsAreNaturals DEF Mutated, StampIs, Silenced
  <2>7. /\ table' \in SUBSET Row /\ \A row \in table' : row.stamp <= clock
        /\ Keys(table') = Present("delete")
        /\ \A row \in table' : (row.mutated <=> Mutated(row.key, "delete")) /\ StampIs(row, "delete")'
        /\ t1' \in Instant /\ SeedStamp < t1' /\ Seeded # {}
    BY <1>0, <1>5, <2>0, <2>1, <2>2, <2>3, <2>4, <2>5, <2>6, ClassWritten
  <2> QED
    BY <1>0, <1>1, <2>1, <2>7, TableIs DEF Held
<1>6. CASE mutation = "delete"
  <2>1. mutation' = "done" /\ table' = {row \in table : row.key \notin Class["delete"]}
    BY <1>6 DEF ApplyRest, AfterThat
  <2>2. Keys(table') = Present("done")
    <3>1. Keys(table') = Keys(table) \ Class["delete"]
      BY <2>1 DEF Keys
    <3>2. Keys(table) = Seeded \cup Class["insert"]
      BY <1>2, <1>6 DEF Present, Inserted
    <3> QED
      BY <3>1, <3>2 DEF Present, Inserted
  <2>3. \A k \in Merchants : Mutated(k, "done") <=> Mutated(k, mutation)
    BY <1>6 DEF Mutated, Released, Rewritten, Silenced
  <2>4. \A row : StampIs(row, mutation) => StampIs(row, "done")'
    BY <1>0, <1>6 DEF StampIs, Released, Rewritten, Advanced
  <2>5. \A row \in table' : (row.mutated <=> Mutated(row.key, "done")) /\ StampIs(row, "done")'
    BY <1>0, <1>2, <2>1, <2>3, <2>4 DEF Row
  <2>6. table' \in SUBSET Row /\ \A row \in table' : row.stamp <= clock
    BY <1>0, <2>1
  <2> QED
    BY <1>0, <1>1, <1>2, <2>1, <2>2, <2>5, <2>6, TableIs DEF Held
<1> QED
  BY <1>1, <1>3, <1>4, <1>5, <1>6

LEMMA DbLeaves ==
  ASSUME DbNext
  PROVE  UNCHANGED <<extract, landed>> /\ (~Seed => UNCHANGED created)
         /\ (Seed => created' = created + 1 /\ created < MaxSeeds)
BY DEF DbNext, Tick, Seed, Hold, Advance, Announce, Release, ApplyRest, MutationDies

LEMMA DbTypes ==
  ASSUME MerchantInv, DbNext
  PROVE  RegistryTyped' /\ TableIsMutated'
<1>0. /\ RegistryTyped /\ TableIsMutated /\ created \in 0..MaxSeeds /\ MaxSeeds \in Nat
      /\ clock \in Instant /\ \A row \in table \cup pending : row.stamp <= clock
  BY MerchantAssumption DEF MerchantInv, RegistryTyped
<1>1. UNCHANGED <<extract, landed>> /\ created' \in 0..MaxSeeds
  BY <1>0, DbLeaves
<1>2. CASE Tick
  <2>1. clock' \in Instant /\ clock <= clock' /\ \A row \in table \cup pending : row.stamp <= clock'
    BY <1>0, <1>2, StampsAreNaturals DEF Tick, Instant, RegistryTyped, Row
  <2>2. UNCHANGED <<table, mutation, pending, t1, ready>>
    BY <1>2 DEF Tick
  <2>3. TableIsMutated'
    BY <1>0, <2>2 DEF TableIsMutated, StampIs, Keys
  <2> QED
    BY <1>0, <1>1, <2>1, <2>2, <2>3 DEF RegistryTyped
<1>3. CASE Seed
  <2>1. UNCHANGED <<clock, pending, t1, ready>> /\ mutation' = "none"
    BY <1>3 DEF Seed
  <2> QED
    BY <1>0, <1>1, <1>3, <2>1, SeedStep DEF RegistryTyped, MutationState
<1>4. CASE Hold
  <2>1. UNCHANGED <<clock, table, ready>> /\ mutation' \in {"held", "over"}
    BY <1>4 DEF Hold
  <2> QED
    BY <1>0, <1>1, <1>4, <2>1, HoldStep DEF RegistryTyped, MutationState
<1>5. CASE Advance
  <2>1. /\ UNCHANGED <<clock, t1, ready>> /\ mutation' \in {"early", "over"}
        /\ pending' \in {pending, {}}
    BY <1>5 DEF Advance
  <2> QED
    BY <1>0, <1>1, <1>5, <2>1, AdvanceStep DEF RegistryTyped, MutationState
<1>6. CASE Announce
  <2> DEFINE A == {row \in table : row.key \in Class["advance"]}
  <2>1. /\ UNCHANGED <<clock, table, pending, t1>> /\ mutation = "early" /\ mutation' = "announced"
        /\ ready' = Watermark(A)
    BY <1>6 DEF Announce
  <2>2. A \in SUBSET Row /\ t1 \in Instant /\ SeedStamp < t1 /\ Seeded # {}
    BY <1>0, <2>1 DEF RegistryTyped, TableIsMutated
  <2>3. \A row \in A : t1 < row.stamp
    BY <1>0, <2>1 DEF TableIsMutated, StampIs, Advanced
  <2>4. ready' \in Instant \cup {Never} /\ SeedStamp < ready'
    <3> HIDE DEF A
    <3>1. Watermark(A) \in Instant \cup {Never}
      BY <2>2, WatermarkIsLatest
    <3>2. CASE A = {}
      <4>1. Watermark(A) = Never
        BY <2>2, <3>2, WatermarkIsLatest
      <4> QED
        BY <2>1, <4>1, StampsAreNaturals
    <3>3. CASE A # {}
      <4>1. PICK row \in A : row.stamp = Watermark(A)
        BY <2>2, <3>3, WatermarkIsLatest
      <4>2. t1 < row.stamp /\ row.stamp \in Instant
        BY <2>2, <2>3 DEF Row
      <4>3. t1 \in Nat /\ row.stamp \in Nat /\ SeedStamp \in Nat
        BY <2>2, <4>2, StampsAreNaturals
      <4>4. SeedStamp < row.stamp
        BY <2>2, <4>2, <4>3
      <4> QED
        BY <2>1, <3>1, <4>1, <4>4
    <3> QED
      BY <3>2, <3>3, <3>1, <2>1
  <2>5. TableIsMutated'
    <3>1. Present("announced") = Present("early")
      BY DEF Present, Inserted
    <3>2. \A k : Mutated(k, "announced") <=> Mutated(k, "early")
      BY DEF Mutated, Released, Rewritten, Silenced
    <3>3. \A row : StampIs(row, "early") => StampIs(row, "announced")'
      BY <2>1 DEF StampIs, Released, Rewritten, Advanced
    <3>4. /\ Keys(table') = Present("announced") /\ t1' \in Instant /\ SeedStamp < t1'
          /\ \A row \in table' : (row.mutated <=> Mutated(row.key, "announced"))
                                 /\ StampIs(row, "announced")'
      BY <1>0, <2>1, <2>2, <3>1, <3>2, <3>3 DEF TableIsMutated
    <3>5. Keys(pending') = Class["held"] /\ \A row \in pending' : row.mutated /\ row.stamp = t1'
      BY <1>0, <2>1 DEF TableIsMutated, Held
    <3> QED
      BY <2>1, <2>2, <3>4, <3>5, TableIs DEF Held
  <2> QED
    BY <1>0, <1>1, <2>1, <2>4, <2>5 DEF RegistryTyped, MutationState
<1>7. CASE Release
  <2>1. /\ UNCHANGED <<clock, t1, ready>> /\ mutation' = "insert" /\ pending' = {}
    BY <1>7 DEF Release
  <2> QED
    BY <1>0, <1>1, <1>7, <2>1, ReleaseStep DEF RegistryTyped, MutationState
<1>8. CASE ApplyRest
  <2>1. /\ UNCHANGED <<clock, t1, ready, pending>> /\ mutation' \in {"update", "silent", "delete", "done"}
    BY <1>8 DEF ApplyRest, AfterThat
  <2> QED
    BY <1>0, <1>1, <1>8, <2>1, ApplyStep DEF RegistryTyped, MutationState
<1>9. CASE MutationDies
  <2>1. /\ UNCHANGED <<clock, table, t1, ready>> /\ mutation' = "over" /\ pending' = {}
    BY <1>9 DEF MutationDies
  <2>2. TableIsMutated'
    BY <2>1 DEF TableIsMutated, Held
  <2> QED
    BY <1>0, <1>1, <2>1, <2>2 DEF RegistryTyped, MutationState
<1> QED
  BY <1>2, <1>3, <1>4, <1>5, <1>6, <1>7, <1>8, <1>9 DEF DbNext

-----------------------------------------------------------------------------
(* What the observations show while the registry moves on.                 *)

\* The part of HeldShows that the registry may take away: every case of a later
\* write that an earlier stamp is compared with.
Compared(m) ==
  /\ mutation # "none"
  /\ mutation # "over" =>
       /\ \A x \in m.truth : x.stamp = SeedStamp \/ t1 < x.stamp
       /\ mutation \in Held \cup {"insert", "update"} =>
            \A x \in m.truth : \E row \in table : x.stamp <= row.stamp
       /\ \A x \in m.truth, row \in table :
            \/ row.key \in Class["insert"]
            \/ row.key \in Class["update"] /\ mutation \in Rewritten
            => x.stamp < row.stamp

LEMMA HeldStays ==
  ASSUME MerchantInv, DbNext, ~Seed, NEW m \in Seen, m.held, m.created = created
  PROVE  Compared(m)'
<1>0. /\ RegistryTyped /\ TableIsMutated /\ Compared(m)
      /\ table \in SUBSET Row /\ table' \in SUBSET Row /\ TableIsMutated'
      /\ \A row \in table : row.stamp <= clock
      /\ clock \in Instant
  BY DbTypes DEF MerchantInv, ObservedInOrder, HeldShows, Compared, RegistryTyped
<1>1. \A x \in m.truth : x.stamp \in Instant
  BY DEF MerchantInv, RegistryTyped, ExtractType, Seen, Observation, Row
<1>2. \A row \in table \cup table' : row.stamp \in Nat /\ row.key \in Merchants
  BY <1>0, StampsAreNaturals DEF Row
<1>3. mutation # "none" /\ ~Hold
  BY <1>0 DEF Compared, Hold
<1>4. CASE Tick \/ Announce
  BY <1>0, <1>3, <1>4 DEF Tick, Announce, Compared, Held, Rewritten
<1>5. CASE Advance
  <2> DEFINE U == Updated("advance", TRUE, FALSE)
  <2>1. /\ table' = With(U) /\ UNCHANGED t1 /\ mutation = "held" /\ mutation' \in {"early", "over"}
    BY <1>5 DEF Advance
  <2>0. "advance" \in DOMAIN Class
    BY ClassesApart
  <2>2. Keys(U) = Keys(table) \cap Class["advance"] /\ \A u \in U : u.stamp = clock
    BY <1>0, <2>0, UpdatedRows
  <2> HIDE DEF U
  <2>3. ASSUME NEW x \in m.truth PROVE \E row \in table' : x.stamp <= row.stamp
    <3>1. PICK r \in table : x.stamp <= r.stamp
      BY <1>0, <2>1 DEF Compared, Held
    <3>2. CASE r.key \in Keys(U)
      <4>1. PICK u \in U : u.key = r.key
        BY <3>2 DEF Keys
      <4>2. u \in table' /\ u.stamp = clock
        BY <2>1, <2>2, <4>1, WithRows
      <4>3. x.stamp \in Nat /\ r.stamp \in Nat /\ clock \in Nat /\ r.stamp <= clock
        BY <1>0, <1>1, <1>2, StampsAreNaturals
      <4>4. x.stamp <= clock
        BY <3>1, <4>3
      <4> QED
        BY <4>2, <4>4
    <3>3. CASE r.key \notin Keys(U)
      BY <2>1, <3>1, <3>3, WithRows
    <3> QED
      BY <3>2, <3>3
  <2>4. mutation' = "early" => Keys(table') = Seeded
    BY <1>0, <2>1 DEF TableIsMutated, Present, Inserted, Keys
  <2>5. mutation' = "early" => \A row \in table' : row.key \notin Class["insert"]
    BY <2>4 DEF Keys, Seeded
  <2>6. "early" \notin Rewritten
    BY DEF Rewritten
  <2> QED
    BY <1>0, <2>1, <2>3, <2>5, <2>6 DEF Compared, Held
<1>6. CASE Release
  <2>1. /\ table' = With(pending) /\ UNCHANGED t1 /\ mutation = "announced" /\ mutation' = "insert"
    BY <1>6 DEF Release
  <2>2. /\ Keys(pending) = Class["held"] /\ t1 \in Instant /\ SeedStamp < t1
        /\ \A u \in pending : u.stamp = t1
        /\ \A row \in table : row.key \in Class["held"] => row.stamp = SeedStamp
    BY <1>0, <2>1 DEF TableIsMutated, Held, StampIs, Released
  <2>3. ASSUME NEW x \in m.truth PROVE \E row \in table' : x.stamp <= row.stamp
    <3>1. PICK r \in table : x.stamp <= r.stamp
      BY <1>0, <2>1 DEF Compared, Held
    <3>2. CASE r.key \in Class["held"]
      <4>1. PICK u \in pending : u.key = r.key
        BY <2>2, <3>2 DEF Keys
      <4>2. u \in table' /\ u.stamp = t1 /\ r.stamp = SeedStamp
        BY <2>1, <2>2, <3>2, <4>1, WithRows
      <4>3. x.stamp \in Nat /\ r.stamp \in Nat /\ t1 \in Nat /\ SeedStamp \in Nat
        BY <1>1, <1>2, <2>2, StampsAreNaturals
      <4>4. x.stamp <= t1
        BY <2>2, <3>1, <4>2, <4>3
      <4> QED
        BY <4>2, <4>4
    <3>3. CASE r.key \notin Class["held"]
      BY <2>1, <2>2, <3>1, <3>3, WithRows
    <3> QED
      BY <3>2, <3>3
  <2>4. Keys(table') = Seeded
    BY <1>0, <2>1 DEF TableIsMutated, Present, Inserted, Keys
  <2>5. \A row \in table' : row.key \notin Class["insert"]
    BY <2>4 DEF Keys, Seeded
  <2>6. "insert" \notin Rewritten /\ "announced" \in Held
    BY DEF Rewritten, Held
  <2> QED
    BY <1>0, <2>1, <2>3, <2>5, <2>6 DEF Compared
<1>7. CASE ApplyRest
  <2>0. UNCHANGED <<t1, clock>>
    BY <1>7 DEF ApplyRest
  <2>1. CASE mutation \in {"insert", "update"}
    <3>1. Watermark(table) < clock
      BY <1>7, <2>1 DEF ApplyRest
    <3>2. ASSUME NEW x \in m.truth PROVE x.stamp < clock
      <4>1. PICK r \in table : x.stamp <= r.stamp
        BY <1>0, <2>1 DEF Compared
      <4>2. r.stamp <= Watermark(table) /\ Watermark(table) \in Instant
        BY <1>0, <4>1, WatermarkIsLatest
      <4>3. x.stamp \in Nat /\ r.stamp \in Nat /\ Watermark(table) \in Nat /\ clock \in Nat
        BY <1>0, <1>1, <1>2, <4>2, StampsAreNaturals
      <4> QED
        BY <3>1, <4>1, <4>2, <4>3
    <3>3. CASE mutation = "insert"
      <4> DEFINE new(k) == [key |-> k, stamp |-> clock, mutated |-> FALSE]
      <4>1. mutation' = "update" /\ table' = table \cup {new(k) : k \in Class["insert"]}
        BY <1>7, <3>3 DEF ApplyRest, AfterThat
      <4>2. \A k : new(k).stamp = clock
        OBVIOUS
      <4> HIDE DEF new
      <4>3. \A row \in table' : row \in table \/ row.stamp = clock
        BY <4>1, <4>2
      <4>4. \A row \in table : row.key \notin Class["insert"]
        BY <1>0, <3>3 DEF TableIsMutated, Present, Inserted, Keys, Seeded
      <4>5. "update" \notin Rewritten
        BY DEF Rewritten
      <4> QED
        BY <1>0, <2>0, <3>2, <3>3, <4>1, <4>3, <4>4, <4>5 DEF Compared
    <3>4. CASE mutation = "update"
      <4> DEFINE U == Updated("update", TRUE, TRUE)
      <4>1. mutation' = "silent" /\ table' = With(U)
        BY <1>7, <3>4 DEF ApplyRest, AfterThat
      <4>0. "update" \in DOMAIN Class
        BY ClassesApart
      <4>2. Keys(U) = Keys(table) \cap Class["update"] /\ \A u \in U : u.stamp = clock
        BY <1>0, <4>0, UpdatedRows
      <4> HIDE DEF U
      <4>3. \A row \in table' : row.stamp = clock \/ (row \in table /\ row.key \notin Class["update"])
        BY <4>1, <4>2, WithRows DEF Keys
      <4>4. "silent" \notin Held \cup {"insert", "update"}
        BY DEF Held
      <4> QED
        BY <1>0, <2>0, <3>2, <3>4, <4>1, <4>3, <4>4 DEF Compared
    <3> QED
      BY <2>1, <3>3, <3>4
  <2>2. CASE mutation = "silent"
    <3> DEFINE U == Updated("silent", FALSE, TRUE)
    <3>1. mutation' = "delete" /\ table' = With(U)
      BY <1>7, <2>2 DEF ApplyRest, AfterThat
    <3>0. "silent" \in DOMAIN Class
      BY ClassesApart
    <3>2. Keys(U) = Keys(table) \cap Class["silent"]
      BY <1>0, <3>0, UpdatedRows
    <3> HIDE DEF U
    <3>3. \A row \in table' : row.key \in Class["silent"] \/ row \in table
      BY <3>1, <3>2, WithRows DEF Keys
    <3>4. \A k \in Class["silent"] : k \notin Class["insert"] /\ k \notin Class["update"]
      BY ClassesApart
    <3>5. "delete" \notin Held \cup {"insert", "update"} /\ {"silent", "delete"} \subseteq Rewritten
      BY DEF Held, Rewritten
    <3> QED
      BY <1>0, <2>0, <2>2, <3>1, <3>3, <3>4, <3>5 DEF Compared
  <2>3. CASE mutation = "delete"
    <3>1. mutation' = "done" /\ table' \subseteq table
      BY <1>7, <2>3 DEF ApplyRest, AfterThat
    <3>2. "done" \notin Held \cup {"insert", "update"} /\ {"done", "delete"} \subseteq Rewritten
      BY DEF Held, Rewritten
    <3> QED
      BY <1>0, <2>0, <2>3, <3>1, <3>2 DEF Compared
  <2> QED
    BY <1>7, <2>1, <2>2, <2>3 DEF ApplyRest, AfterThat
<1>8. CASE MutationDies
  BY <1>8 DEF MutationDies, Compared
<1> QED
  BY <1>3, <1>4, <1>5, <1>6, <1>7, <1>8 DEF DbNext

\* The registry moves on under the observations, and they keep what they show.
LEMMA OrderUnderDb == ASSUME MerchantInv, DbNext PROVE ObservedInOrder'
<1>0. /\ ObservedInOrder /\ created \in 0..MaxSeeds /\ MaxSeeds \in Nat
      /\ landed \in SUBSET Observation /\ extract \in ExtractType
  BY MerchantAssumption DEF MerchantInv, RegistryTyped
<1>1. Seen' = Seen
  BY DbLeaves DEF Seen
<1>2. \A m \in Seen : m.created <= created /\ m.created \in Nat
  BY <1>0 DEF ObservedInOrder, Seen, ExtractType, Observation
<1>3. \A m \in Seen : m.created <= created' /\ (m.created = created' => ~Seed /\ m.created = created)
  BY <1>0, <1>2, DbLeaves
<1>4. ASSUME NEW m \in Seen, m.held PROVE HeldShows(m)'
  <2>1. Seeded # {} /\ Keys(m.truth) = Seeded /\ \A row \in m.truth : ~row.mutated
    BY <1>0, <1>4 DEF ObservedInOrder, HeldShows
  <2>2. m.created = created' => Compared(m)'
    BY <1>3, <1>4, HeldStays
  <2> QED
    BY <2>1, <2>2 DEF HeldShows, Compared, Keys
<1>5. ASSUME NEW m \in Seen, m.mutated PROVE MutatedShows(m)'
  <2>1. MutatedShows(m)
    BY <1>0, <1>5 DEF ObservedInOrder
  <2>2. m.created = created' => mutation' = "done"
    <3>1. SUFFICES ASSUME m.created = created' PROVE mutation' = "done"
      OBVIOUS
    <3>2. mutation = "done" /\ ~Seed
      BY <1>3, <2>1, <3>1 DEF MutatedShows
    <3> QED
      BY <3>2 DEF DbNext, Tick, Hold, Advance, Announce, Release, ApplyRest, MutationDies, AfterThat
  <2> QED
    BY <2>1, <2>2 DEF MutatedShows, Present, Mutated, Keys
<1>6. \A m1, m2 \in Seen : m1.created = m2.created /\ m1.held /\ m2.mutated => Between(m1, m2)'
  BY <1>0 DEF ObservedInOrder, Between
<1> QED
  BY <1>1, <1>3, <1>4, <1>5, <1>6 DEF ObservedInOrder

-----------------------------------------------------------------------------
(* The run: what each of its statements adds.                              *)

\* Two records of one observation, the later one with more of it read.
Alike(m, n) == m.truth = n.truth /\ m.created = n.created /\ (m.held <=> n.held) /\ (m.mutated <=> n.mutated)

\* The registry as it is, observed.
Stamps(m) ==
  /\ m.truth = table /\ m.created = created
  /\ (m.held <=> pending # {}) /\ (m.mutated <=> mutation = "done")

\* What a step of the run leaves.
RunStep ==
  /\ extract' \in ExtractType /\ SeedStamp < extract'.t2 /\ landed' \in SUBSET Observation
  /\ ReadSoFar' /\ LandedAsRead'
  /\ \A m \in Seen' : Stamps(m) \/ \E n \in Seen : Alike(m, n)

LEMMA Observed ==
  ASSUME MerchantInv, NEW next \in RunAt, NEW seen \in Observation, Observes(next, seen)
  PROVE  /\ extract' \in ExtractType /\ SeedStamp < extract'.t2 /\ landed' \in SUBSET Observation
         /\ extract'.at = next /\ extract'.seen = seen /\ extract'.t2 = extract.t2
         /\ UNCHANGED landed /\ UNCHANGED db /\ LandedAsRead'
<1>1. /\ extract \in ExtractType /\ SeedStamp < extract.t2 /\ landed \in SUBSET Observation
      /\ LandedAsRead
  BY DEF MerchantInv, RegistryTyped
<1>2. extract' = [extract EXCEPT !.at = next, !.seen = seen] /\ UNCHANGED landed /\ UNCHANGED db
  BY DEF Observes
<1>3. extract' = [at |-> next, t2 |-> extract.t2, seen |-> seen]
  BY <1>1, <1>2 DEF ExtractType
<1>4. extract' \in ExtractType
  BY <1>1, <1>3 DEF ExtractType
<1>5. LandedAsRead'
  BY <1>1, <1>2 DEF LandedAsRead
<1> QED
  BY <1>1, <1>2, <1>3, <1>4, <1>5

\* A run that refuses leaves nothing.
LEMMA Refused == ASSUME MerchantInv, extract' = NoRun, UNCHANGED landed PROVE RunStep
<1>1. NothingSeen \in Observation /\ NothingSeen.since = Never
  BY StampsAreNaturals, MerchantAssumption DEF NothingSeen, Observation, Instant
<1>2. NoRun.at = "off" /\ NoRun.t2 = Never /\ NoRun.seen = NothingSeen /\ NoRun \in ExtractType
  BY <1>1 DEF NoRun, ExtractType, RunAt
<1>3. SeedStamp < Never
  BY StampsAreNaturals
<1>4. landed \in SUBSET Observation /\ LandedAsRead
  BY DEF MerchantInv, RegistryTyped
<1>5. LandedAsRead'
  BY <1>4 DEF LandedAsRead
<1>6. ReadSoFar'
  BY <1>2 DEF ReadSoFar
<1>7. \A m \in Seen' : m \in Seen /\ Alike(m, m)
  BY <1>2 DEF Seen, Stamped, Alike
<1> QED
  BY <1>2, <1>3, <1>4, <1>5, <1>6, <1>7 DEF RunStep

\* A statement that reads leaves what was stamped.
LEMMA StillAlike ==
  ASSUME extract.at \in Stamped, UNCHANGED landed, Alike(extract'.seen, extract.seen)
  PROVE  \A m \in Seen' : \E n \in Seen : Alike(m, n)
<1>1. \A m \in Seen' : m \in landed \/ m = extract'.seen
  BY DEF Seen
<1>2. extract.seen \in Seen /\ landed \subseteq Seen
  BY DEF Seen
<1>3. \A m : Alike(m, m)
  BY DEF Alike
<1> QED
  BY <1>1, <1>2, <1>3

LEMMA ExtractStep == ASSUME MerchantInv, ExtractNext PROVE RunStep /\ UNCHANGED db
<1>0. /\ extract \in ExtractType /\ extract.seen \in Observation /\ SeedStamp < extract.t2
      /\ extract.t2 \in Instant \cup {Never}
      /\ landed \in SUBSET Observation /\ ReadSoFar /\ LandedAsRead /\ table \in SUBSET Row
      /\ clock \in Instant /\ created \in 0..MaxSeeds
  BY DEF MerchantInv, RegistryTyped, ExtractType
<1> DEFINE seen == extract.seen
<1>t. seen.truth \in SUBSET Row /\ Visible \in SUBSET Row /\ IsFiniteSet(Visible)
  <2>1. seen.truth \in SUBSET Row /\ Visible \in SUBSET Row
    BY <1>0 DEF Observation, Visible
  <2> QED
    BY <2>1, RowsFinite, FS_Subset
<1>1. CASE BeginExtract
  <2>1. PICK handOff \in BOOLEAN, since \in {m.watermark : m \in landed} \cup {Never} :
          /\ since # Never => handOff
          /\ Observes(IF handOff THEN "wait" ELSE "stamp",
                      [NothingSeen EXCEPT !.handOff = handOff, !.since = since])
    BY <1>1 DEF BeginExtract
  <2> DEFINE next == IF handOff THEN "wait" ELSE "stamp"
             new == [NothingSeen EXCEPT !.handOff = handOff, !.since = since]
  <2>2. since \in Instant \cup {Never}
    BY <1>0 DEF Observation
  <2> DEFINE mid == [NothingSeen EXCEPT !.handOff = handOff]
  <2>3. NothingSeen \in Observation
    BY StampsAreNaturals, MerchantAssumption DEF NothingSeen, Observation, Instant
  <2>a. mid \in Observation /\ mid.handOff = handOff
    BY <2>3 DEF Observation
  <2>b. new = [mid EXCEPT !.since = since]
    OBVIOUS
  <2> HIDE DEF mid, new
  <2>4. new \in Observation /\ new.since = since /\ new.handOff = handOff
    BY <2>2, <2>a, <2>b DEF Observation
  <2> USE DEF new
  <2>5. next \in RunAt /\ next \in {"wait", "stamp"}
    BY DEF RunAt
  <2> HIDE DEF next, new
  <2>6. Observes(next, new)
    BY <2>1 DEF next, new
  <2>7. /\ extract' \in ExtractType /\ SeedStamp < extract'.t2 /\ landed' \in SUBSET Observation
        /\ extract'.at = next /\ extract'.seen = new /\ UNCHANGED landed /\ UNCHANGED db
        /\ LandedAsRead'
    BY <2>4, <2>5, <2>6, Observed
  <2>8. ReadSoFar'
    BY <2>1, <2>4, <2>5, <2>7 DEF ReadSoFar
  <2>9. \A m \in Seen' : m \in Seen /\ Alike(m, m)
    BY <2>5, <2>7 DEF Seen, Stamped, Alike
  <2> QED
    BY <2>7, <2>8, <2>9 DEF RunStep
<1>2. CASE WaitForReadiness
  <2>1. CASE Refuses
    BY <2>1, Refused DEF Refuses
  <2>2. CASE ready # Never /\ extract' = [extract EXCEPT !.at = "stamp", !.t2 = ready]
             /\ UNCHANGED <<db, landed>>
    <3>1. extract' = [at |-> "stamp", t2 |-> ready, seen |-> seen]
      BY <1>0, <2>2 DEF ExtractType
    <3>2. extract' \in ExtractType /\ SeedStamp < extract'.t2
      BY <1>0, <3>1 DEF MerchantInv, RegistryTyped, ExtractType, RunAt
    <3>3. ReadSoFar'
      BY <1>0, <1>2, <3>1 DEF ReadSoFar, WaitForReadiness
    <3>4. \A m \in Seen' : m \in Seen /\ Alike(m, m)
      BY <2>2, <3>1 DEF Seen, Stamped, Alike
    <3>5. LandedAsRead'
      BY <1>0, <2>2 DEF LandedAsRead
    <3> QED
      BY <1>0, <2>2, <3>2, <3>3, <3>4, <3>5 DEF RunStep
  <2> QED
    BY <1>2, <2>1, <2>2 DEF WaitForReadiness, Refuses
<1>3. CASE Stamp
  <2> DEFINE new == [seen EXCEPT !.instant = clock, !.created = created, !.truth = table,
                                 !.held = (pending # {}), !.mutated = (mutation = "done")]
  <2>1. extract.at = "stamp" /\ Observes("columns", new)
    BY <1>3 DEF Stamp
  <2> DEFINE isHeld == pending # {}
             isDone == mutation = "done"
             mid == [seen EXCEPT !.instant = clock, !.created = created, !.truth = table]
  <2>2. isHeld \in BOOLEAN /\ isDone \in BOOLEAN
    OBVIOUS
  <2>a. new = [[mid EXCEPT !.held = isHeld] EXCEPT !.mutated = isDone]
    OBVIOUS
  <2>b. /\ mid \in Observation /\ mid.since = seen.since /\ mid.handOff = seen.handOff
        /\ mid.truth = table /\ mid.created = created
    BY <1>0 DEF Observation
  <2> HIDE DEF isHeld, isDone, mid, new
  <2>c. /\ new \in Observation /\ new.since = seen.since /\ new.handOff = seen.handOff
        /\ new.truth = table /\ new.created = created /\ new.held = isHeld /\ new.mutated = isDone
    BY <2>2, <2>a, <2>b DEF Observation
  <2> USE DEF new
  <2>3. /\ new \in Observation /\ new.since = seen.since /\ new.handOff = seen.handOff
        /\ Stamps(new)
    BY <2>c DEF Stamps, isHeld, isDone
  <2> HIDE DEF new
  <2>4. /\ extract' \in ExtractType /\ SeedStamp < extract'.t2 /\ landed' \in SUBSET Observation
        /\ extract'.at = "columns" /\ extract'.seen = new /\ UNCHANGED landed /\ UNCHANGED db
        /\ LandedAsRead'
    BY <2>1, <2>3, Observed DEF RunAt
  <2>5. ReadSoFar'
    BY <1>0, <2>1, <2>3, <2>4 DEF ReadSoFar
  <2>6. \A m \in Seen' : Stamps(m) \/ (m \in Seen /\ Alike(m, m))
    BY <2>3, <2>4 DEF Seen, Alike
  <2> QED
    BY <2>4, <2>5, <2>6 DEF RunStep
<1>4. CASE ReadColumns
  <2>1. CASE Refuses
    BY <2>1, Refused DEF Refuses
  <2>2. CASE Observes("rows", seen)
    <3>1. /\ extract' \in ExtractType /\ SeedStamp < extract'.t2 /\ landed' \in SUBSET Observation
          /\ extract'.at = "rows" /\ extract'.seen = seen /\ UNCHANGED landed /\ UNCHANGED db
          /\ LandedAsRead'
      BY <1>0, <2>2, Observed DEF RunAt
    <3>2. ReadSoFar'
      BY <1>0, <1>4, <3>1 DEF ReadSoFar, ReadColumns
    <3>3. Alike(extract'.seen, seen) /\ extract.at \in Stamped
      BY <1>4, <3>1 DEF Alike, ReadColumns, Stamped
    <3> QED
      BY <3>1, <3>2, <3>3, StillAlike DEF RunStep
  <2> QED
    BY <1>4, <2>1, <2>2 DEF ReadColumns, Refuses
<1>5. CASE ReadRows
  <2>1. PICK rows \in {Visible} \cup {Visible \ {row} : row \in Visible} :
          Observes("count", [seen EXCEPT !.rows = rows])
    BY <1>5 DEF ReadRows
  <2> DEFINE new == [seen EXCEPT !.rows = rows]
  <2>2. rows \subseteq Visible
    OBVIOUS
  <2>3. /\ new \in Observation /\ new.rows = rows /\ Alike(new, seen)
        /\ new.since = seen.since /\ new.handOff = seen.handOff
        /\ new.created = seen.created /\ new.truth = seen.truth
    BY <1>0, <1>t, <2>2 DEF Observation, Alike
  <2> HIDE DEF new
  <2>4. /\ extract' \in ExtractType /\ SeedStamp < extract'.t2 /\ landed' \in SUBSET Observation
        /\ extract'.at = "count" /\ extract'.seen = new /\ UNCHANGED landed /\ UNCHANGED db
        /\ LandedAsRead'
    BY <2>1, <2>3, Observed DEF RunAt, new
  <2>5. extract.at = "rows" /\ Visible' = Visible
    BY <1>5, <2>3, <2>4 DEF ReadRows, Visible, db
  <2>6. ReadSoFar'
    BY <1>0, <2>2, <2>3, <2>4, <2>5 DEF ReadSoFar
  <2>7. extract.at \in Stamped
    BY <2>5 DEF Stamped
  <2> QED
    BY <2>3, <2>4, <2>6, <2>7, StillAlike DEF RunStep
<1>6. CASE ReadCount
  <2>1. CASE Refuses
    BY <2>1, Refused DEF Refuses
  <2>2. CASE Cardinality(seen.rows) = Cardinality(Visible) /\ Observes("watermark", seen)
    <3>1. /\ extract' \in ExtractType /\ SeedStamp < extract'.t2 /\ landed' \in SUBSET Observation
          /\ extract'.at = "watermark" /\ extract'.seen = seen /\ UNCHANGED landed /\ UNCHANGED db
          /\ LandedAsRead'
      BY <1>0, <2>2, Observed DEF RunAt
    <3>2. extract.at = "count" /\ Visible' = Visible
      BY <1>6, <3>1 DEF ReadCount, Visible, db
    <3>3. seen.rows \subseteq Visible
      BY <1>0, <3>2 DEF ReadSoFar
    <3>4. seen.rows = Visible
      BY <1>t, <2>2, <3>3, FS_Subset
    <3>5. ReadSoFar'
      BY <1>0, <3>1, <3>2, <3>4 DEF ReadSoFar
    <3>6. Alike(extract'.seen, seen) /\ extract.at \in Stamped
      BY <3>1, <3>2 DEF Alike, Stamped
    <3> QED
      BY <3>1, <3>5, <3>6, StillAlike DEF RunStep
  <2> QED
    BY <1>6, <2>1, <2>2 DEF ReadCount, Refuses
<1>7. CASE ReadWatermark
  <2> DEFINE new == [seen EXCEPT !.watermark = Watermark(Visible)]
  <2>1. extract.at = "watermark" /\ Observes("incremental", new)
    BY <1>7 DEF ReadWatermark
  <2>2. Watermark(Visible) \in Instant \cup {Never}
    BY <1>t, WatermarkIsLatest
  <2>3. /\ new \in Observation /\ new.rows = seen.rows /\ Alike(new, seen)
        /\ new.watermark = Watermark(Visible)
        /\ new.since = seen.since /\ new.handOff = seen.handOff
        /\ new.created = seen.created /\ new.truth = seen.truth
    BY <1>0, <2>2 DEF Observation, Alike
  <2> HIDE DEF new
  <2>4. /\ extract' \in ExtractType /\ SeedStamp < extract'.t2 /\ landed' \in SUBSET Observation
        /\ extract'.at = "incremental" /\ extract'.seen = new /\ UNCHANGED landed /\ UNCHANGED db
        /\ LandedAsRead'
    BY <2>1, <2>3, Observed DEF RunAt
  <2>5. Visible' = Visible
    BY <2>3, <2>4 DEF Visible, db
  <2>6. ReadSoFar'
    BY <1>0, <2>1, <2>3, <2>4, <2>5 DEF ReadSoFar, Watermark
  <2>7. extract.at \in Stamped
    BY <2>1 DEF Stamped
  <2> QED
    BY <2>3, <2>4, <2>6, <2>7, StillAlike DEF RunStep
<1>8. CASE ReadIncremental
  <2> DEFINE keys == Incremental(Visible, seen.since)
             new == [seen EXCEPT !.keys = keys]
  <2>1. extract.at = "incremental" /\ Observes("check", new)
    BY <1>8 DEF ReadIncremental
  <2>2. keys \in SUBSET Merchants
    BY <1>t DEF Incremental, Row
  <2>a. /\ seen.rows = Visible /\ seen.watermark = Watermark(Visible)
        /\ seen.since # Never => seen.handOff
    BY <1>0, <2>1 DEF ReadSoFar
  <2> HIDE DEF keys
  <2>3. /\ new \in Observation /\ new.rows = seen.rows /\ Alike(new, seen)
        /\ new.watermark = seen.watermark /\ new.keys = keys
        /\ new.since = seen.since /\ new.handOff = seen.handOff
        /\ new.created = seen.created /\ new.truth = seen.truth
    BY <1>0, <2>2 DEF Observation, Alike
  <2> HIDE DEF new
  <2>4. /\ extract' \in ExtractType /\ SeedStamp < extract'.t2 /\ landed' \in SUBSET Observation
        /\ extract'.at = "check" /\ extract'.seen = new /\ UNCHANGED landed /\ UNCHANGED db
        /\ LandedAsRead'
    BY <2>1, <2>3, Observed DEF RunAt
  <2>5. Visible \in {seen.truth, {}}
    BY DEF Visible
  <2>6. /\ new.rows \in {new.truth, {}} /\ new.watermark = Watermark(new.rows)
        /\ new.keys = Incremental(new.rows, new.since) /\ (new.since # Never => new.handOff)
    BY <2>3, <2>5, <2>a DEF keys
  <2>7. ReadSoFar'
    BY <2>4, <2>6 DEF ReadSoFar, Watermark, Incremental
  <2>8. extract.at \in Stamped
    BY <2>1 DEF Stamped
  <2> QED
    BY <2>3, <2>4, <2>7, <2>8, StillAlike DEF RunStep
<1>9. CASE CheckHandOff
  <2>1. CASE Refuses
    BY <2>1, Refused DEF Refuses
  <2>2. CASE (seen.handOff => HandOffHolds(seen, extract.t2)) /\ Observes("land", seen)
    <3>1. /\ extract' \in ExtractType /\ SeedStamp < extract'.t2 /\ landed' \in SUBSET Observation
          /\ extract'.at = "land" /\ extract'.seen = seen /\ UNCHANGED landed /\ UNCHANGED db
          /\ LandedAsRead'
      BY <1>0, <2>2, Observed DEF RunAt
    <3>2. extract.at = "check"
      BY <1>9 DEF CheckHandOff
    <3>3. seen.handOff => seen.watermark # Never /\ (seen.since # Never => seen.since # SeedStamp)
      <4>1. Never \in Nat /\ Instant \subseteq Nat /\ SeedStamp \in Nat
        BY StampsAreNaturals
      <4>2. extract.t2 \in Nat
        BY <1>0, <4>1
      <4> QED
        BY <1>0, <2>2, <4>1, <4>2 DEF HandOffHolds, NotBefore
    <3>4. ReadSoFar'
      BY <1>0, <3>1, <3>2, <3>3 DEF ReadSoFar, Watermark, Incremental
    <3>5. Alike(extract'.seen, seen) /\ extract.at \in Stamped
      BY <3>1, <3>2 DEF Alike, Stamped
    <3> QED
      BY <3>1, <3>4, <3>5, StillAlike DEF RunStep
  <2> QED
    BY <1>9, <2>1, <2>2 DEF CheckHandOff, Refuses
<1>10. CASE LandSnapshot
  <2>1. /\ extract.at = "land" /\ extract' = NoRun /\ landed' \in {landed, landed \cup {seen}}
        /\ UNCHANGED db
    BY <1>10 DEF LandSnapshot
  <2>2. CASE landed' = landed
    BY <2>1, <2>2, Refused
  <2>3. CASE landed' = landed \cup {seen}
    <3>1. NothingSeen \in Observation /\ NothingSeen.since = Never
      BY StampsAreNaturals, MerchantAssumption DEF NothingSeen, Observation, Instant
    <3>2. NoRun.at = "off" /\ NoRun.t2 = Never /\ NoRun \in ExtractType /\ SeedStamp < Never
      BY <3>1, StampsAreNaturals DEF NoRun, ExtractType, RunAt
    <3>3. ReadSoFar'
      BY <2>1, <3>2 DEF ReadSoFar
    <3>4. /\ seen.rows \in {seen.truth, {}} /\ seen.watermark = Watermark(seen.rows)
          /\ seen.keys = Incremental(seen.rows, seen.since)
          /\ seen.since # Never => seen.handOff /\ seen.since # SeedStamp
          /\ seen.handOff => seen.watermark # Never
      BY <1>0, <2>1 DEF ReadSoFar
    <3>5. ASSUME NEW m \in landed'
          PROVE  /\ m.rows \in {m.truth, {}}
                 /\ m.watermark = Watermark(m.rows) /\ m.keys = Incremental(m.rows, m.since)
                 /\ m.since # Never => m.handOff /\ m.since # SeedStamp
                 /\ m.handOff => m.watermark # Never
      <4>1. CASE m \in landed
        BY <1>0, <4>1 DEF LandedAsRead
      <4>2. CASE m = seen
        BY <3>4, <4>2
      <4> QED
        BY <2>3, <4>1, <4>2
    <3>7. LandedAsRead'
      BY <3>5 DEF LandedAsRead
    <3>6. \A m \in Seen' : m \in Seen /\ Alike(m, m)
      BY <2>1, <2>3, <3>2 DEF Seen, Stamped, Alike
    <3> QED
      BY <1>0, <2>1, <2>3, <3>2, <3>3, <3>7, <3>6 DEF RunStep
  <2> QED
    BY <2>1, <2>2, <2>3
<1> QED
  <2>1. ExtractNext => UNCHANGED db
    BY DEF ExtractNext, BeginExtract, WaitForReadiness, Stamp, ReadColumns, ReadRows, ReadCount,
           ReadWatermark, ReadIncremental, CheckHandOff, LandSnapshot, Observes, Refuses
  <2> QED
    BY <1>1, <1>2, <1>3, <1>4, <1>5, <1>6, <1>7, <1>8, <1>9, <1>10, <2>1 DEF ExtractNext

\* An observation just stamped shows the registry as it is.
LEMMA StampShows ==
  ASSUME MerchantInv, NEW m, Stamps(m)
  PROVE  (m.held => HeldShows(m)) /\ (m.mutated => MutatedShows(m)) /\ ~(m.held /\ m.mutated)
<1>0. TableIsMutated /\ table \in SUBSET Row
  BY DEF MerchantInv, RegistryTyped
<1>1. m.truth = table /\ m.created = created /\ (m.held <=> pending # {}) /\ (m.mutated <=> mutation = "done")
  BY DEF Stamps
<1>2. \A row \in table : row.stamp \in Nat /\ row.key \in Merchants
  BY <1>0, StampsAreNaturals DEF Row
<1>3. ASSUME m.held PROVE HeldShows(m) /\ ~m.mutated
  <2>1. mutation \in Held
    BY <1>0, <1>1, <1>3 DEF TableIsMutated
  <2>2. /\ Keys(table) = Seeded /\ t1 \in Instant /\ Seeded # {}
        /\ \A row \in table : /\ row.mutated <=> Mutated(row.key, mutation)
                              /\ StampIs(row, mutation)
    BY <1>0, <2>1 DEF TableIsMutated, Held, Present, Inserted
  <2>3. \A row \in table : ~row.mutated
    BY <2>1, <2>2 DEF Mutated, Held, Released, Rewritten, Silenced
  <2>4. \A row \in table : row.key \in Seeded /\ row.key \notin Class["insert"]
    BY <2>2 DEF Keys, Seeded
  <2>5. ASSUME NEW row \in table PROVE row.stamp = SeedStamp \/ t1 < row.stamp
    <3>1. PICK c \in DOMAIN Class : row.key \in Class[c]
      BY <1>2, ClassesApart
    <3>2. c \in {"held", "advance", "update", "silent", "delete", "untouched"}
      BY <2>4, <3>1, ClassesApart
    <3>3. StampIs(row, mutation) /\ mutation \notin Released /\ mutation \notin Rewritten
      BY <2>1, <2>2 DEF Held, Released, Rewritten
    <3> QED
      BY <3>1, <3>2, <3>3 DEF StampIs
  <2>6. mutation \notin Rewritten /\ mutation # "done" /\ mutation # "none"
    BY <2>1 DEF Held, Rewritten
  <2> QED
    BY <1>1, <1>2, <2>2, <2>3, <2>4, <2>5, <2>6 DEF HeldShows, Keys
<1>4. ASSUME m.mutated PROVE MutatedShows(m)
  BY <1>0, <1>1, <1>4 DEF MutatedShows, TableIsMutated, StampIs, Keys
<1> QED
  BY <1>3, <1>4

\* What a run stamps takes its place among the observations before it.
LEMMA OrderUnderRun == ASSUME MerchantInv, ExtractNext PROVE ObservedInOrder'
<1>0. /\ ObservedInOrder /\ TableIsMutated /\ created \in 0..MaxSeeds /\ MaxSeeds \in Nat
      /\ landed \in SUBSET Observation /\ extract \in ExtractType /\ table \in SUBSET Row
  BY MerchantAssumption DEF MerchantInv, RegistryTyped
<1>1. /\ UNCHANGED <<clock, table, created, mutation, pending, t1, ready>>
      /\ \A m \in Seen' : Stamps(m) \/ \E n \in Seen : Alike(m, n)
  BY ExtractStep DEF RunStep, db
<1>2. ASSUME NEW m
      PROVE  (HeldShows(m)' <=> HeldShows(m)) /\ (MutatedShows(m)' <=> MutatedShows(m))
  BY <1>1 DEF HeldShows, MutatedShows
<1>3. ASSUME NEW m, NEW n, Alike(m, n)
      PROVE  (HeldShows(n) => HeldShows(m)) /\ (MutatedShows(n) => MutatedShows(m))
  BY <1>3 DEF Alike, HeldShows, MutatedShows
<1>4. ASSUME NEW m \in Seen'
      PROVE  /\ m.created <= created
             /\ m.held => HeldShows(m)
             /\ m.mutated => MutatedShows(m)
  <2>1. CASE Stamps(m)
    BY <1>0, <2>1, StampShows DEF Stamps
  <2>2. ASSUME NEW n \in Seen, Alike(m, n)
        PROVE  /\ m.created <= created
               /\ m.held => HeldShows(m)
               /\ m.mutated => MutatedShows(m)
    BY <1>0, <1>3, <2>2 DEF ObservedInOrder, Alike
  <2> QED
    BY <1>1, <2>1, <2>2
<1>5. ASSUME NEW m1 \in Seen', NEW m2 \in Seen', m1.created = m2.created, m1.held, m2.mutated
      PROVE  Between(m1, m2)
  <2>1. HeldShows(m1) /\ MutatedShows(m2)
    BY <1>4, <1>5
  <2>2. CASE Stamps(m1)
    <3>1. m2.created = created /\ ~m1.mutated
      BY <1>5, <2>2, StampShows DEF Stamps
    <3>2. mutation = "done"
      BY <2>1, <3>1 DEF MutatedShows
    <3> QED
      BY <2>2, <3>1, <3>2 DEF Stamps
  <2>3. CASE Stamps(m2)
    <3>1. mutation = "done" /\ m1.created = created /\ m2.truth = table
      BY <1>5, <2>3 DEF Stamps
    <3>2. /\ \A x \in m1.truth : x.stamp = SeedStamp \/ t1 < x.stamp
          /\ \A x \in m1.truth, row \in table :
               row.key \in Class["insert"] \/ row.key \in Class["update"] => x.stamp < row.stamp
      BY <2>1, <3>1 DEF HeldShows, Rewritten
    <3>3. \A row \in table : row.key \in Class["held"] => row.stamp = t1
      BY <1>0, <3>1 DEF TableIsMutated, StampIs, Released
    <3> QED
      BY <3>1, <3>2, <3>3 DEF Between
  <2>4. ASSUME NEW n1 \in Seen, Alike(m1, n1), NEW n2 \in Seen, Alike(m2, n2)
        PROVE  Between(m1, m2)
    <3>1. n1.created = n2.created /\ n1.held /\ n2.mutated
      BY <1>5, <2>4 DEF Alike
    <3>2. Between(n1, n2)
      BY <1>0, <2>4, <3>1 DEF ObservedInOrder
    <3> QED
      BY <2>4, <3>2 DEF Alike, Between
  <2> QED
    BY <1>1, <2>2, <2>3, <2>4
<1>6. \A m1, m2 \in Seen' : m1.created = m2.created /\ m1.held /\ m2.mutated => Between(m1, m2)'
  BY <1>5 DEF Between
<1> QED
  BY <1>1, <1>2, <1>4, <1>6 DEF ObservedInOrder

\* A transaction that is reading keeps the table from being re-created, so the
\* registry moves on and what the run can see does not.
LEMMA ReadUnderDb == ASSUME MerchantInv, DbNext PROVE ReadSoFar' /\ LandedAsRead'
<1>1. UNCHANGED <<extract, landed>> /\ (~Seed => UNCHANGED created) /\ ReadSoFar /\ LandedAsRead
  BY DbLeaves DEF MerchantInv
<1>2. extract.at \in {"count", "watermark", "incremental"} => Visible' = Visible
  BY <1>1 DEF Seed, Reading, Visible
<1>3. ReadSoFar'
  BY <1>1, <1>2 DEF ReadSoFar
<1>4. LandedAsRead'
  BY <1>1 DEF LandedAsRead
<1> QED
  BY <1>3, <1>4

LEMMA MerchantStepInv == MerchantInv /\ [MerchantNext]_merchantVars => MerchantInv'
<1> SUFFICES ASSUME MerchantInv, [MerchantNext]_merchantVars PROVE MerchantInv'
  OBVIOUS
<1>1. CASE DbNext
  BY <1>1, DbTypes, OrderUnderDb, ReadUnderDb DEF MerchantInv
<1>2. CASE ExtractNext
  <2>1. RunStep /\ UNCHANGED <<clock, table, created, mutation, pending, t1, ready>>
    BY <1>2, ExtractStep DEF db
  <2>2. RegistryTyped'
    BY <2>1 DEF RunStep, RegistryTyped, MerchantInv
  <2>3. TableIsMutated'
    BY <2>1 DEF TableIsMutated, StampIs, MerchantInv
  <2> QED
    BY <1>2, <2>1, <2>2, <2>3, OrderUnderRun DEF MerchantInv, RunStep
<1>3. CASE UNCHANGED merchantVars
  <2>1. UNCHANGED <<clock, table, created, mutation, pending, t1, ready, extract, landed>>
    BY <1>3 DEF merchantVars, db
  <2>2. RegistryTyped' /\ ReadSoFar' /\ LandedAsRead'
    BY <2>1 DEF MerchantInv, RegistryTyped, ReadSoFar, LandedAsRead, Visible
  <2>3. TableIsMutated'
    BY <2>1 DEF MerchantInv, TableIsMutated, StampIs
  <2>4. Seen' = Seen
    BY <2>1 DEF Seen
  <2>5. ASSUME NEW m
        PROVE  (HeldShows(m)' <=> HeldShows(m)) /\ (MutatedShows(m)' <=> MutatedShows(m))
    BY <2>1 DEF HeldShows, MutatedShows
  <2>6. ASSUME NEW m1, NEW m2 PROVE Between(m1, m2)' <=> Between(m1, m2)
    BY DEF Between
  <2>7. ObservedInOrder'
    BY <2>1, <2>4, <2>5, <2>6 DEF ObservedInOrder, MerchantInv
  <2> QED
    BY <2>2, <2>3, <2>7 DEF MerchantInv
<1> QED
  BY <1>1, <1>2, <1>3 DEF MerchantNext, DbNext, ExtractNext

-----------------------------------------------------------------------------

\* What a landed snapshot holds, when it holds any row.
LEMMA LandedRows ==
  ASSUME MerchantInv, NEW m \in landed, m.rows # {} \/ m.watermark # Never
  PROVE  m.rows = m.truth /\ m.watermark = Watermark(m.truth) /\ m.keys = Incremental(m.truth, m.since)
<1>1. /\ m.rows \in {m.truth, {}} /\ m.watermark = Watermark(m.rows)
      /\ m.keys = Incremental(m.rows, m.since)
  BY DEF MerchantInv, LandedAsRead
<1>2. m.rows # {}
  BY <1>1 DEF Watermark
<1> QED
  BY <1>1, <1>2

\* Two landed snapshots, one under the open transaction and one after the
\* mutation: what the second one's incremental answer misses of what changed.
LEMMA MissIsHeldSilentDeleted ==
  ASSUME MerchantInv, NEW m1 \in landed, NEW m2 \in landed,
         m1.created = m2.created, m1.held, m2.mutated, m2.since = m1.watermark, m1.rows = m1.truth
  PROVE  Missed(m1, m2) = Class["held"] \cup Class["silent"] \cup Class["delete"]
<1> DEFINE R1 == m1.truth
           R2 == m2.truth
           since == m1.watermark
<1>0. MerchantInv /\ m1 \in Seen /\ m2 \in Seen
  BY DEF Seen
<1>1. HeldShows(m1) /\ MutatedShows(m2) /\ Between(m1, m2)
  BY <1>0 DEF MerchantInv, ObservedInOrder
<1>2. R1 \in SUBSET Row /\ R2 \in SUBSET Row
  BY DEF MerchantInv, RegistryTyped, Observation
<1>3. Seeded # {} /\ Keys(R1) = Seeded /\ \A row \in R1 : ~row.mutated
  BY <1>1 DEF HeldShows
<1>4. /\ Keys(R2) = (Seeded \cup Class["insert"]) \ Class["delete"]
      /\ \A row \in R2 : row.key \in Class["silent"] => row.stamp = SeedStamp
  BY <1>1 DEF MutatedShows, Present, Inserted
<1>5. \A row \in R2 : row.mutated <=> row.key \in Class["held"] \cup Class["update"] \cup Class["silent"]
  BY <1>1 DEF MutatedShows, Mutated, Released, Rewritten, Silenced
<1>6. R1 # {} /\ since = Watermark(R1)
  <2>1. R1 # {}
    BY <1>3 DEF Keys
  <2> QED
    BY <2>1, LandedRows
<1>7. since \in Nat /\ since # Never /\ (\A x \in R1 : x.stamp <= since) /\ \E x \in R1 : x.stamp = since
  <2> HIDE DEF R1
  <2>1. /\ since \in Instant \cup {Never} /\ since # Never
        /\ (\A x \in R1 : x.stamp <= since) /\ \E x \in R1 : x.stamp = since
    BY <1>2, <1>6, WatermarkIsLatest
  <2> QED
    BY <2>1, StampsAreNaturals
<1>8. since # SeedStamp /\ m2.handOff /\ m2.watermark # Never
  BY <1>7 DEF MerchantInv, LandedAsRead
<1>9. m2.rows = R2 /\ m2.keys = {row.key : row \in {r \in R2 : r.stamp > since}}
  BY <1>7, <1>8, LandedRows DEF Incremental
<1>10. \A x \in R1 \cup R2 : x.stamp \in Nat
  BY <1>2, StampsAreNaturals DEF Row
<1>11. \A row \in R2 : row.key \in Class["insert"] \cup Class["update"] => row.stamp > since
  BY <1>1, <1>7, <1>10 DEF Between
<1>12. \A row \in R2 : row.key \in Class["held"] \cup Class["silent"] => ~(row.stamp > since)
  BY <1>1, <1>4, <1>7, <1>8, <1>10, StampsAreNaturals DEF Between
<1> DEFINE pair(row) == <<row.key, row.mutated>>
           C1 == {pair(row) : row \in R1}
           C2 == {pair(row) : row \in R2}
<1>13. Missed(m1, m2) = {k[1] : k \in (C1 \ C2) \cup (C2 \ C1)} \ m2.keys
  BY <1>9 DEF Missed
<1>14. \A row \in R1 : pair(row)[1] = row.key /\ pair(row) = <<row.key, FALSE>>
  BY <1>2, <1>3 DEF Row
<1>15. \A row \in R2 : /\ pair(row)[1] = row.key
                       /\ IF row.key \in Class["held"] \cup Class["update"] \cup Class["silent"]
                            THEN pair(row) = <<row.key, TRUE>> ELSE pair(row) = <<row.key, FALSE>>
  <2>1. ASSUME NEW row \in R2 PROVE row.mutated = TRUE \/ row.mutated = FALSE
    BY <1>2 DEF Row
  <2> QED
    BY <1>5, <2>1
<1> HIDE DEF pair, R1, R2
<1>16. ASSUME NEW k \in Missed(m1, m2)
       PROVE  k \in Class["held"] \cup Class["silent"] \cup Class["delete"]
  <2>1. k \notin m2.keys
    BY <1>13
  <2>2. PICK p \in (C1 \ C2) \cup (C2 \ C1) : k = p[1]
    BY <1>13
  <2>3. \A row \in R2 : row.key = k => k \notin Class["insert"] \cup Class["update"]
    BY <1>9, <1>11, <2>1
  <2>4. CASE p \in C1 /\ p \notin C2
    <3>1. PICK row \in R1 : p = pair(row)
      BY <2>4
    <3>2. k \in Seeded /\ p = <<k, FALSE>>
      BY <1>3, <1>14, <2>2, <3>1 DEF Keys
    <3>3. CASE k \notin Class["delete"]
      <4>1. PICK new \in R2 : new.key = k
        BY <1>4, <3>2, <3>3 DEF Keys
      <4> QED
        BY <1>15, <2>3, <2>4, <3>2, <4>1
    <3> QED
      BY <3>3
  <2>5. CASE p \in C2 /\ p \notin C1
    <3>1. PICK row \in R2 : p = pair(row)
      BY <2>5
    <3>2. row.key = k
      BY <1>15, <2>2, <3>1
    <3>3. k \in Seeded
      BY <1>4, <2>3, <3>2 DEF Keys
    <3>4. PICK old \in R1 : old.key = k
      BY <1>3, <3>3 DEF Keys
    <3>5. p # <<k, FALSE>>
      BY <1>14, <2>5, <3>4
    <3> QED
      BY <1>15, <2>3, <3>1, <3>2, <3>5
  <2> QED
    BY <2>2, <2>4, <2>5
<1>17. ASSUME NEW k \in Class["held"] \cup Class["silent"] \cup Class["delete"]
       PROVE  k \in Missed(m1, m2)
  <2>1. k \in Seeded
    BY ClassesApart
  <2>2. PICK row \in R1 : row.key = k
    BY <1>3, <2>1 DEF Keys
  <2>3. pair(row) \in C1 /\ pair(row)[1] = k /\ pair(row) = <<k, FALSE>>
    BY <1>14, <2>2
  <2>4. pair(row) \notin C2 /\ k \notin m2.keys
    <3>1. CASE k \in Class["delete"]
      <4>1. \A new \in R2 : new.key # k
        BY <1>4, <3>1 DEF Keys
      <4> QED
        BY <1>9, <1>15, <2>3, <4>1
    <3>2. CASE k \in Class["held"] \cup Class["silent"]
      <4>1. \A new \in R2 : new.key = k => pair(new) = <<k, TRUE>> /\ ~(new.stamp > since)
        BY <1>12, <1>15, <3>2
      <4>2. \A new \in R2 : pair(new) # <<k, FALSE>>
        <5>1. \A new \in R2 : new.key # k => pair(new) # <<k, FALSE>>
          <6>1. <<k, FALSE>>[1] = k
            OBVIOUS
          <6> QED
            BY <1>15, <6>1
        <5>2. <<k, TRUE>> # <<k, FALSE>>
          OBVIOUS
        <5> QED
          BY <4>1, <5>1, <5>2
      <4> QED
        BY <1>9, <2>3, <4>1, <4>2
    <3> QED
      BY <3>1, <3>2
  <2> QED
    BY <1>13, <2>3, <2>4
<1> QED
  BY <1>16, <1>17

\* A snapshot landed under the hand-off is one state of the registry, and what
\* the incremental answer of a later one misses is exactly what no stamp shows.
THEOREM SnapshotsAreMoments == MerchantSpec => []SnapshotIsOneMoment
<1>1. MerchantInv => SnapshotIsOneMoment
  <2> SUFFICES ASSUME MerchantInv PROVE SnapshotIsOneMoment
    OBVIOUS
  <2>1. OneObservation
    <3>1. ASSUME NEW m \in landed, m.handOff PROVE m.watermark # Never
      BY <3>1 DEF MerchantInv, LandedAsRead
    <3> QED
      BY <3>1, LandedRows DEF OneObservation
  <2>2. MissIsExact
    BY MissIsHeldSilentDeleted DEF MissIsExact
  <2> QED
    BY <2>1, <2>2 DEF SnapshotIsOneMoment
<1> QED
  BY <1>1, MerchantInitInv, MerchantStepInv, PTL DEF MerchantSpec

-----------------------------------------------------------------------------
(* The three of them.                                                      *)

\* A behaviour of the composition is a behaviour of each part.
LEMMA EachPartRuns == MCSpec => Spec /\ ApiSpec /\ MerchantSpec
<1>1. MCInit => ExtractionInit /\ ApiInit /\ MerchantInit
  BY DEF MCInit
<1>2. [MCNext]_MCVars => [ExtractionNext]_vars /\ [ApiNext]_apiVars /\ [MerchantNext]_merchantVars
  BY DEF MCNext, MCVars
<1> QED
  BY <1>1, <1>2, PTL DEF MCSpec, Spec, ApiSpec, MerchantSpec

\* What reaches the landing Volume by any of the three ways is whole and stays:
\* no half object, no zero without its files, no re-run that derives other bytes,
\* no delete but of what was sent, no file replaced that was seen.
THEOREM LandsWholeAndKeeps == MCSpec => LandedWholeAndKept
<1>1. MCSpec => Spec /\ ApiSpec
  BY EachPartRuns, PTL
<1> QED
  BY <1>1, NoHalfAtRest, ZeroIsLanded, QuotesReproduce, SenderDeletes, ReplacesOnlyUnseen, PTL
     DEF LandedWholeAndKept, LandedWhole
=============================================================================
