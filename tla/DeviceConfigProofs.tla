------------------------- MODULE DeviceConfigProofs -------------------------
(***************************************************************************)
(* What DeviceConfig keeps for every profile, every set of values and any  *)
(* number of saves, failures of the chip and power failures.               *)
(***************************************************************************)
EXTENDS DeviceConfig, SequenceTheorems, WellFoundedInduction, TLAPS

-----------------------------------------------------------------------------
(* The zones and the table of profiles.                                    *)

(* How many chunks each zone has.                                          *)
LEMMA ZoneChunks ==
  /\ Zone = {0, 2, 3, 5, 6, 7, 8, 10}
  /\ Chunks(0) = 3 /\ Chunks(2) = 1 /\ Chunks(3) = 1 /\ Chunks(5) = 2
  /\ Chunks(6) = 2 /\ Chunks(7) = 2 /\ Chunks(8) = 2 /\ Chunks(10) = 1
<1>1. Zone = {0, 2, 3, 5, 6, 7, 8, 10}
  BY DEF Zone, ZoneSize
<1>2. /\ ZoneSize[0] = 976 /\ ZoneSize[2] = 192 /\ ZoneSize[3] = 120 /\ ZoneSize[5] = 584
      /\ ZoneSize[6] = 680 /\ ZoneSize[7] = 784 /\ ZoneSize[8] = 880 /\ ZoneSize[10] = 88
  BY DEF ZoneSize
<1> QED BY <1>1, <1>2 DEF Chunks, MaxEncryptDataSize

(* A chunk is a zone and a number within its size.                         *)
LEMMA ChunkIs ==
  /\ \A z \in Zone : Chunks(z) \in 1 .. 3
  /\ \A z \in Zone, i \in Nat : 1 <= i /\ i <= Chunks(z) => <<z, i>> \in Chunk
  /\ \A c \in Chunk : c[1] \in Zone /\ c[2] \in 1 .. Chunks(c[1]) /\ c = <<c[1], c[2]>>
<1>1. \A z \in Zone : Chunks(z) \in 1 .. 3
  BY ZoneChunks
<1> QED BY <1>1 DEF Chunk

Rows == {<<2>>, <<3>>, <<5>>, <<6>>, <<7>>, <<8>>, <<10>>, <<5, 0>>, <<6, 7>>, <<0, 7, 8>>}

(* Every row of zones in the table is one of these.                        *)
LEMMA MappingRows ==
  ASSUME NEW p \in Profile, NEW m \in Mapping(p)
  PROVE  m[1] \in Setting /\ m[2] \in Rows
BY DEF Profile, Mapping, Credentials, Rows, Setting

(* A row has one to three zones, each once, and at most seven chunks.      *)
LEMMA RowShape ==
  ASSUME NEW r \in Rows
  PROVE  /\ r \in Seq(Zone) /\ Len(r) \in 1 .. 3
         /\ \A i, j \in 1 .. Len(r) : r[i] = r[j] => i = j
         /\ Len(r) = 3 => r[1] = 0 /\ r[2] = 7 /\ r[3] = 8
<1>1. \A x \in Zone : <<x>> \in Seq(Zone) /\ Len(<<x>>) = 1 /\ <<x>>[1] = x
  OBVIOUS
<1>2. \A x, y \in Zone : <<x, y>> \in Seq(Zone) /\ Len(<<x, y>>) = 2
                        /\ <<x, y>>[1] = x /\ <<x, y>>[2] = y
  OBVIOUS
<1>3. <<0, 7, 8>> \in Seq(Zone) /\ Len(<<0, 7, 8>>) = 3
      /\ <<0, 7, 8>>[1] = 0 /\ <<0, 7, 8>>[2] = 7 /\ <<0, 7, 8>>[3] = 8
  BY ZoneChunks
<1>4. CASE \E x \in Zone : r = <<x>>
  BY <1>1, <1>4
<1>5. CASE \E x, y \in Zone : r = <<x, y>> /\ x # y
  BY <1>2, <1>5
<1>6. CASE r = <<0, 7, 8>>
  BY <1>3, <1>6
<1> QED BY <1>4, <1>5, <1>6, ZoneChunks DEF Rows

(* No zone belongs to two settings of a profile.                           *)
LEMMA MappingDisjoint ==
  ASSUME NEW p \in Profile, NEW m \in Mapping(p), NEW n \in Mapping(p), m[1] # n[1],
         NEW i \in 1 .. Len(m[2]), NEW j \in 1 .. Len(n[2])
  PROVE  m[2][i] # n[2][j]
<1>1. CASE p = "NONE"
  BY <1>1 DEF Mapping
<1>2. CASE p = "MQTT_USERPASS"
  BY <1>2, SMTT(30) DEF Mapping, Credentials
<1>3. CASE p = "MQTT_USERPASS_TLS"
  BY <1>3, SMTT(30) DEF Mapping, Credentials
<1>4. CASE p = "MQTT_MTLS"
  BY <1>4, SMTT(30) DEF Mapping, Credentials
<1>5. CASE p = "IOTHUB_SAS"
  BY <1>5, SMTT(30) DEF Mapping, Credentials
<1>6. CASE p = "IOTHUB_CERT"
  BY <1>6, SMTT(30) DEF Mapping, Credentials
<1>7. CASE p \in {"DPS_SAS", "DPS_SAS_GROUP"}
  BY <1>7, SMTT(30) DEF Mapping, Credentials
<1>8. CASE p = "DPS_CERT"
  BY <1>8, SMTT(30) DEF Mapping, Credentials
<1> QED BY <1>1, <1>2, <1>3, <1>4, <1>5, <1>6, <1>7, <1>8 DEF Profile

(* The entry of the table a setting's zones come from.                     *)
LEMMA Entry ==
  ASSUME NEW s \in Held
  PROVE  \E m \in Mapping(Active) : m[1] = s /\ m[2] = ZonesOf[s]
BY DEF Held, Available, ZonesOf, Zones

(* The zones of a setting.                                                 *)
LEMMA HeldZones ==
  ASSUME NEW s \in Held
  PROVE  /\ s \in Setting
         /\ ZonesOf[s] \in Seq(Zone) /\ Len(ZonesOf[s]) \in 1 .. 3
         /\ \A i, j \in 1 .. Len(ZonesOf[s]) : ZonesOf[s][i] = ZonesOf[s][j] => i = j
         /\ Len(ZonesOf[s]) = 3 => ZonesOf[s][1] = 0 /\ ZonesOf[s][2] = 7 /\ ZonesOf[s][3] = 8
<1>1. PICK m \in Mapping(Active) : m[1] = s /\ m[2] = ZonesOf[s]
  BY Entry
<1> QED BY <1>1, MappingRows, RowShape, ActiveAssumption

(* The zones of two settings.                                              *)
LEMMA HeldDisjoint ==
  ASSUME NEW s \in Held, NEW t \in Held, s # t,
         NEW i \in 1 .. Len(ZonesOf[s]), NEW j \in 1 .. Len(ZonesOf[t])
  PROVE  ZonesOf[s][i] # ZonesOf[t][j]
<1>1. PICK m \in Mapping(Active) : m[1] = s /\ m[2] = ZonesOf[s]
  BY Entry
<1>2. PICK n \in Mapping(Active) : n[1] = t /\ n[2] = ZonesOf[t]
  BY Entry
<1> QED BY <1>1, <1>2, MappingDisjoint, ActiveAssumption

(* The device id, whose buffer takes one chunk, is in one zone.            *)
LEMMA DeviceIdZone ==
  "DEVICE_ID" \in Held => Len(ZonesOf["DEVICE_ID"]) = 1
<1> SUFFICES ASSUME "DEVICE_ID" \in Held PROVE Len(ZonesOf["DEVICE_ID"]) = 1
  OBVIOUS
<1>1. PICK m \in Mapping(Active) : m[1] = "DEVICE_ID" /\ m[2] = ZonesOf["DEVICE_ID"]
  BY Entry
<1>2. m[2] \in {<<6>>, <<2>>}
  BY <1>1, ActiveAssumption DEF Profile, Mapping, Credentials
<1> QED BY <1>1, <1>2

(* The layout of a setting: its zones lie one behind the other.            *)
LEMMA Layout ==
  ASSUME NEW s \in Held
  PROVE  /\ MaxLen(s) \in 1 .. 7 /\ Before(s, 1) = 0
         /\ \A j \in 1 .. Len(ZonesOf[s]) :
              /\ Before(s, j) \in 0 .. 5
              /\ Before(s, j + 1) = Before(s, j) + Chunks(ZonesOf[s][j])
              /\ Before(s, j + 1) \in 1 .. MaxLen(s)
         /\ Before(s, Len(ZonesOf[s]) + 1) = MaxLen(s)
         /\ Len(ZonesOf[s]) = 1 => MaxLen(s) = Chunks(ZonesOf[s][1])
<1> DEFINE zs == ZonesOf[s]
<1>1. zs \in Seq(Zone) /\ Len(zs) \in 1 .. 3
  BY HeldZones
<1> HIDE DEF zs
<1>2. \A j \in 1 .. Len(zs) : zs[j] \in Zone /\ Chunks(zs[j]) \in 1 .. 3
  BY <1>1, ChunkIs
<1>3. DOMAIN zs = 1 .. Len(zs)
  BY <1>1
<1>4. \A j \in 1 .. 3 : Size(s, j) = IF j <= Len(zs) THEN Chunks(zs[j]) ELSE 0
  BY <1>1, <1>3 DEF Size, zs
<1>5. Before(s, 1) = 0 /\ Before(s, 2) = Size(s, 1) /\ Before(s, 3) = Size(s, 1) + Size(s, 2)
      /\ Before(s, 4) = MaxLen(s) /\ MaxLen(s) = Size(s, 1) + Size(s, 2) + Size(s, 3)
  <2>1. \A j \in 1 .. 3 : Size(s, j) \in 0 .. 3
    BY <1>1, <1>2, <1>4
  <2> QED BY <2>1 DEF Before, MaxLen
<1>6. CASE Len(zs) = 1
  BY <1>2, <1>4, <1>5, <1>6 DEF zs
<1>7. CASE Len(zs) = 2
  BY <1>2, <1>4, <1>5, <1>7 DEF zs
<1>8. CASE Len(zs) = 3
  <2>1. zs[1] = 0 /\ zs[2] = 7 /\ zs[3] = 8
    BY <1>8, HeldZones DEF zs
  <2> QED BY <2>1, <1>4, <1>5, <1>8, ZoneChunks DEF zs
<1> QED BY <1>1, <1>6, <1>7, <1>8

(* Where every setting starts.                                             *)
LEMMA FirstPart ==
  \A s \in Held : Before(s, 1) = 0 /\ Len(ZonesOf[s]) \in 1 .. 3 /\ 1 \in 1 .. Len(ZonesOf[s])
<1> TAKE s \in Held
<1>1. Len(ZonesOf[s]) \in 1 .. 3
  BY HeldZones
<1> QED BY <1>1, Layout

(* The k-th chunk of a setting.                                            *)
LEMMA CellAt ==
  ASSUME NEW s \in Held, NEW j \in 1 .. Len(ZonesOf[s]), NEW i \in 1 .. Chunks(ZonesOf[s][j])
  PROVE  /\ Before(s, j) + i \in 1 .. MaxLen(s)
         /\ Cells[s][Before(s, j) + i] = <<ZonesOf[s][j], i>>
<1> DEFINE zs == ZonesOf[s]
           k == Before(s, j) + i
<1>1. zs \in Seq(Zone) /\ Len(zs) \in 1 .. 3 /\ j \in 1 .. Len(zs) /\ Chunks(zs[j]) \in 1 .. 3
      /\ i \in 1 .. Chunks(zs[j])
  BY HeldZones, ChunkIs
<1>2. Before(s, 1) = 0 /\ Before(s, j) \in 0 .. 5 /\ Before(s, j + 1) = Before(s, j) + Chunks(zs[j])
      /\ Before(s, j + 1) \in 1 .. MaxLen(s) /\ MaxLen(s) \in 1 .. 7
  BY Layout
<1> HIDE DEF zs
<1>3. k \in 1 .. MaxLen(s) /\ k > Before(s, j) /\ k <= Before(s, j + 1)
  <2> DEFINE b == Before(s, j)
             e == Before(s, j + 1)
             m == MaxLen(s)
             n == Chunks(zs[j])
  <2>1. b \in 0 .. 5 /\ e = b + n /\ e \in 1 .. m /\ m \in 1 .. 7 /\ n \in 1 .. 3 /\ i \in 1 .. n
    BY <1>1, <1>2
  <2> HIDE DEF b, e, m, n
  <2>2. b + i \in 1 .. m /\ b + i > b /\ b + i <= e
    BY <2>1
  <2> QED BY <2>2 DEF b, e, m
<1>4. j = 3 => Before(s, 2) <= Before(s, 3)
  <2> SUFFICES ASSUME j = 3 PROVE Before(s, 2) <= Before(s, 3)
    OBVIOUS
  <2>1. 2 \in 1 .. Len(zs) /\ Chunks(zs[2]) \in 1 .. 3
    BY <1>1, ChunkIs
  <2> QED BY <2>1, Layout DEF zs
<1>5. PartOf(s, k) = j
  <2>1. CASE j = 1
    BY <2>1, <1>3 DEF PartOf
  <2>2. CASE j = 2
    BY <2>2, <1>2, <1>3 DEF PartOf
  <2>3. CASE j = 3
    <3>1. Before(s, 2) \in 0 .. 5
      BY <2>3, <1>1, Layout DEF zs
    <3> QED BY <2>3, <3>1, <1>2, <1>3, <1>4 DEF PartOf
  <2> QED BY <1>1, <2>1, <2>2, <2>3
<1>6. CellOf(s, k) = <<zs[j], i>>
  BY <1>2, <1>5 DEF CellOf, zs
<1> QED BY <1>3, <1>6 DEF Cells, zs

(* Every place of a setting is in one of its zones.                        *)
LEMMA PlaceIn ==
  ASSUME NEW s \in Held, NEW k \in 1 .. MaxLen(s)
  PROVE  \E j \in 1 .. Len(ZonesOf[s]) : \E i \in 1 .. Chunks(ZonesOf[s][j]) :
           k = Before(s, j) + i
<1> DEFINE zs == ZonesOf[s]
<1>1. zs \in Seq(Zone) /\ Len(zs) \in 1 .. 3
  BY HeldZones
<1>2. \A j \in 1 .. Len(zs) : zs[j] \in Zone /\ Chunks(zs[j]) \in 1 .. 3
  BY <1>1, ChunkIs
<1>3. /\ Before(s, 1) = 0 /\ MaxLen(s) \in 1 .. 7
      /\ \A j \in 1 .. Len(zs) : Before(s, j) \in 0 .. 5 /\ Before(s, j + 1) = Before(s, j) + Chunks(zs[j])
      /\ Before(s, Len(zs) + 1) = MaxLen(s)
  BY Layout
<1> HIDE DEF zs
<1>4. SUFFICES \E j \in 1 .. Len(zs) : k > Before(s, j) /\ k <= Before(s, j) + Chunks(zs[j])
  <2> SUFFICES ASSUME NEW j \in 1 .. Len(zs), k > Before(s, j), k <= Before(s, j) + Chunks(zs[j])
               PROVE  \E i \in 1 .. Chunks(zs[j]) : k = Before(s, j) + i
    BY DEF zs
  <2>1. k \in Int /\ Before(s, j) \in Int /\ Chunks(zs[j]) \in Int
    BY <1>2, <1>3
  <2>2. k - Before(s, j) \in 1 .. Chunks(zs[j]) /\ k = Before(s, j) + (k - Before(s, j))
    BY <2>1
  <2> QED BY <2>2
<1>5. CASE k <= Before(s, 2)
  BY <1>1, <1>3, <1>5
<1>6. CASE k > Before(s, 2) /\ k <= Before(s, 3) /\ Len(zs) >= 2
  BY <1>1, <1>3, <1>6
<1>7. CASE k > Before(s, 3) /\ Len(zs) = 3
  BY <1>1, <1>3, <1>7
<1> QED BY <1>1, <1>2, <1>3, <1>5, <1>6, <1>7

(* A chunk of the j-th zone of a setting belongs to that setting alone, at *)
(* its place behind the zones before it.                                   *)
LEMMA Address ==
  ASSUME NEW s \in Held, NEW k \in 1 .. MaxLen(s),
         NEW t \in Held, NEW j \in 1 .. Len(ZonesOf[t]), Cells[s][k][1] = ZonesOf[t][j]
  PROVE  /\ s = t /\ k - Before(t, j) \in 1 .. Chunks(ZonesOf[t][j])
         /\ Cells[s][k] = <<ZonesOf[t][j], k - Before(t, j)>>
<1>1. PICK h \in 1 .. Len(ZonesOf[s]) : \E i \in 1 .. Chunks(ZonesOf[s][h]) : k = Before(s, h) + i
  BY PlaceIn
<1>2. PICK i \in 1 .. Chunks(ZonesOf[s][h]) : k = Before(s, h) + i
  BY <1>1
<1>3. Cells[s][k] = <<ZonesOf[s][h], i>>
  BY <1>2, CellAt
<1>4. ZonesOf[s][h] = ZonesOf[t][j]
  BY <1>3
<1>5. s = t
  BY <1>4, HeldDisjoint
<1>6. h = j
  BY <1>4, <1>5, HeldZones
<1>7. Before(s, h) \in 0 .. 5 /\ i \in Int
  <2>1. Before(s, h) \in 0 .. 5
    BY Layout
  <2>2. i \in Int
    OBVIOUS
  <2> QED BY <2>1, <2>2
<1> QED BY <1>2, <1>3, <1>5, <1>6, <1>7

(* A place of a setting is a chunk of the chip, and its place is before    *)
(* the zone of its j-th part exactly when it is in an earlier zone.        *)
LEMMA PlaceIsChunk ==
  ASSUME NEW s \in Held, NEW k \in 1 .. MaxLen(s)
  PROVE  Cells[s][k] \in Chunk
<1>1. PICK h \in 1 .. Len(ZonesOf[s]) : \E i \in 1 .. Chunks(ZonesOf[s][h]) : k = Before(s, h) + i
  BY PlaceIn
<1>2. PICK i \in 1 .. Chunks(ZonesOf[s][h]) : k = Before(s, h) + i
  BY <1>1
<1>3. Cells[s][k] = <<ZonesOf[s][h], i>>
  BY <1>2, CellAt
<1>4. ZonesOf[s][h] \in Zone
  BY HeldZones
<1>5. Chunks(ZonesOf[s][h]) \in 1 .. 3
  BY <1>4, ChunkIs
<1> QED BY <1>3, <1>4, <1>5, ChunkIs

-----------------------------------------------------------------------------
(* Strings.                                                                *)

(* A set of naturals that is not empty has a least element.                *)
LEMMA Least ==
  ASSUME NEW S \in SUBSET Nat, S # {}
  PROVE  \E m \in S : \A n \in S : m <= n
<1>1. PICK m \in S : \A n \in S : <<n, m>> \notin OpToRel(<, Nat)
  BY WFMin, NatLessThanWellFounded, Zenon
<1>2. \A n \in S : ~ (n < m)
  BY <1>1, Zenon DEF OpToRel
<1> QED BY <1>2

(* A piece is told from zeros, and the last piece from the others.         *)
LEMMA PieceIs ==
  ASSUME NEW v, v.id \in Id, v.len \in 1 .. 7, NEW k \in 1 .. v.len
  PROVE  /\ Piece(v, k) \in Content /\ Piece(v, k) # Erased
         /\ Piece(v, k).last <=> k = v.len
<1>1. Piece(v, k) \in [id : Id, k : 1 .. 7, last : BOOLEAN]
  BY DEF Piece
<1> QED BY <1>1, ErasedAssumption DEF Piece, Content

(* The text of a row is a row of contents.                                 *)
LEMMA TextType ==
  ASSUME NEW row \in Seq(Content)
  PROVE  Text(row) \in Seq(Content)
<1> DEFINE ends == {j \in DOMAIN row : row[j] = Erased \/ row[j].last}
<1>1. CASE ends = {}
  BY <1>1 DEF Text
<1>2. CASE ends # {}
  <2> DEFINE j == CHOOSE i \in ends : \A h \in ends : i <= h
  <2>1. ends \in SUBSET Nat
    OBVIOUS
  <2>2. \E i \in ends : \A h \in ends : i <= h
    BY <1>2, <2>1, Least
  <2>3. j \in ends
    BY <2>2
  <2> DEFINE n == IF row[j] = Erased THEN j - 1 ELSE j
  <2>4. Text(row) = SubSeq(row, 1, n)
    BY <1>2 DEF Text
  <2>5. j \in 1 .. Len(row)
    BY <2>3
  <2> HIDE DEF j
  <2>6. n \in 0 .. Len(row)
    BY <2>5
  <2> HIDE DEF n
  <2> QED BY <2>4, <2>6
<1> QED BY <1>1, <1>2

(* A text as long as its row is the row, and ends in a piece.              *)
LEMMA LongText ==
  ASSUME NEW row \in Seq(Content), 1 <= Len(row), Len(Text(row)) = Len(row)
  PROVE  Text(row) = row /\ row[Len(row)] # Erased
<1> DEFINE ends == {j \in DOMAIN row : row[j] = Erased \/ row[j].last}
<1>1. CASE ends = {}
  BY <1>1 DEF Text
<1>2. CASE ends # {}
  <2> DEFINE j == CHOOSE i \in ends : \A h \in ends : i <= h
  <2>1. ends \in SUBSET Nat
    OBVIOUS
  <2>2. \E i \in ends : \A h \in ends : i <= h
    BY <1>2, <2>1, Least
  <2>3. j \in 1 .. Len(row)
    BY <2>2
  <2> DEFINE n == IF row[j] = Erased THEN j - 1 ELSE j
  <2>4. Text(row) = SubSeq(row, 1, n)
    BY <1>2 DEF Text
  <2> HIDE DEF j
  <2>5. n \in 0 .. Len(row) /\ (row[j] = Erased => n < Len(row)) /\ (row[j] # Erased => n = j)
    BY <2>3
  <2> HIDE DEF n
  <2>6. n = Len(row)
    <3>1. Len(SubSeq(row, 1, n)) = n
      BY <2>5
    <3> QED BY <2>4, <3>1
  <2>7. SubSeq(row, 1, Len(row)) = row
    OBVIOUS
  <2> QED BY <2>4, <2>5, <2>6, <2>7
<1> QED BY <1>1, <1>2

(* What LoadAll takes from a row is a row of contents.                     *)
LEMMA LoadedType ==
  ASSUME NEW s, NEW row \in Seq(Content), 1 <= Len(row), NEW text \in Loaded(s, row)
  PROVE  text \in Seq(Content)
<1>1. CASE text = Text(row)
  BY <1>1, TextType
<1>2. CASE text # Text(row)
  <2>1. text = CutShort(Text(row)) /\ Len(Text(row)) = Len(row)
    BY <1>2 DEF Loaded
  <2>2. text = CutShort(row) /\ row[Len(row)] # Erased
    BY <2>1, LongText
  <2> DEFINE n == Len(row)
  <2>3. n \in 1 .. Len(row) /\ row[n] \in Content
    OBVIOUS
  <2>4. row[n] \in [id : Id, k : 1 .. 7, last : BOOLEAN]
    BY <2>2, <2>3 DEF Content
  <2>5. [row[n] EXCEPT !.last = FALSE] \in Content
    BY <2>4 DEF Content
  <2>6. text = [row EXCEPT ![n] = [row[n] EXCEPT !.last = FALSE]]
    BY <2>2 DEF CutShort
  <2> HIDE DEF n
  <2> QED BY <2>3, <2>5, <2>6
<1> QED BY <1>1, <1>2

(* A row that starts with the pieces of a value reads as that value.       *)
LEMMA TextHolds ==
  ASSUME NEW row \in Seq(Content), NEW v, v.id \in Id, v.len \in 1 .. 7, v.len <= Len(row),
         \A k \in 1 .. v.len : row[k] = Piece(v, k)
  PROVE  Text(row) = Pieces(v)
<1> DEFINE ends == {j \in DOMAIN row : row[j] = Erased \/ row[j].last}
           least == CHOOSE i \in ends : \A h \in ends : i <= h
<1>1. v.len \in ends
  BY PieceIs
<1>2. \A h \in ends : v.len <= h
  <2> SUFFICES ASSUME NEW h \in ends, h < v.len PROVE FALSE
    OBVIOUS
  <2>1. h \in 1 .. v.len
    OBVIOUS
  <2>2. row[h] = Piece(v, h)
    BY <2>1
  <2> QED BY <2>1, <2>2, PieceIs
<1>3. \E i \in ends : \A h \in ends : i <= h
  BY <1>1, <1>2
<1>4. least \in ends /\ \A h \in ends : least <= h
  BY <1>3
<1>5. least = v.len
  <2> HIDE DEF least
  <2>1. least <= v.len /\ v.len <= least /\ least \in Nat
    BY <1>1, <1>2, <1>4
  <2> QED BY <2>1
<1>6. row[v.len] # Erased
  BY PieceIs
<1>7. Text(row) = SubSeq(row, 1, v.len)
  BY <1>1, <1>5, <1>6 DEF Text
<1> DEFINE a == SubSeq(row, 1, v.len)
<1>8. a \in Seq(Content) /\ Len(a) = v.len /\ \A k \in 1 .. v.len : a[k] = Piece(v, k)
  OBVIOUS
<1>9. a = [k \in 1 .. v.len |-> Piece(v, k)]
  <2> HIDE DEF a
  <2>1. DOMAIN a = 1 .. v.len /\ a = [k \in DOMAIN a |-> a[k]]
    BY <1>8
  <2> QED BY <1>8, <2>1
<1> QED BY <1>7, <1>9 DEF Pieces

(* A row that starts with zeros reads as the empty string.                 *)
LEMMA TextBlank ==
  ASSUME NEW row \in Seq(Content), 1 <= Len(row), row[1] = Erased
  PROVE  Text(row) = <<>>
<1> DEFINE ends == {j \in DOMAIN row : row[j] = Erased \/ row[j].last}
           least == CHOOSE i \in ends : \A h \in ends : i <= h
<1>1. 1 \in ends /\ \A h \in ends : 1 <= h
  OBVIOUS
<1>2. \E i \in ends : \A h \in ends : i <= h
  BY <1>1
<1>3. least \in ends /\ \A h \in ends : least <= h
  BY <1>2
<1>4. least = 1
  <2> HIDE DEF least
  <2>1. least <= 1 /\ 1 <= least /\ least \in Nat
    BY <1>1, <1>3
  <2> QED BY <2>1
<1>5. Text(row) = SubSeq(row, 1, 1 - 1)
  BY <1>1, <1>4 DEF Text
<1> QED BY <1>5

-----------------------------------------------------------------------------
(* The inductive invariant.                                                *)

(* What a zone's first n chunks hold.                                      *)
ZoneRow(z, n) == [i \in 1 .. n |-> cell[<<z, i>>]]

(* The call and the chip's operation go together: the operation is on the  *)
(* zone the call has come to, and nothing is under way between two calls.  *)
CallInv ==
  /\ call \in {"off", "idle", "enable"} => ~waiting
  /\ waiting \/ op \in {"none", "fetch", "seal"}
  /\ op \in {"fetch", "seal"} => call = "enable"
  /\ call = "save" => /\ setting \in Held /\ value \in Value(setting)
                      /\ part \in 1 .. Len(ZonesOf[setting])
                      /\ Before(setting, part) < value.len
                      /\ value \in doubt[setting]
  /\ call # "save" => value = NoValue
  /\ call = "load" => /\ setting = Due(turn)
                      /\ setting \in Held => part \in 1 .. Len(ZonesOf[setting])
                      /\ setting \notin Held => part = 1
  /\ waiting => /\ setting \in Held /\ zone = CurrentZone
                /\ op # "none" => op = IF call = "save" THEN "write" ELSE "read"
                /\ op = "none" => result \in {"ok", "error"}

(* How far the operation is.                                               *)
OpInv ==
  /\ op = "read" => /\ want = BufferChunks /\ at < want /\ Len(got) = at
                    /\ \A i \in 1 .. at : got[i] = cell[<<zone, i>>]
  /\ op = "write" => data = Portion /\ want = Len(data) /\ at < 2 * want /\ Len(got) <= at
  /\ op = "seal" => Len(got) = Chunks(zone) /\ at < Chunks(zone)

(* Enabling the secure channel leaves no chunk behind it unsealed, and     *)
(* what it stores is what it has read, until a command fails.              *)
SealInv ==
  /\ harm = "none" /\ keyed =>
       \A c \in Chunk : c \in sealed \/ (op = "fetch" /\ c[1] >= zone)
                                     \/ (op = "seal" /\ c[1] > zone)
                                     \/ (op = "seal" /\ c[1] = zone /\ c[2] > at)
  /\ op = "seal" /\ harm # "mixed" => \A i \in 1 .. Chunks(zone) : got[i] = cell[<<zone, i>>]

(* The first n chunks of setting s hold those of value v.                  *)
HoldsUpTo(s, v, n) == \A k \in 1 .. n : cell[Cells[s][k]] = Piece(v, k)
Holds(s, v) == HoldsUpTo(s, v, v.len)
Blank(s) == cell[Cells[s][1]] = Erased

(* What a save has written: the zones before the current one, and in an    *)
(* envelope write the chunks of this one it has stored.                    *)
WrittenSoFar ==
  /\ op = "write" => \A i \in 1 .. at - want : cell[<<zone, i>>] = data[i]
  /\ op = "none" /\ result = "ok" => HoldsUpTo(setting, value, Reach)
SaveInv ==
  call = "save" => /\ HoldsUpTo(setting, value, Before(setting, part))
                   /\ waiting => WrittenSoFar

(* A setting no save or failure has touched since it was saved holds that  *)
(* value.                                                                  *)
DurableAt(s) ==
  doubt[s] = {} /\ s \notin hurt /\ harm = "none" =>
    IF acked[s] = {} THEN Blank(s) ELSE \E v \in acked[s] : Holds(s, v)
DurableInv == \A s \in Held : DurableAt(s)

(* A small setting holds a value saved, or nothing.                        *)
Small(s) == MaxLen(s) = 1 \/ (Len(ZonesOf[s]) = 1 /\ ~keyed)
WholeAt(s) ==
  harm # "mixed" /\ Small(s) =>
    \/ \E v \in acked[s] \cup doubt[s] : Holds(s, v)
    \/ Blank(s) /\ (acked[s] = {} \/ s \in hurt \/ harm = "lost")
WholeInv == \A s \in Held : WholeAt(s)

(* What LoadAll has copied is what the chip has.                           *)
ReadInFull == op = "none" /\ result = "ok" => got = ZoneRow(zone, BufferChunks)
LoadInv ==
  call = "load" =>
    /\ success => \A i \in 1 .. turn - 1 :
         LoadOrder[i] \in Held \ Tolerated => RamHas(LoadOrder[i])
    /\ setting \in Held => /\ Len(buffer) = Before(setting, part)
                           /\ \A k \in 1 .. Len(buffer) : buffer[k] = cell[Cells[setting][k]]
    /\ waiting => ReadInFull

IInv == TypeOK /\ CallInv /\ OpInv /\ SealInv /\ SaveInv /\ DurableInv /\ WholeInv /\ LoadInv

-----------------------------------------------------------------------------
(* Where a call stands.                                                    *)

(* A call that waits for the chip waits for its current zone.              *)
LEMMA Where ==
  ASSUME IInv, waiting
  PROVE  /\ call \in {"save", "load"} /\ setting \in Held
         /\ part \in 1 .. Len(ZonesOf[setting])
         /\ zone = ZonesOf[setting][part] /\ CurrentZone = ZonesOf[setting][part]
         /\ zone \in Zone /\ Chunks(zone) \in 1 .. 3
<1>1. call \in {"save", "load"} /\ setting \in Held /\ part \in 1 .. Len(ZonesOf[setting])
      /\ zone = CurrentZone /\ zone \in Zone
  BY DEF IInv, TypeOK, CallTypeOK, HistoryTypeOK, CallInv, EepromTypeOK
<1> QED BY <1>1, ChunkIs DEF CurrentZone

(* An operation of the chip that is not enabling serves a call that waits. *)
LEMMA Serves ==
  ASSUME IInv, op \in {"read", "write"}
  PROVE  /\ waiting
         /\ op = "read" => call = "load"
         /\ op = "write" => call = "save"
BY Where DEF IInv, CallInv

(* The portion of the value that goes to the current zone fits it, is not  *)
(* empty, and has the pieces that belong there.                            *)
LEMMA Cut ==
  ASSUME IInv, call = "save"
  PROVE  /\ setting \in Held /\ value \in Value(setting) /\ value.id \in Id
         /\ value.len \in 1 .. 7 /\ value.len <= MaxLen(setting)
         /\ part \in 1 .. Len(ZonesOf[setting]) /\ CurrentZone = ZonesOf[setting][part]
         /\ CurrentZone \in Zone /\ Chunks(CurrentZone) \in 1 .. 3
         /\ Before(setting, part) \in 0 .. 5 /\ Reach \in Before(setting, part) + 1 .. value.len
         /\ Reach - Before(setting, part) \in 1 .. Chunks(CurrentZone)
         /\ Portion \in Seq(Content) /\ Len(Portion) = Reach - Before(setting, part)
         /\ \A i \in 1 .. Len(Portion) : Portion[i] = Piece(value, Before(setting, part) + i)
         /\ Reach < value.len => /\ part + 1 \in 1 .. Len(ZonesOf[setting])
                                 /\ Before(setting, part + 1) = Reach
<1> DEFINE b == Before(setting, part)
           z == CurrentZone
           n == Len(ZonesOf[setting])
<1>1. setting \in Held /\ part \in 1 .. n /\ value \in Value(setting) /\ b < value.len
  BY DEF IInv, CallInv
<1>2. z = ZonesOf[setting][part] /\ z \in Zone /\ Chunks(z) \in 1 .. 3
  BY <1>1, HeldZones, ChunkIs DEF CurrentZone
<1>3. /\ b \in 0 .. 5 /\ Before(setting, part + 1) = b + Chunks(z) /\ n \in 1 .. 3
      /\ MaxLen(setting) \in 1 .. 7 /\ Before(setting, n + 1) = MaxLen(setting)
  BY <1>1, <1>2, Layout, HeldZones
<1>4. value.id \in Id /\ value.len \in 1 .. 7 /\ value.len <= MaxLen(setting)
  BY <1>1, <1>3 DEF Value
<1>5. Reach = IF value.len <= b + Chunks(z) THEN value.len ELSE b + Chunks(z)
  BY DEF Reach
<1> HIDE DEF z, n, b
<1>6. Reach \in b + 1 .. value.len /\ Reach - b \in 1 .. Chunks(z)
  <2> DEFINE len == value.len
  <2>1. len \in Nat /\ b \in Nat /\ Chunks(z) \in 1 .. 3 /\ b < len
    BY <1>1, <1>2, <1>3, <1>4
  <2> HIDE DEF len
  <2>2. Reach = IF len <= b + Chunks(z) THEN len ELSE b + Chunks(z)
    BY <1>5 DEF len
  <2>3. Reach \in b + 1 .. len /\ Reach - b \in 1 .. Chunks(z)
    BY <2>1, <2>2
  <2> QED BY <2>3 DEF len
<1>7. Reach < value.len => part + 1 \in 1 .. n /\ Before(setting, part + 1) = Reach
  <2> SUFFICES ASSUME Reach < value.len PROVE part + 1 \in 1 .. n /\ Before(setting, part + 1) = Reach
    OBVIOUS
  <2>1. Reach = b + Chunks(z)
    BY <1>4, <1>5
  <2>2. part # n
    BY <2>1, <1>3, <1>4
  <2> QED BY <1>1, <1>3, <2>1, <2>2
<1> DEFINE ps == Pieces(value)
<1>8. ps \in Seq(Content) /\ Len(ps) = value.len /\ \A k \in 1 .. value.len : ps[k] = Piece(value, k)
  BY <1>4, PieceIs DEF Pieces
<1> HIDE DEF ps
<1>9. Portion = SubSeq(ps, b + 1, Reach)
  BY DEF Portion, ps, b
<1>10. /\ Portion \in Seq(Content) /\ Len(Portion) = Reach - b
       /\ \A i \in 1 .. Reach - b : Portion[i] = ps[b + i]
  <2>1. b \in Nat /\ Reach \in Nat /\ b + 1 <= Reach /\ Reach <= Len(ps)
    BY <1>3, <1>4, <1>6, <1>8
  <2> QED BY <1>8, <1>9, <2>1
<1>11. \A i \in 1 .. Len(Portion) : Portion[i] = Piece(value, b + i)
  <2> TAKE i \in 1 .. Len(Portion)
  <2>1. i \in 1 .. Reach - b /\ b + i \in 1 .. value.len
    <3> DEFINE len == value.len
               r == Reach
    <3>1. b \in 0 .. 5 /\ len \in 1 .. 7 /\ r \in b + 1 .. len /\ i \in 1 .. r - b
      BY <1>3, <1>4, <1>6, <1>10
    <3> HIDE DEF len, r
    <3>2. b + i \in 1 .. len
      BY <3>1
    <3> QED BY <3>1, <3>2 DEF len, r
  <2> QED BY <1>8, <1>10, <2>1
<1> QED BY <1>1, <1>2, <1>3, <1>4, <1>6, <1>7, <1>10, <1>11 DEF z, n, b
-----------------------------------------------------------------------------
(* What LoadAll goes through.                                              *)

(* The list has every setting but DEVICE_CERT, once.                       *)
LEMMA OrderIs ==
  /\ Len(LoadOrder) = 13
  /\ \A i \in 1 .. 13 : LoadOrder[i] \in Setting
  /\ \A i, j \in 1 .. 13 : LoadOrder[i] = LoadOrder[j] => i = j
  /\ \A s \in Setting \ {"DEVICE_CERT"} : \E i \in 1 .. 13 : LoadOrder[i] = s
<1>1. Len(LoadOrder) = 13
  BY DEF LoadOrder
<1>2. \A i \in 1 .. 13 : i \in {1, 2, 3, 4, 5, 6, 7, 8, 9, 10, 11, 12, 13}
  OBVIOUS
<1>3. \A i \in 1 .. 13 : LoadOrder[i] \in Setting
  BY <1>2 DEF LoadOrder, Setting
<1>4. \A i, j \in 1 .. 13 : LoadOrder[i] = LoadOrder[j] => i = j
  BY <1>2 DEF LoadOrder
<1>5. \A s \in Setting \ {"DEVICE_CERT"} : \E i \in 1 .. 13 : LoadOrder[i] = s
  BY DEF LoadOrder, Setting
<1> QED BY <1>1, <1>3, <1>4, <1>5

(* The setting that is due, or none at the end of the list.                *)
LEMMA DueIs ==
  /\ \A i \in 1 .. 14 : Due(i) \in Setting \cup {"none"}
  /\ \A i \in 1 .. 13 : Due(i) = LoadOrder[i]
  /\ Due(14) = "none" /\ "none" \notin Held
  /\ \A s \in Held : s \in Setting
BY OrderIs, HeldZones DEF Due, Setting

-----------------------------------------------------------------------------
(* What stays where it is.                                                 *)

(* The places of a setting are 1 .. MaxLen.                                *)
LEMMA RowIs ==
  ASSUME NEW s \in Held, TypeOK
  PROVE  /\ MaxLen(s) \in 1 .. 7 /\ Len(Row(s)) = MaxLen(s) /\ Row(s) \in Seq(Content)
         /\ \A k \in 1 .. MaxLen(s) : Row(s)[k] = cell[Cells[s][k]]
<1>1. DOMAIN Cells[s] = 1 .. MaxLen(s) /\ MaxLen(s) \in 1 .. 7
  BY Layout DEF Cells
<1>2. \A k \in 1 .. MaxLen(s) : cell[Cells[s][k]] \in Content
  BY PlaceIsChunk DEF TypeOK, CallTypeOK, HistoryTypeOK, EepromTypeOK
<1> QED BY <1>1, <1>2 DEF Row

(* What only the current zone's chunks change, leaves the other settings   *)
(* and this one's zones before it.                                         *)
LEMMA Elsewhere ==
  ASSUME IInv, waiting, \A c \in Chunk : c[1] # zone => cell'[c] = cell[c]
  PROVE  /\ \A s \in Held : s # setting =>
              \A k \in 1 .. MaxLen(s) : cell'[Cells[s][k]] = cell[Cells[s][k]]
         /\ \A k \in 1 .. Before(setting, part) :
              /\ k \in 1 .. MaxLen(setting)
              /\ cell'[Cells[setting][k]] = cell[Cells[setting][k]]
<1>1. setting \in Held /\ part \in 1 .. Len(ZonesOf[setting]) /\ zone = ZonesOf[setting][part]
  BY Where
<1>2. /\ Before(setting, part) \in 0 .. 5 /\ MaxLen(setting) \in 1 .. 7
      /\ Before(setting, part) < MaxLen(setting)
  <2>1. /\ Before(setting, part) \in 0 .. 5 /\ MaxLen(setting) \in 1 .. 7
        /\ Before(setting, part + 1) = Before(setting, part) + Chunks(zone)
        /\ Before(setting, part + 1) \in 1 .. MaxLen(setting)
        /\ Chunks(zone) \in 1 .. 3
    BY <1>1, Layout, Where
  <2> QED BY <2>1
<1>3. ASSUME NEW s \in Held, NEW k \in 1 .. MaxLen(s),
             s # setting \/ k \in 1 .. Before(setting, part)
      PROVE  cell'[Cells[s][k]] = cell[Cells[s][k]]
  <2>1. Cells[s][k][1] # zone
    <3> SUFFICES ASSUME Cells[s][k][1] = zone PROVE FALSE
      OBVIOUS
    <3>1. s = setting /\ k - Before(setting, part) \in 1 .. Chunks(zone)
      BY <1>1, Address
    <3>2. Chunks(zone) \in 1 .. 3
      BY Where
    <3> QED BY <1>2, <1>3, <3>1, <3>2
  <2> QED BY <2>1, PlaceIsChunk
<1>4. ASSUME NEW k \in 1 .. Before(setting, part)
      PROVE  k \in 1 .. MaxLen(setting)
  BY <1>2
<1> QED BY <1>1, <1>3, <1>4
(* A step that leaves the chunks and the history of a setting alone keeps  *)
(* what is known of it; a doubt or a failure more makes it weaker.         *)
LEMMA HeldKeeps ==
  ASSUME IInv, NEW s \in Held, doubt'[s] = doubt[s], acked'[s] = acked[s],
         hurt \subseteq hurt', harm' = harm \/ (harm = "none" /\ harm' = "lost") \/ harm' = "mixed",
         keyed' = keyed \/ keyed', keyed \in BOOLEAN,
         \A k \in 1 .. MaxLen(s) : cell'[Cells[s][k]] = cell[Cells[s][k]]
  PROVE  DurableAt(s)' /\ WholeAt(s)'
<1>1. DurableAt(s) /\ WholeAt(s)
  BY DEF IInv, DurableInv, WholeInv
<1>2. MaxLen(s) \in 1 .. 7
  BY Layout
<1>3. Blank(s)' <=> Blank(s)
  BY <1>2 DEF Blank
<1>4. ASSUME NEW v \in acked[s] \cup doubt[s]
      PROVE  Holds(s, v)' <=> Holds(s, v)
  <2>1. v \in Value(s)
    BY DEF IInv, TypeOK, CallTypeOK, HistoryTypeOK
  <2>2. v.len \in 1 .. MaxLen(s)
    BY <2>1 DEF Value
  <2>3. \A k \in 1 .. v.len : k \in 1 .. MaxLen(s)
    BY <1>2, <2>2
  <2> QED BY <2>3 DEF Holds, HoldsUpTo
<1>5. harm \in {"none", "lost", "mixed"}
  BY DEF IInv, TypeOK, CallTypeOK, HistoryTypeOK
<1>6. DurableAt(s)'
  BY <1>1, <1>3, <1>4, <1>5 DEF DurableAt
<1>7. Small(s)' => Small(s)
  BY DEF Small
<1>8. WholeAt(s)'
  BY <1>1, <1>3, <1>4, <1>5, <1>7 DEF WholeAt
<1> QED BY <1>6, <1>8

(* So does one that leaves all of them alone.                              *)
LEMMA AllHeldKeep ==
  ASSUME IInv, UNCHANGED <<cell, keyed, acked, doubt, hurt, harm>>
  PROVE  DurableInv' /\ WholeInv'
BY HeldKeeps DEF IInv, TypeOK, CallTypeOK, HistoryTypeOK, EepromTypeOK, DurableInv, WholeInv

(* A setting is as before when neither it nor its chunks are touched and   *)
(* the key is at most set.                                                 *)
LEMMA KeyKeeps ==
  ASSUME IInv, UNCHANGED <<cell, acked, doubt>>, hurt \subseteq hurt', keyed' = keyed \/ keyed',
         harm' = harm \/ (harm = "none" /\ harm' = "lost") \/ harm' = "mixed"
  PROVE  DurableInv' /\ WholeInv'
<1>1. keyed \in BOOLEAN
  BY DEF IInv, TypeOK, EepromTypeOK
<1> QED BY <1>1, HeldKeeps DEF DurableInv, WholeInv

-----------------------------------------------------------------------------
(* The steps of the calls.                                                 *)

(* At first the chip is blank and nothing was saved.                       *)
LEMMA InitEstablishes ==
  ASSUME Init
  PROVE  IInv
<1> USE DEF Init, EepromInit
<1>1. TypeOK
  <2>1. Erased \in Content /\ 0 \in Zone /\ 0 \in 0 .. MaxFaults
    BY ZoneChunks, FaultsAssumption DEF Content
  <2>2. EepromTypeOK(Content)
    <3>1. cell \in [Chunk -> Content]
      BY <2>1
    <3>2. <<>> \in Seq(Content)
      OBVIOUS
    <3>3. data \in Seq(Content) /\ got \in Seq(Content)
      BY <3>2
    <3>4. want \in 0 .. 3 /\ at \in 0 .. 6 /\ faults \in 0 .. MaxFaults /\ zone \in Zone
      BY <2>1
    <3> QED BY <3>1, <3>3, <3>4 DEF EepromTypeOK
  <2>3. CallTypeOK
    <3>1. <<>> \in Seq(Content)
      OBVIOUS
    <3>2. ram \in [Held -> Seq(Content)] /\ buffer \in Seq(Content)
      BY <3>1 DEF Held
    <3>3. part \in 1 .. 3 /\ turn \in 1 .. Len(LoadOrder) + 1 /\ setting = "none"
      BY OrderIs
    <3> QED BY <3>2, <3>3 DEF CallTypeOK
  <2>4. HistoryTypeOK
    BY CountsAssumption DEF HistoryTypeOK, Held
  <2> QED BY <2>2, <2>3, <2>4 DEF TypeOK
<1>2. CallInv /\ OpInv /\ SealInv /\ SaveInv /\ LoadInv
  BY DEF CallInv, OpInv, SealInv, SaveInv, LoadInv
<1>3. \A s \in Held : Blank(s)
  BY PlaceIsChunk, Layout DEF Blank
<1>4. DurableInv /\ WholeInv
  BY <1>3 DEF DurableInv, WholeInv, DurableAt, WholeAt, Held
<1> QED BY <1>1, <1>2, <1>4 DEF IInv

(* The board starts.                                                       *)
LEMMA BootKeeps ==
  ASSUME IInv, Boot
  PROVE  IInv'
<1> USE DEF Boot
<1>1. TypeOK /\ CallInv /\ OpInv /\ SealInv /\ SaveInv
  BY DEF IInv
<1>2. turn' \in 1 .. 14 /\ setting' = Due(turn')
  BY OrderIs
<1>3. op = "none" /\ ~waiting /\ value = NoValue
  BY <1>1 DEF CallInv
<1>4. TypeOK'
  <2>1. EepromTypeOK(Content)' /\ HistoryTypeOK'
    BY <1>1 DEF TypeOK, EepromTypeOK, HistoryTypeOK, eepromVars, opVars, history
  <2>2. setting' \in Setting \cup {"none"}
    BY <1>2, DueIs
  <2>3. CallTypeOK'
    BY <1>1, <1>2, <1>3, <2>2, OrderIs DEF TypeOK, CallTypeOK
  <2> QED BY <2>1, <2>3 DEF TypeOK
<1>5. CallInv'
  <2>1. setting' \in Held => part' \in 1 .. Len(ZonesOf[setting'])
    BY FirstPart
  <2> QED BY <1>1, <1>2, <1>3, <2>1 DEF CallInv, eepromVars, opVars
<1>6. OpInv' /\ SealInv' /\ SaveInv'
  BY <1>1, <1>3 DEF OpInv, SealInv, SaveInv, eepromVars, opVars, history
<1>7. LoadInv'
  <2>1. setting' \in Held => Before(setting', part') = 0
    BY FirstPart
  <2>2. success' => turn' = 1
    OBVIOUS
  <2> QED BY <1>3, <2>1, <2>2 DEF LoadInv
<1>8. DurableInv' /\ WholeInv'
  BY AllHeldKeep DEF eepromVars, history
<1> QED BY <1>4, <1>5, <1>6, <1>7, <1>8 DEF IInv

(* LoadAll goes on to the next setting of its list.                        *)
LEMMA NextDue ==
  ASSUME turn \in 1 .. 13, LoadNext
  PROVE  /\ turn' \in 2 .. 14 /\ turn' = turn + 1 /\ setting' = Due(turn')
         /\ setting' \in Setting \cup {"none"} /\ part' = 1 /\ buffer' = <<>>
         /\ setting' \in Held => /\ part' \in 1 .. Len(ZonesOf[setting'])
                                 /\ Before(setting', part') = 0
<1>1. turn' = turn + 1 /\ setting' = Due(turn') /\ part' = 1 /\ buffer' = <<>>
  BY DEF LoadNext
<1>2. turn' \in 2 .. 14
  BY <1>1
<1> QED BY <1>1, <1>2, DueIs, FirstPart

(* A setting the profile has not is passed by.                             *)
LEMMA LoadSkipKeeps ==
  ASSUME IInv, LoadSkip
  PROVE  IInv'
<1>1. TypeOK /\ CallInv /\ OpInv /\ SealInv /\ SaveInv /\ LoadInv
  BY DEF IInv
<1>0. /\ call = "load" /\ LoadNext /\ UNCHANGED <<eepromVars, call, waiting, value, success, ram, history>>
      /\ setting \notin Held
  BY DEF LoadSkip
<1>2. turn \in 1 .. 13 /\ setting = Due(turn)
  BY <1>1, OrderIs DEF CallInv, TypeOK, CallTypeOK, LoadSkip
<1>3. turn' \in 2 .. 14 /\ turn' = turn + 1
  BY <1>0, <1>2, NextDue
<1>4. /\ setting' = Due(turn') /\ part' = 1 /\ buffer' = <<>> /\ setting' \in Setting \cup {"none"}
      /\ setting' \in Held => /\ part' \in 1 .. Len(ZonesOf[setting'])
                              /\ Before(setting', part') = 0
  BY <1>0, <1>2, NextDue
<1>5. ~waiting /\ op = "none" /\ value = NoValue
  BY <1>0, <1>1 DEF CallInv
<1>6. TypeOK'
  <2>1. EepromTypeOK(Content)' /\ HistoryTypeOK'
    BY <1>0, <1>1 DEF TypeOK, EepromTypeOK, HistoryTypeOK, eepromVars, opVars, history
  <2>2. turn' \in 1 .. Len(LoadOrder) + 1
    BY <1>3, OrderIs
  <2>3. buffer' \in Seq(Content) /\ part' \in 1 .. 3
    BY <1>4
  <2>4. CallTypeOK'
    BY <1>0, <1>1, <1>4, <1>5, <2>2, <2>3 DEF TypeOK, CallTypeOK
  <2> QED BY <2>1, <2>4 DEF TypeOK
<1>7. CallInv'
  BY <1>0, <1>1, <1>4, <1>5 DEF CallInv, eepromVars, opVars
<1>8. OpInv' /\ SealInv' /\ SaveInv'
  BY <1>0, <1>1, <1>5 DEF OpInv, SealInv, SaveInv, eepromVars, opVars, history
<1>9. LoadInv'
  <2>1. \A s : RamHas(s)' = RamHas(s)
    BY <1>0, <1>1 DEF RamHas, Row, eepromVars
  <2>2. \A i \in 1 .. turn' - 1 : i \in 1 .. turn - 1 \/ i = turn
    BY <1>2, <1>3
  <2>3. LoadOrder[turn] \notin Held
    BY <1>0, <1>2, DueIs
  <2>4. success' => \A i \in 1 .. turn' - 1 :
          LoadOrder[i] \in Held \ Tolerated => RamHas(LoadOrder[i])'
    BY <1>0, <1>1, <2>1, <2>2, <2>3 DEF LoadInv
  <2>5. Len(buffer') = 0
    BY <1>4
  <2> QED BY <1>0, <1>4, <1>5, <2>4, <2>5 DEF LoadInv, eepromVars, opVars
<1>10. DurableInv' /\ WholeInv'
  BY <1>0, AllHeldKeep DEF eepromVars, history
<1> QED BY <1>6, <1>7, <1>8, <1>9, <1>10 DEF IInv

(* LoadAll asks for a zone.                                                *)
LEMMA LoadZoneKeeps ==
  ASSUME IInv, LoadZone
  PROVE  IInv'
<1> USE DEF LoadZone, StartRead
<1>1. TypeOK /\ CallInv /\ OpInv /\ SealInv /\ SaveInv /\ LoadInv
  BY DEF IInv
<1>2. part \in 1 .. Len(ZonesOf[setting]) /\ setting \in Held /\ part' = part /\ setting' = setting
  BY <1>1 DEF CallInv
<1>3. CurrentZone = ZonesOf[setting][part] /\ CurrentZone \in Zone /\ Chunks(CurrentZone) \in 1 .. 3
      /\ CurrentZone' = CurrentZone /\ zone' = CurrentZone
  BY <1>2, HeldZones, ChunkIs DEF CurrentZone
<1>4. BufferChunks \in 1 .. 3 /\ BufferChunks' = BufferChunks
  BY <1>2, <1>3 DEF BufferChunks
<1>5. TypeOK'
  <2>1. EepromTypeOK(Content)'
    BY <1>1, <1>3, <1>4 DEF TypeOK, EepromTypeOK
  <2>2. CallTypeOK' /\ HistoryTypeOK'
    BY <1>1 DEF TypeOK, CallTypeOK, HistoryTypeOK, history
  <2> QED BY <2>1, <2>2 DEF TypeOK
<1>6. CallInv'
  BY <1>1, <1>2, <1>3 DEF CallInv
<1>7. OpInv' /\ SealInv' /\ SaveInv'
  BY <1>1, <1>4 DEF OpInv, SealInv, SaveInv, history
<1>8. LoadInv'
  <2>1. \A s : RamHas(s)' = RamHas(s)
    BY DEF RamHas, Row
  <2> QED BY <1>1, <2>1 DEF LoadInv, ReadInFull
<1>9. DurableInv' /\ WholeInv'
  BY AllHeldKeep DEF history
<1> QED BY <1>5, <1>6, <1>7, <1>8, <1>9 DEF IInv

(* LoadAll is through its list.                                            *)
LEMMA LoadDoneKeeps ==
  ASSUME IInv, LoadDone
  PROVE  IInv'
<1> USE DEF LoadDone
<1>1. TypeOK /\ CallInv /\ OpInv /\ SealInv /\ SaveInv /\ LoadInv
  BY DEF IInv
<1>2. turn = 14 /\ setting = "none" /\ setting \notin Held
  BY <1>1, OrderIs, DueIs DEF TypeOK, CallTypeOK, CallInv
<1>3. ~waiting /\ op = "none"
  BY <1>1, <1>2 DEF CallInv, TypeOK, CallTypeOK
<1>4. TypeOK'
  BY <1>1 DEF TypeOK, CallTypeOK, HistoryTypeOK, EepromTypeOK, eepromVars, opVars, history
<1>5. CallInv' /\ OpInv' /\ SealInv' /\ SaveInv' /\ LoadInv'
  BY <1>1, <1>3 DEF CallInv, OpInv, SealInv, SaveInv, LoadInv, eepromVars, opVars, history
<1>6. DurableInv' /\ WholeInv'
  BY AllHeldKeep DEF eepromVars, history
<1> QED BY <1>4, <1>5, <1>6 DEF IInv

(* What the caller's return leaves of the chip's operation: nothing.       *)
LEMMA Returned ==
  ASSUME IInv, EepromReturn
  PROVE  /\ EepromTypeOK(Content)' /\ op' = "none" /\ OpInv'
         /\ UNCHANGED <<cell, sealed, keyed, faults>>
<1>1. op' = "none" /\ UNCHANGED <<cell, sealed, keyed, faults>>
  BY DEF EepromReturn, Forget
<1>2. EepromTypeOK(Content)'
  <2>1. <<>> \in Seq(Content) /\ 0 \in Zone
    BY ZoneChunks
  <2> QED BY <2>1 DEF IInv, TypeOK, EepromTypeOK, EepromReturn, Forget
<1> QED BY <1>1, <1>2 DEF OpInv

(* A zone that was read: LoadAll appends it, and after the last one the    *)
(* buffer has what the chip has.                                           *)
LEMMA ReadZone ==
  ASSUME IInv, call = "load", waiting, op = "none", result = "ok"
  PROVE  /\ buffer \o got \in Seq(Content) /\ 1 <= Len(buffer \o got)
         /\ setting # "DEVICE_ID" =>
              /\ Len(buffer \o got) = Before(setting, part) + Chunks(CurrentZone)
              /\ \A k \in 1 .. Len(buffer \o got) : (buffer \o got)[k] = cell[Cells[setting][k]]
<1>1. /\ setting \in Held /\ part \in 1 .. Len(ZonesOf[setting]) /\ zone = CurrentZone
      /\ CurrentZone = ZonesOf[setting][part] /\ Chunks(CurrentZone) \in 1 .. 3
  BY Where
<1>2. buffer \in Seq(Content) /\ got \in Seq(Content)
  BY DEF IInv, TypeOK, EepromTypeOK, CallTypeOK
<1>3. /\ Len(buffer) = Before(setting, part) /\ got = ZoneRow(zone, BufferChunks)
      /\ \A k \in 1 .. Len(buffer) : buffer[k] = cell[Cells[setting][k]]
  BY <1>1 DEF IInv, LoadInv, ReadInFull
<1>4. Before(setting, part) \in 0 .. 5
  BY <1>1, Layout
<1>5. buffer \o got \in Seq(Content) /\ 1 <= Len(buffer \o got)
  <2>1. BufferChunks \in 1 .. 3
    BY <1>1 DEF BufferChunks
  <2>2. Len(got) = BufferChunks
    BY <1>3, <2>1 DEF ZoneRow
  <2> QED BY <1>2, <2>1, <2>2
<1>6. ASSUME setting # "DEVICE_ID"
      PROVE  /\ Len(buffer \o got) = Before(setting, part) + Chunks(CurrentZone)
             /\ \A k \in 1 .. Len(buffer \o got) : (buffer \o got)[k] = cell[Cells[setting][k]]
  <2> DEFINE n == Chunks(CurrentZone)
             b == Before(setting, part)
  <2>1. BufferChunks = n
    BY <1>6 DEF BufferChunks
  <2>2. Len(got) = n /\ \A i \in 1 .. n : got[i] = cell[<<CurrentZone, i>>]
    BY <1>1, <1>3, <2>1 DEF ZoneRow
  <2>3. \A i \in 1 .. n : Cells[setting][b + i] = <<CurrentZone, i>>
    BY <1>1, CellAt
  <2>4. n \in 1 .. 3 /\ b \in 0 .. 5 /\ Len(buffer) = b
    BY <1>1, <1>3, <1>4
  <2> HIDE DEF n, b
  <2>5. Len(buffer \o got) = b + n
    BY <1>2, <2>2, <2>4
  <2>6. ASSUME NEW k \in 1 .. b + n
        PROVE  (buffer \o got)[k] = cell[Cells[setting][k]]
    <3>1. CASE k <= b
      <4>1. (buffer \o got)[k] = buffer[k] /\ k \in 1 .. Len(buffer)
        BY <1>2, <2>4, <3>1
      <4> QED BY <4>1, <1>3
    <3>2. CASE k > b
      <4>1. (buffer \o got)[k] = got[k - b] /\ k - b \in 1 .. n /\ b + (k - b) = k
        BY <1>2, <2>2, <2>4, <3>2
      <4> QED BY <4>1, <2>2, <2>3
    <3>3. k \in Int /\ b \in Int
      BY <2>4
    <3>4. k <= b \/ k > b
      BY <3>3
    <3> QED BY <3>1, <3>2, <3>4
  <2> QED BY <2>5, <2>6 DEF n, b
<1> QED BY <1>5, <1>6

(* LoadAll has the answer of the chip.                                     *)
LEMMA LoadGotKeeps ==
  ASSUME IInv, LoadGot
  PROVE  IInv'
<1>1. TypeOK /\ CallInv /\ OpInv /\ SealInv /\ SaveInv /\ LoadInv
  BY DEF IInv
<1>0. /\ call = "load" /\ waiting /\ op = "none" /\ waiting' = FALSE /\ EepromReturn
      /\ UNCHANGED <<call, value, history>>
  BY DEF LoadGot
<1>2. /\ setting \in Held /\ part \in 1 .. Len(ZonesOf[setting]) /\ Len(ZonesOf[setting]) \in 1 .. 3
      /\ CurrentZone = ZonesOf[setting][part] /\ turn \in 1 .. 13 /\ setting = Due(turn)
      /\ setting = LoadOrder[turn]
  <2>1. setting \in Held /\ setting = Due(turn) /\ turn \in 1 .. 14
    BY <1>0, <1>1, OrderIs DEF CallInv, TypeOK, CallTypeOK
  <2>2. turn # 14
    BY <2>1, DueIs
  <2>3. turn \in 1 .. 13
    BY <2>1, <2>2
  <2> QED BY <1>0, <2>1, <2>3, Where, FirstPart, DueIs
<1>3. EepromTypeOK(Content)' /\ op' = "none" /\ OpInv' /\ UNCHANGED <<cell, sealed, keyed, faults>>
  BY <1>0, Returned
<1>4. HistoryTypeOK' /\ value = NoValue
  BY <1>0, <1>1 DEF TypeOK, HistoryTypeOK, history, CallInv
<1>5. SealInv' /\ SaveInv'
  BY <1>0, <1>1, <1>3 DEF SealInv, SaveInv, history
<1>6. DurableInv' /\ WholeInv'
  BY <1>0, <1>3, AllHeldKeep DEF history
<1>7. \A s : Row(s)' = Row(s)
  BY <1>3 DEF Row
<1>8. CASE /\ result = "ok" /\ part < Len(ZonesOf[setting])
           /\ part' = part + 1 /\ buffer' = buffer \o got
           /\ UNCHANGED <<setting, turn, success, ram>>
  <2>1. buffer' \in Seq(Content) /\ part' \in 1 .. Len(ZonesOf[setting])
    BY <1>0, <1>2, <1>8, ReadZone
  <2>2. TypeOK'
    <3>1. part' \in 1 .. 3
      <4> DEFINE n == Len(ZonesOf[setting])
      <4>1. n \in 1 .. 3 /\ part' \in 1 .. n
        BY <1>2, <2>1
      <4> HIDE DEF n
      <4> QED BY <4>1
    <3>2. CallTypeOK'
      BY <1>0, <1>1, <1>8, <2>1, <3>1 DEF TypeOK, CallTypeOK
    <3> QED BY <1>3, <1>4, <3>2 DEF TypeOK
  <2>3. CallInv'
    BY <1>0, <1>1, <1>2, <1>3, <1>4, <1>8, <2>1 DEF CallInv
  <2>4. setting # "DEVICE_ID"
    <3>1. Len(ZonesOf[setting]) # 1
      <4> DEFINE n == Len(ZonesOf[setting])
      <4>1. n \in 1 .. 3 /\ part \in 1 .. n /\ part < n
        BY <1>2, <1>8
      <4> HIDE DEF n
      <4> QED BY <4>1 DEF n
    <3> QED BY <1>2, <3>1, DeviceIdZone
  <2>5. Len(buffer') = Before(setting, part) + Chunks(CurrentZone)
        /\ \A k \in 1 .. Len(buffer') : buffer'[k] = cell[Cells[setting][k]]
    BY <1>0, <1>8, <2>4, ReadZone
  <2>6. Len(buffer') = Before(setting', part')
    BY <1>2, <1>8, <2>5, Layout
  <2>7. LoadInv'
    BY <1>0, <1>1, <1>3, <1>7, <1>8, <2>5, <2>6 DEF LoadInv, RamHas
  <2> QED BY <1>3, <1>5, <1>6, <2>2, <2>3, <2>7 DEF IInv
<1>9. ASSUME LoadNext, NEW text \in Seq(Content), ram' = [ram EXCEPT ![setting] = text],
             success' \in BOOLEAN, success' => success,
             success' /\ setting \notin Tolerated => text \in Loaded(setting, Row(setting))
      PROVE  IInv'
  <2>1. turn' \in 2 .. 14 /\ turn' = turn + 1
    BY <1>2, <1>9, NextDue
  <2>2. /\ setting' = Due(turn') /\ part' = 1 /\ buffer' = <<>> /\ setting' \in Setting \cup {"none"}
        /\ setting' \in Held => /\ part' \in 1 .. Len(ZonesOf[setting'])
                                /\ Before(setting', part') = 0
    BY <1>2, <1>9, NextDue
  <2>3. /\ ram \in [Held -> Seq(Content)] /\ ram' \in [Held -> Seq(Content)]
        /\ ram'[setting] = text /\ \A s \in Held : s # setting => ram'[s] = ram[s]
    BY <1>1, <1>2, <1>9 DEF TypeOK, CallTypeOK
  <2>4. TypeOK'
    <3>1. turn' \in 1 .. Len(LoadOrder) + 1
      BY <2>1, OrderIs
    <3>2. buffer' \in Seq(Content) /\ part' \in 1 .. 3
      BY <2>2
    <3> QED BY <1>0, <1>1, <1>3, <1>4, <1>9, <2>2, <2>3, <3>1, <3>2 DEF TypeOK, CallTypeOK
  <2>5. CallInv'
    BY <1>0, <1>1, <1>3, <1>4, <2>2 DEF CallInv
  <2>6. ASSUME success', NEW i \in 1 .. turn' - 1, LoadOrder[i] \in Held \ Tolerated
        PROVE  RamHas(LoadOrder[i])'
    <3>1. i \in 1 .. turn - 1 \/ i = turn
      BY <1>2, <2>1
    <3>2. CASE i = turn
      BY <1>2, <1>7, <1>9, <2>3, <2>6, <3>2 DEF RamHas
    <3>3. CASE i \in 1 .. turn - 1
      <4>1. LoadOrder[i] # LoadOrder[turn]
        <5>1. i \in 1 .. 13 /\ i # turn /\ turn \in 1 .. 13
          BY <1>2, <3>3
        <5> QED BY <5>1, OrderIs
      <4>2. RamHas(LoadOrder[i])
        BY <1>0, <1>1, <1>9, <2>6, <3>3 DEF LoadInv
      <4> QED BY <1>2, <1>7, <2>3, <2>6, <4>1, <4>2 DEF RamHas
    <3> QED BY <3>1, <3>2, <3>3
  <2>7. Len(buffer') = 0
    BY <2>2
  <2>8. LoadInv'
    BY <1>0, <2>2, <2>6, <2>7 DEF LoadInv
  <2> QED BY <1>3, <1>5, <1>6, <2>4, <2>5, <2>8 DEF IInv
<1>10. CASE /\ result = "ok" /\ part = Len(ZonesOf[setting]) /\ LoadNext
            /\ \E text \in Loaded(setting, buffer \o got) :
                 ram' = [ram EXCEPT ![setting] = text]
            /\ UNCHANGED success
  <2>0. PICK text \in Loaded(setting, buffer \o got) : ram' = [ram EXCEPT ![setting] = text]
    BY <1>10
  <2>1. buffer \o got \in Seq(Content) /\ 1 <= Len(buffer \o got)
    BY <1>0, <1>10, ReadZone
  <2>2. text \in Seq(Content)
    BY <2>0, <2>1, LoadedType
  <2>3. ASSUME setting \notin Tolerated
        PROVE  text \in Loaded(setting, Row(setting))
    <3>1. setting # "DEVICE_ID"
      BY <2>3 DEF Tolerated
    <3> DEFINE bg == buffer \o got
    <3>2. Len(bg) = Before(setting, part) + Chunks(CurrentZone)
          /\ \A k \in 1 .. Len(bg) : bg[k] = cell[Cells[setting][k]]
      BY <1>0, <1>10, <3>1, ReadZone
    <3>3. Before(setting, part) + Chunks(CurrentZone) = MaxLen(setting)
      BY <1>2, <1>10, Layout
    <3> HIDE DEF bg
    <3>4. bg \in Seq(Content) /\ Len(bg) = MaxLen(setting)
      BY <2>1, <3>2, <3>3 DEF bg
    <3>5. bg = Row(setting)
      <4>1. Len(Row(setting)) = MaxLen(setting) /\ Row(setting) \in Seq(Content)
            /\ \A k \in 1 .. MaxLen(setting) : Row(setting)[k] = cell[Cells[setting][k]]
        BY <1>1, <1>2, RowIs
      <4> QED BY <3>2, <3>4, <4>1
    <3> QED BY <2>0, <3>5 DEF bg
  <2>4. success \in BOOLEAN
    BY <1>1 DEF TypeOK, CallTypeOK
  <2> QED BY <1>9, <1>10, <2>0, <2>2, <2>3, <2>4
<1>11. CASE /\ result = "error" /\ LoadNext /\ ram' = [ram EXCEPT ![setting] = <<>>]
            /\ success' = AfterError
  <2>1. <<>> \in Seq(Content) /\ success \in BOOLEAN
    BY <1>1 DEF TypeOK, CallTypeOK
  <2>2. success' \in BOOLEAN /\ (success' => success /\ setting \in Tolerated)
    BY <1>11, <2>1 DEF AfterError
  <2> QED BY <1>9, <1>11, <2>1, <2>2
<1> QED BY <1>8, <1>10, <1>11 DEF LoadGot

(* Between two calls the chip has nothing to do.                           *)
LEMMA Between ==
  ASSUME IInv, ~waiting, call # "enable"
  PROVE  op = "none"
BY DEF IInv, CallInv

(* A save begins.                                                          *)
LEMMA SaveBeginKeeps ==
  ASSUME IInv, NEW s \in Editable, NEW v \in Value(s), SaveBegin(s, v)
  PROVE  IInv'
<1>1. TypeOK /\ CallInv /\ OpInv /\ SealInv
  BY DEF IInv
<1>0. /\ call = "idle" /\ saves < MaxSaves
      /\ call' = "save" /\ setting' = s /\ value' = v /\ part' = 1
      /\ doubt' = [doubt EXCEPT ![s] = @ \cup {v}] /\ saves' = saves + 1
      /\ UNCHANGED <<eepromVars, waiting, turn, buffer, success, ram, acked, hurt, harm, powerFails>>
  BY DEF SaveBegin
<1>2. s \in Held /\ s \in Setting
  BY ActiveAssumption, HeldZones DEF Held
<1>3. ~waiting /\ op = "none"
  BY <1>0, <1>1, Between DEF CallInv
<1>4. /\ DOMAIN doubt = Held /\ doubt'[s] = doubt[s] \cup {v}
      /\ \A t \in Held : t # s => doubt'[t] = doubt[t]
      /\ DOMAIN doubt' = Held
  BY <1>0, <1>1, <1>2 DEF TypeOK, HistoryTypeOK
<1>5. v.len \in 1 .. MaxLen(s) /\ Before(s, 1) = 0 /\ 1 \in 1 .. Len(ZonesOf[s])
  BY <1>2, FirstPart DEF Value
<1>6. TypeOK'
  <2>1. EepromTypeOK(Content)'
    BY <1>0, <1>1 DEF TypeOK, EepromTypeOK, eepromVars, opVars
  <2>2. CallTypeOK'
    BY <1>0, <1>1, <1>2 DEF TypeOK, CallTypeOK
  <2>3. saves' \in 0 .. MaxSaves
    BY <1>0, <1>1, CountsAssumption DEF TypeOK, HistoryTypeOK
  <2>4. \A t \in Held : acked'[t] \subseteq Value(t) /\ doubt'[t] \subseteq Value(t)
    BY <1>0, <1>1, <1>4 DEF TypeOK, HistoryTypeOK
  <2>5. HistoryTypeOK'
    BY <1>0, <1>1, <1>4, <2>3, <2>4 DEF TypeOK, HistoryTypeOK
  <2> QED BY <2>1, <2>2, <2>5 DEF TypeOK
<1>7. CallInv'
  <2>1. Before(setting', part') < value'.len
    <3>1. Before(setting', part') = 0 /\ value'.len = v.len
      BY <1>0, <1>5
    <3>2. MaxLen(s) \in 1 .. 7
      BY <1>2, Layout
    <3> QED BY <1>5, <3>1, <3>2
  <2>2. op' = "none" /\ waiting' = FALSE
    BY <1>0, <1>1, <1>3 DEF eepromVars, opVars, TypeOK, CallTypeOK
  <2> QED BY <1>0, <1>2, <1>4, <1>5, <2>1, <2>2 DEF CallInv
<1>8. OpInv' /\ SealInv'
  BY <1>0, <1>1, <1>3 DEF OpInv, SealInv, eepromVars, opVars
<1>9. SaveInv' /\ LoadInv'
  <2>1. HoldsUpTo(setting, value, Before(setting, part))'
    BY <1>0, <1>5 DEF HoldsUpTo
  <2> QED BY <1>0, <1>3, <2>1 DEF SaveInv, LoadInv, eepromVars, opVars
<1>10. ASSUME NEW t \in Held
       PROVE  DurableAt(t)' /\ WholeAt(t)'
  <2>1. CASE t # s
    <3>1. \A k \in 1 .. MaxLen(t) : cell'[Cells[t][k]] = cell[Cells[t][k]]
      BY <1>0 DEF eepromVars
    <3>2. keyed \in BOOLEAN /\ keyed' = keyed
      BY <1>0, <1>1 DEF TypeOK, EepromTypeOK, eepromVars
    <3> QED BY <1>0, <1>4, <2>1, <3>1, <3>2, HeldKeeps
  <2>2. CASE t = s
    <3>1. DurableAt(t)'
      BY <1>4, <2>2 DEF DurableAt
    <3>2. WholeAt(t)'
      BY <1>0, <1>4, <2>2 DEF IInv, WholeInv, WholeAt, Small, Holds, HoldsUpTo, Blank, eepromVars
    <3> QED BY <3>1, <3>2
  <2> QED BY <2>1, <2>2
<1> QED BY <1>6, <1>7, <1>8, <1>9, <1>10 DEF IInv, DurableInv, WholeInv

(* A save sends the next portion.                                          *)
LEMMA SaveZoneKeeps ==
  ASSUME IInv, SaveZone
  PROVE  IInv'
<1>1. TypeOK /\ CallInv /\ OpInv /\ SealInv /\ SaveInv
  BY DEF IInv
<1>0. /\ call = "save" /\ op' = "write" /\ zone' = CurrentZone /\ data' = Portion
      /\ want' = Len(Portion) /\ got' = <<>> /\ at' = 0 /\ waiting' = TRUE
      /\ UNCHANGED <<cell, sealed, keyed, result, faults>>
      /\ UNCHANGED <<call, setting, value, part, turn, buffer, success, ram, history>>
  BY DEF SaveZone, StartWrite
<1>2. /\ Portion \in Seq(Content) /\ Len(Portion) \in 1 .. 3
      /\ CurrentZone \in Zone /\ CurrentZone' = CurrentZone /\ Portion' = Portion
      /\ setting \in Held
  <2>1. /\ Portion \in Seq(Content) /\ CurrentZone \in Zone /\ Chunks(CurrentZone) \in 1 .. 3
        /\ Len(Portion) \in 1 .. Chunks(CurrentZone) /\ setting \in Held
    BY <1>0, Cut
  <2>2. CurrentZone' = CurrentZone
    BY <1>0 DEF CurrentZone
  <2>3. Portion' = Portion
    BY <1>0, <2>2 DEF Portion, Reach
  <2>4. Len(Portion) \in 1 .. 3
    <3> DEFINE n == Chunks(CurrentZone)
               len == Len(Portion)
    <3>1. n \in 1 .. 3 /\ len \in 1 .. n
      BY <2>1
    <3> HIDE DEF n, len
    <3>2. len \in 1 .. 3
      BY <3>1
    <3> QED BY <3>2 DEF len
  <2> QED BY <2>1, <2>2, <2>3, <2>4
<1>3. TypeOK'
  <2>1. EepromTypeOK(Content)'
    <3>1. <<>> \in Seq(Content)
      OBVIOUS
    <3> QED BY <1>0, <1>1, <1>2, <3>1 DEF TypeOK, EepromTypeOK
  <2>2. CallTypeOK' /\ HistoryTypeOK'
    BY <1>0, <1>1 DEF TypeOK, CallTypeOK, HistoryTypeOK, history
  <2> QED BY <2>1, <2>2 DEF TypeOK
<1>4. CallInv'
  BY <1>0, <1>1, <1>2 DEF CallInv, history
<1>5. OpInv'
  BY <1>0, <1>2 DEF OpInv
<1>6. SealInv'
  BY <1>0, <1>1, <1>2, Between DEF SealInv, CallInv, history
<1>7. SaveInv' /\ LoadInv'
  BY <1>0, <1>1, <1>2 DEF SaveInv, LoadInv, HoldsUpTo, WrittenSoFar
<1>8. DurableInv' /\ WholeInv'
  BY <1>0, AllHeldKeep DEF history
<1> QED BY <1>3, <1>4, <1>5, <1>6, <1>7, <1>8 DEF IInv

(* A save has the answer of the chip.                                      *)
LEMMA SaveGotKeeps ==
  ASSUME IInv, SaveGot
  PROVE  IInv'
<1>1. TypeOK /\ CallInv /\ OpInv /\ SealInv /\ SaveInv
  BY DEF IInv
<1>0. /\ call = "save" /\ waiting /\ op = "none" /\ waiting' = FALSE /\ EepromReturn
      /\ UNCHANGED <<turn, buffer, success, ram, hurt, harm, saves, powerFails>>
  BY DEF SaveGot
<1>2. EepromTypeOK(Content)' /\ op' = "none" /\ OpInv' /\ UNCHANGED <<cell, sealed, keyed, faults>>
  BY <1>0, Returned
<1>3. SealInv'
  BY <1>0, <1>1, <1>2 DEF SealInv
<1>4. setting \in Held /\ value \in Value(setting)
  BY <1>0, Cut
<1>5. CASE /\ result = "ok" /\ Reach < value.len /\ part' = part + 1
           /\ UNCHANGED <<call, setting, value, acked, doubt>>
  <2>1. part' \in 1 .. Len(ZonesOf[setting]) /\ Before(setting, part') = Reach
    BY <1>0, <1>5, Cut
  <2>2. Len(ZonesOf[setting]) \in 1 .. 3
    BY <1>4, FirstPart
  <2>3. part' \in 1 .. 3
    <3> DEFINE n == Len(ZonesOf[setting])
    <3>1. n \in 1 .. 3 /\ part' \in 1 .. n
      BY <2>1, <2>2
    <3> HIDE DEF n
    <3> QED BY <3>1
  <2>4. CallTypeOK' /\ HistoryTypeOK'
    BY <1>0, <1>1, <1>5, <2>3 DEF TypeOK, CallTypeOK, HistoryTypeOK
  <2>5. CallInv'
    BY <1>0, <1>1, <1>2, <1>4, <1>5, <2>1 DEF CallInv
  <2>6. HoldsUpTo(setting, value, Reach)
    BY <1>0, <1>1, <1>5 DEF SaveInv, WrittenSoFar
  <2>7. SaveInv' /\ LoadInv'
    BY <1>0, <1>2, <1>5, <2>1, <2>6 DEF SaveInv, LoadInv, HoldsUpTo
  <2>8. DurableInv' /\ WholeInv'
    BY <1>0, <1>2, <1>5, AllHeldKeep
  <2> QED BY <1>2, <1>3, <2>4, <2>5, <2>7, <2>8 DEF IInv, TypeOK
<1>6. ASSUME SaveReturns
      PROVE  /\ CallTypeOK' /\ CallInv' /\ SaveInv' /\ LoadInv'
  <2>1. call' = "idle" /\ setting' = "none" /\ value' = NoValue /\ part' = 1
    BY <1>6 DEF SaveReturns
  <2>2. CallTypeOK
    BY <1>1 DEF TypeOK
  <2>3. part' \in 1 .. 3
    BY <2>1
  <2>4. setting' \in Setting \cup {"none"} /\ waiting' \in BOOLEAN
    BY <1>0, <2>1
  <2>5. CallTypeOK'
    BY <1>0, <2>1, <2>2, <2>3, <2>4 DEF CallTypeOK
  <2> QED BY <1>0, <1>2, <2>1, <2>5 DEF CallInv, SaveInv, LoadInv
<1>7. CASE /\ result = "ok" /\ Reach = value.len /\ SaveReturns
           /\ acked' = [acked EXCEPT ![setting] = {value}]
           /\ doubt' = [doubt EXCEPT ![setting] = {}]
  <2>1. /\ acked'[setting] = {value} /\ doubt'[setting] = {}
        /\ \A t \in Held : t # setting => acked'[t] = acked[t] /\ doubt'[t] = doubt[t]
        /\ DOMAIN acked' = Held /\ DOMAIN doubt' = Held
    BY <1>1, <1>4, <1>7 DEF TypeOK, HistoryTypeOK
  <2>2. HistoryTypeOK'
    BY <1>0, <1>1, <1>4, <2>1 DEF TypeOK, HistoryTypeOK
  <2>3. Holds(setting, value)
    BY <1>0, <1>1, <1>7 DEF SaveInv, Holds, WrittenSoFar
  <2>4. \A k \in 1 .. value.len : cell'[Cells[setting][k]] = Piece(value, k)
    BY <1>2, <2>3 DEF Holds, HoldsUpTo
  <2>5. ASSUME NEW t \in Held
        PROVE  DurableAt(t)' /\ WholeAt(t)'
    <3>1. CASE t # setting
      <4>1. keyed \in BOOLEAN
        BY <1>1 DEF TypeOK, EepromTypeOK
      <4> QED BY <1>0, <1>2, <2>1, <3>1, <4>1, HeldKeeps
    <3>2. CASE t = setting
      <4> DEFINE v == value
                 s == setting
      <4> HIDE DEF v, s
      <4>1. acked'[s] = {v} /\ doubt'[s] = {} /\ t = s
            /\ \A k \in 1 .. v.len : cell'[Cells[s][k]] = Piece(v, k)
        BY <2>1, <2>4, <3>2 DEF v, s
      <4>2. v \in acked'[t] /\ v \in acked'[t] \cup doubt'[t] /\ acked'[t] # {}
            /\ \A k \in 1 .. v.len : cell'[Cells[t][k]] = Piece(v, k)
        BY <4>1
      <4>3. DurableAt(t)'
        BY <4>2 DEF DurableAt, Holds, HoldsUpTo
      <4>4. WholeAt(t)'
        BY <4>2 DEF WholeAt, Holds, HoldsUpTo
      <4> QED BY <4>3, <4>4
    <3> QED BY <3>1, <3>2
  <2> QED BY <1>2, <1>3, <1>6, <1>7, <2>2, <2>5 DEF IInv, TypeOK, DurableInv, WholeInv
<1>8. CASE result = "error" /\ SaveReturns /\ UNCHANGED <<acked, doubt>>
  <2>1. HistoryTypeOK'
    BY <1>0, <1>1, <1>8 DEF TypeOK, HistoryTypeOK
  <2>2. DurableInv' /\ WholeInv'
    BY <1>0, <1>2, <1>8, AllHeldKeep
  <2> QED BY <1>2, <1>3, <1>6, <1>8, <2>1, <2>2 DEF IInv, TypeOK
<1> QED BY <1>5, <1>7, <1>8 DEF SaveGot

(* The console asks for the secure channel.                                *)
LEMMA EnableBeginKeeps ==
  ASSUME IInv, EnableBegin
  PROVE  IInv'
<1>1. TypeOK /\ CallInv /\ OpInv /\ SealInv
  BY DEF IInv
<1>0. /\ call = "idle" /\ call' = "enable"
      /\ StartEnable \/ EnableAgain
      /\ UNCHANGED <<waiting, setting, value, part, turn, buffer, success, ram, history>>
  BY DEF EnableBegin
<1>2. ~waiting /\ value = NoValue
  BY <1>0, <1>1 DEF CallInv
<1>3. CallTypeOK' /\ HistoryTypeOK'
  BY <1>0, <1>1 DEF TypeOK, CallTypeOK, HistoryTypeOK, history
<1>4. SaveInv' /\ LoadInv'
  BY <1>0 DEF SaveInv, LoadInv
<1>5. CASE EnableAgain
  <2>1. /\ op' = "none" /\ result' = "already"
        /\ UNCHANGED <<cell, sealed, keyed, zone, data, want, got, at, faults>> /\ op = "none"
    BY <1>5 DEF EnableAgain, Finish
  <2>2. EepromTypeOK(Content)'
    BY <1>1, <2>1 DEF TypeOK, EepromTypeOK
  <2>3. CallInv' /\ OpInv' /\ SealInv'
    BY <1>0, <1>1, <1>2, <2>1 DEF CallInv, OpInv, SealInv, history
  <2>4. DurableInv' /\ WholeInv'
    BY <1>0, <2>1, AllHeldKeep DEF history
  <2> QED BY <1>3, <1>4, <2>2, <2>3, <2>4 DEF IInv, TypeOK
<1>6. CASE StartEnable
  <2>1. /\ op = "none" /\ ~keyed /\ op' = "fetch" /\ zone' = 0 /\ got' = <<>> /\ at' = 0
        /\ UNCHANGED <<cell, sealed, data, want, result>>
        /\ (NoFault /\ keyed' = TRUE) \/ (Fault /\ keyed' = keyed)
    BY <1>6 DEF StartEnable
  <2>2. EepromTypeOK(Content)'
    <3>1. <<>> \in Seq(Content) /\ 0 \in Zone
      BY ZoneChunks
    <3>2. keyed' \in BOOLEAN
      BY <1>1, <2>1 DEF TypeOK, EepromTypeOK
    <3>3. faults' = faults \/ (faults < MaxFaults /\ faults' = faults + 1)
      BY <2>1 DEF NoFault, Fault
    <3>4. faults' \in 0 .. MaxFaults
      BY <1>1, <3>3, FaultsAssumption DEF TypeOK, EepromTypeOK
    <3> QED BY <1>1, <2>1, <3>1, <3>2, <3>4 DEF TypeOK, EepromTypeOK
  <2>3. CallInv' /\ OpInv'
    BY <1>0, <1>1, <1>2, <2>1 DEF CallInv, OpInv
  <2>4. SealInv'
    <3>1. \A c \in Chunk : c[1] >= 0
      BY ChunkIs, ZoneChunks
    <3> QED BY <2>1, <3>1 DEF SealInv
  <2>5. keyed' = keyed \/ keyed'
    BY <2>1
  <2>6. DurableInv' /\ WholeInv'
    BY <1>0, <2>1, <2>5, KeyKeeps DEF history
  <2> QED BY <1>3, <1>4, <2>2, <2>3, <2>4, <2>6 DEF IInv, TypeOK
<1> QED BY <1>0, <1>5, <1>6

(* The console has its answer.                                             *)
LEMMA EnableGotKeeps ==
  ASSUME IInv, EnableGot
  PROVE  IInv'
<1>1. TypeOK /\ CallInv /\ OpInv /\ SealInv
  BY DEF IInv
<1>0. /\ call = "enable" /\ op = "none" /\ call' = "idle" /\ EepromReturn
      /\ UNCHANGED <<waiting, setting, value, part, turn, buffer, success, ram, history>>
  BY DEF EnableGot
<1>2. EepromTypeOK(Content)' /\ op' = "none" /\ OpInv' /\ UNCHANGED <<cell, sealed, keyed, faults>>
  BY <1>0, Returned
<1>3. CallTypeOK' /\ HistoryTypeOK'
  BY <1>0, <1>1 DEF TypeOK, CallTypeOK, HistoryTypeOK, history
<1>4. CallInv' /\ SealInv' /\ SaveInv' /\ LoadInv'
  BY <1>0, <1>1, <1>2 DEF CallInv, SealInv, SaveInv, LoadInv, history
<1>5. DurableInv' /\ WholeInv'
  BY <1>0, <1>2, AllHeldKeep DEF history
<1> QED BY <1>2, <1>3, <1>4, <1>5 DEF IInv, TypeOK

(* The power fails: an enabling that had begun leaves chunks unsealed.     *)
LEMMA PowerFailKeeps ==
  ASSUME IInv, PowerFail
  PROVE  IInv'
<1>1. TypeOK /\ CallInv /\ OpInv /\ SealInv
  BY DEF IInv
<1>0. /\ powerFails < MaxPowerFails /\ powerFails' = powerFails + 1 /\ EepromReturn
      /\ call' = "off" /\ waiting' = FALSE /\ setting' = "none" /\ value' = NoValue
      /\ turn' = 1 /\ buffer' = <<>> /\ part' = 1 /\ success' = TRUE
      /\ ram' = [s \in Held |-> <<>>]
      /\ harm' = IF op \in {"fetch", "seal"} /\ keyed /\ harm = "none" THEN "lost" ELSE harm
      /\ UNCHANGED <<acked, doubt, hurt, saves>>
  BY DEF PowerFail
<1>2. EepromTypeOK(Content)' /\ op' = "none" /\ OpInv' /\ UNCHANGED <<cell, sealed, keyed, faults>>
  BY <1>0, Returned
<1>3. CallTypeOK'
  <2>1. <<>> \in Seq(Content)
    OBVIOUS
  <2>2. ram' \in [Held -> Seq(Content)] /\ buffer' \in Seq(Content)
    BY <1>0, <2>1
  <2>3. turn' \in 1 .. Len(LoadOrder) + 1 /\ part' \in 1 .. 3
    BY <1>0, OrderIs
  <2>4. setting' \in Setting \cup {"none"} /\ success' \in BOOLEAN /\ waiting' \in BOOLEAN
    BY <1>0
  <2> QED BY <1>0, <2>2, <2>3, <2>4 DEF CallTypeOK
<1>4. HistoryTypeOK'
  <2>1. powerFails' \in 0 .. MaxPowerFails
    BY <1>0, <1>1, CountsAssumption DEF TypeOK, HistoryTypeOK
  <2> QED BY <1>0, <1>1, <2>1 DEF TypeOK, HistoryTypeOK
<1>5. CallInv' /\ SaveInv' /\ LoadInv'
  BY <1>0, <1>2 DEF CallInv, SaveInv, LoadInv
<1>6. SealInv'
  BY <1>0, <1>1, <1>2 DEF SealInv
<1>7. DurableInv' /\ WholeInv'
  BY <1>0, <1>2, KeyKeeps
<1> QED BY <1>2, <1>3, <1>4, <1>5, <1>6, <1>7 DEF IInv, TypeOK

-----------------------------------------------------------------------------
(* The steps of the chip.                                                  *)

(* A row of contents is a sequence.                                        *)
LEMMA RowType ==
  ASSUME NEW S, NEW n \in Nat, NEW f \in [1 .. n -> S]
  PROVE  f \in Seq(S) /\ Len(f) = n
OBVIOUS

(* What a step of the chip leaves alone, and what it does to the history.  *)
LEMMA ChipHistory ==
  ASSUME IInv, ChipStep, EepromTypeOK(Content)'
  PROVE  /\ TypeOK' /\ hurt \subseteq hurt' /\ op # "none"
         /\ harm' = harm \/ (harm = "none" /\ harm' = "lost") \/ harm' = "mixed"
         /\ UNCHANGED callVars /\ UNCHANGED <<acked, doubt>>
<1>1. TypeOK /\ CallInv
  BY DEF IInv
<1>2. op # "none"
  BY DEF ChipStep, EepromStep, PlainRead, EnvelopeGet, PlainWrite, EnvelopeStore, EnableFetch, EnableStore
<1>3. call # "enable" => setting \in Held
  BY <1>1, <1>2, Where DEF CallInv
<1>4. hurt' = (IF faults' # faults /\ call # "enable" THEN hurt \cup {setting} ELSE hurt)
      /\ UNCHANGED callVars /\ UNCHANGED <<acked, doubt, saves, powerFails>>
  BY DEF ChipStep
<1>5. harm' = IF call = "enable" /\ faults' # faults
                THEN IF op = "fetch" \/ harm = "mixed" THEN "mixed" ELSE "lost"
                ELSE harm
  BY DEF ChipStep
<1>6. harm \in {"none", "lost", "mixed"} /\ hurt \subseteq Held
  BY <1>1 DEF TypeOK, HistoryTypeOK
<1>7. /\ harm' \in {"none", "lost", "mixed"}
      /\ harm' = harm \/ (harm = "none" /\ harm' = "lost") \/ harm' = "mixed"
  BY <1>5, <1>6
<1>8. hurt' \subseteq Held /\ hurt \subseteq hurt'
  BY <1>3, <1>4, <1>6
<1>9. CallTypeOK'
  BY <1>1, <1>4 DEF TypeOK, CallTypeOK, callVars
<1>10. HistoryTypeOK'
  BY <1>1, <1>4, <1>7, <1>8 DEF TypeOK, HistoryTypeOK
<1> QED BY <1>2, <1>4, <1>7, <1>8, <1>9, <1>10 DEF TypeOK

(* A step of a read or a write keeps the invariant when it stays in its    *)
(* zone, goes on or ends, and keeps what is known of its own setting.      *)
LEMMA Serving ==
  ASSUME IInv, ChipStep, op \in {"read", "write"},
         EepromTypeOK(Content)', OpInv',
         \A c \in Chunk : c[1] # zone => cell'[c] = cell[c],
         sealed \subseteq sealed', UNCHANGED <<keyed, zone>>,
         op' = op \/ (op' = "none" /\ result' \in {"ok", "error"}),
         call = "save" => WrittenSoFar', call = "load" => ReadInFull',
         \A s \in Held : s = setting => DurableAt(s)' /\ WholeAt(s)'
  PROVE  IInv'
<1>1. CallInv /\ OpInv /\ SealInv /\ SaveInv /\ LoadInv
  BY DEF IInv
<1>2. /\ waiting /\ call \in {"save", "load"} /\ setting \in Held /\ zone = CurrentZone
      /\ op = IF call = "save" THEN "write" ELSE "read"
  BY Serves, Where
<1>3. /\ TypeOK' /\ hurt \subseteq hurt'
      /\ UNCHANGED <<call, waiting, setting, value, part, turn, buffer, success, ram, acked, doubt>>
  BY ChipHistory DEF callVars
<1>4. harm' = harm
  BY <1>2 DEF ChipStep
<1>5. CurrentZone' = CurrentZone
  BY <1>3 DEF CurrentZone
<1>6. CallInv'
  BY <1>1, <1>2, <1>3, <1>5 DEF CallInv
<1>7. SealInv'
  BY <1>1, <1>2, <1>4 DEF SealInv
<1>8. /\ \A s \in Held : s # setting =>
           \A k \in 1 .. MaxLen(s) : cell'[Cells[s][k]] = cell[Cells[s][k]]
      /\ \A k \in 1 .. Before(setting, part) : cell'[Cells[setting][k]] = cell[Cells[setting][k]]
  BY <1>2, Elsewhere
<1>9. SaveInv'
  <2>1. call = "save" => HoldsUpTo(setting, value, Before(setting, part))'
    BY <1>1, <1>3, <1>8 DEF SaveInv, HoldsUpTo
  <2> QED BY <1>3, <2>1 DEF SaveInv
<1>10. LoadInv'
  <2> SUFFICES ASSUME call = "load" PROVE LoadInv'
    BY <1>3 DEF LoadInv
  <2>1. \A s \in Held : s # setting => RamHas(s)' = RamHas(s)
    <3> SUFFICES ASSUME NEW s \in Held, s # setting PROVE RamHas(s)' = RamHas(s)
      OBVIOUS
    <3>1. DOMAIN Cells[s] = 1 .. MaxLen(s)
      BY DEF Cells
    <3>2. Row(s)' = Row(s)
      BY <1>8, <3>1 DEF Row
    <3> QED BY <1>3, <3>2 DEF RamHas
  <2>2. setting = Due(turn) /\ turn \in 1 .. 14
    BY <1>1, OrderIs DEF CallInv, IInv, TypeOK, CallTypeOK
  <2>3. ASSUME NEW i \in 1 .. turn - 1
        PROVE  LoadOrder[i] # setting
    <3>1. turn \in 1 .. 13 /\ i \in 1 .. 13 /\ i # turn
      <4>1. turn # 14
        BY <1>2, <2>2, DueIs
      <4> QED BY <2>2, <2>3, <4>1
    <3> QED BY <2>2, <3>1, OrderIs, DueIs
  <2>4. success' => \A i \in 1 .. turn' - 1 :
          LoadOrder[i] \in Held \ Tolerated => RamHas(LoadOrder[i])'
    BY <1>1, <1>3, <2>1, <2>3 DEF LoadInv
  <2>5. /\ Len(buffer') = Before(setting', part')
        /\ \A k \in 1 .. Len(buffer') : buffer'[k] = cell'[Cells[setting'][k]]
    BY <1>1, <1>2, <1>3, <1>8 DEF LoadInv
  <2> QED BY <1>3, <2>4, <2>5 DEF LoadInv
<1>11. ASSUME NEW s \in Held
       PROVE  DurableAt(s)' /\ WholeAt(s)'
  <2>1. CASE s = setting
    BY <2>1
  <2>2. CASE s # setting
    <3>1. keyed \in BOOLEAN
      BY DEF IInv, TypeOK, EepromTypeOK
    <3> QED BY <1>3, <1>4, <1>8, <2>2, <3>1, HeldKeeps
  <2> QED BY <2>1, <2>2
<1> QED BY <1>3, <1>6, <1>7, <1>9, <1>10, <1>11 DEF IInv, DurableInv, WholeInv

(* A zone is read plainly, or the chip fails.                              *)
LEMMA PlainReadKeeps ==
  ASSUME IInv, ChipStep, PlainRead
  PROVE  IInv'
<1>0. /\ op = "read" /\ ~keyed /\ UNCHANGED <<cell, sealed, keyed, zone, data, want, at>>
      /\ op' = "none" /\ result' \in {"ok", "error"}
      /\ result' = "ok" => got' = [i \in 1 .. want |-> cell[<<zone, i>>]]
      /\ faults' = faults \/ (faults < MaxFaults /\ faults' = faults + 1)
      /\ got' = got \/ got' = [i \in 1 .. want |-> cell[<<zone, i>>]]
  BY DEF PlainRead, Finish, Fault, NoFault
<1>1. TypeOK /\ OpInv
  BY DEF IInv
<1>2. /\ waiting /\ call = "load" /\ setting \in Held /\ zone = CurrentZone
      /\ zone \in Zone /\ Chunks(zone) \in 1 .. 3
  BY <1>0, Serves, Where
<1>3. want = BufferChunks /\ want \in 1 .. Chunks(zone)
  BY <1>0, <1>1, <1>2 DEF OpInv, BufferChunks
<1>4. EepromTypeOK(Content)'
  <2>1. \A i \in 1 .. want : cell[<<zone, i>>] \in Content
    <3> TAKE i \in 1 .. want
    <3>1. i \in Nat /\ 1 <= i /\ i <= Chunks(zone)
      BY <1>2, <1>3
    <3>2. <<zone, i>> \in Chunk
      BY <1>2, <3>1, ChunkIs
    <3> QED BY <1>1, <3>2 DEF TypeOK, EepromTypeOK
  <2>2. want \in Nat
    BY <1>1 DEF TypeOK, EepromTypeOK
  <2>3. [i \in 1 .. want |-> cell[<<zone, i>>]] \in Seq(Content)
    <3>1. [i \in 1 .. want |-> cell[<<zone, i>>]] \in [1 .. want -> Content]
      BY <2>1
    <3> QED BY <2>2, <3>1, RowType
  <2>4. got' \in Seq(Content)
    BY <1>0, <1>1, <2>3 DEF TypeOK, EepromTypeOK
  <2>5. faults' \in 0 .. MaxFaults
    BY <1>0, <1>1, FaultsAssumption DEF TypeOK, EepromTypeOK
  <2> QED BY <1>0, <1>1, <2>4, <2>5 DEF TypeOK, EepromTypeOK
<1>5. OpInv'
  BY <1>0 DEF OpInv
<1>6. UNCHANGED callVars /\ UNCHANGED <<acked, doubt>> /\ hurt \subseteq hurt' /\ harm' = harm
  BY <1>2, <1>4, ChipHistory DEF ChipStep
<1>7. call = "load" => ReadInFull'
  <2>1. BufferChunks' = BufferChunks
    BY <1>6 DEF BufferChunks, CurrentZone, callVars
  <2> QED BY <1>0, <1>3, <2>1 DEF ReadInFull, ZoneRow
<1>8. \A s \in Held : s = setting => DurableAt(s)' /\ WholeAt(s)'
  BY <1>0, <1>6, KeyKeeps DEF DurableInv, WholeInv
<1> QED BY <1>0, <1>2, <1>4, <1>5, <1>7, <1>8, Serving

(* Once all of the portion is in the zone, the value is in the setting as  *)
(* far as it reaches; a small setting then has all of it.                  *)
LEMMA Written ==
  ASSUME IInv, op = "write",
         \A c \in Chunk : c[1] # zone => cell'[c] = cell[c],
         \A i \in 1 .. Len(data) : cell'[<<zone, i>>] = data[i]
  PROVE  /\ \A k \in 1 .. Reach : cell'[Cells[setting][k]] = Piece(value, k)
         /\ Small(setting) => Reach = value.len
<1>1. OpInv /\ SaveInv
  BY DEF IInv
<1>2. /\ waiting /\ call = "save" /\ setting \in Held /\ zone = CurrentZone
      /\ zone = ZonesOf[setting][part] /\ part \in 1 .. Len(ZonesOf[setting])
      /\ zone \in Zone /\ Chunks(zone) \in 1 .. 3
  BY Serves, Where
<1>3. /\ Len(data) = Reach - Before(setting, part) /\ Len(data) \in 1 .. Chunks(zone)
      /\ Before(setting, part) \in 0 .. 5 /\ Reach \in Before(setting, part) + 1 .. value.len
      /\ value.len \in 1 .. 7 /\ value.len <= MaxLen(setting)
      /\ \A i \in 1 .. Len(data) : data[i] = Piece(value, Before(setting, part) + i)
  BY <1>1, <1>2, Cut DEF OpInv
<1>4. ASSUME NEW k \in 1 .. Reach
      PROVE  cell'[Cells[setting][k]] = Piece(value, k)
  <2> DEFINE b == Before(setting, part)
             n == Len(data)
  <2>1. b \in 0 .. 5 /\ n \in 1 .. 3 /\ Reach = b + n /\ k \in 1 .. b + n
    <3>1. Len(data) = Reach - Before(setting, part) /\ Before(setting, part) \in Int /\ Reach \in Int
          /\ Len(data) \in 1 .. 3
      BY <1>2, <1>3
    <3> QED BY <1>3, <1>4, <3>1
  <2>2. CASE k <= b
    <3>1. cell'[Cells[setting][k]] = cell[Cells[setting][k]]
      BY <1>2, <2>1, <2>2, Elsewhere
    <3>2. HoldsUpTo(setting, value, b)
      BY <1>1, <1>2 DEF SaveInv
    <3> QED BY <2>1, <2>2, <3>1, <3>2 DEF HoldsUpTo
  <2>3. CASE k > b
    <3> DEFINE i == k - b
    <3>1. i \in 1 .. n /\ b + i = k
      BY <2>1, <2>3
    <3> HIDE DEF i, b, n
    <3>2. i \in 1 .. Chunks(zone)
      BY <1>2, <1>3, <3>1 DEF n
    <3>3. Cells[setting][k] = <<zone, i>>
      BY <1>2, <3>1, <3>2, CellAt DEF b
    <3>4. cell'[<<zone, i>>] = data[i]
      BY <3>1 DEF n
    <3> QED BY <1>3, <3>1, <3>3, <3>4 DEF b, n
  <2> QED BY <2>1, <2>2, <2>3
<1>5. ASSUME Len(ZonesOf[setting]) = 1
      PROVE  Reach = value.len
  <2>1. /\ part = 1 /\ Before(setting, part) = 0 /\ MaxLen(setting) = Chunks(zone)
        /\ MaxLen(setting) \in 1 .. 7
    BY <1>2, <1>5, Layout
  <2>2. value.len <= Before(setting, part) + Chunks(CurrentZone)
    BY <1>2, <1>3, <2>1
  <2> QED BY <2>2 DEF Reach
<1>6. ASSUME MaxLen(setting) = 1
      PROVE  Reach = value.len
  BY <1>3, <1>6
<1> QED BY <1>4, <1>5, <1>6 DEF Small

(* When the value is in it, that a save of a small setting is in doubt     *)
(* matters no more.                                                        *)
LEMMA WrittenKeeps ==
  ASSUME IInv, op = "write", NEW s \in Held, s = setting,
         UNCHANGED <<keyed, acked, doubt>>,
         Small(s) => \A k \in 1 .. value.len : cell'[Cells[s][k]] = Piece(value, k)
  PROVE  DurableAt(s)' /\ WholeAt(s)'
<1>1. value \in doubt[s]
  BY Serves, Where DEF IInv, CallInv
<1>2. DurableAt(s)'
  BY <1>1 DEF DurableAt
<1>3. Small(s)' = Small(s)
  BY DEF Small
<1>4. Small(s)' => \E v \in acked'[s] \cup doubt'[s] :
                     \A k \in 1 .. v.len : cell'[Cells[s][k]] = Piece(v, k)
  BY <1>1, <1>3
<1>5. WholeAt(s)'
  BY <1>4 DEF WholeAt, Holds, HoldsUpTo
<1> QED BY <1>2, <1>5

(* A zone is written plainly, or the chip fails.                           *)
LEMMA PlainWriteKeeps ==
  ASSUME IInv, ChipStep, PlainWrite
  PROVE  IInv'
<1>0. /\ op = "write" /\ ~keyed /\ UNCHANGED <<sealed, keyed, zone, data, want, got, at>>
      /\ op' = "none" /\ result' \in {"ok", "error"}
      /\ \/ result' = "ok" /\ cell' = Holding(data, zone)
         \/ result' = "error" /\ cell' = cell
      /\ faults' = faults \/ (faults < MaxFaults /\ faults' = faults + 1)
  BY DEF PlainWrite, Finish, Fault, NoFault
<1>1. TypeOK /\ OpInv /\ SaveInv
  BY DEF IInv
<1>2. /\ waiting /\ call = "save" /\ setting \in Held /\ zone = CurrentZone
      /\ zone = ZonesOf[setting][part] /\ part \in 1 .. Len(ZonesOf[setting])
      /\ zone \in Zone /\ Chunks(zone) \in 1 .. 3
  BY <1>0, Serves, Where
<1>3. data = Portion
  BY <1>0, <1>1 DEF OpInv
<1>4. /\ Len(data) = Reach - Before(setting, part) /\ Len(data) \in 1 .. Chunks(zone)
      /\ Before(setting, part) \in 0 .. 5 /\ Reach \in Before(setting, part) + 1 .. value.len
      /\ value.len \in 1 .. 7 /\ value.len <= MaxLen(setting) /\ data \in Seq(Content)
      /\ \A i \in 1 .. Len(data) : data[i] = Piece(value, Before(setting, part) + i)
  BY <1>2, <1>3, Cut
<1>5. \A c \in Chunk : c[1] # zone => cell'[c] = cell[c]
  BY <1>0 DEF Holding
<1>6. EepromTypeOK(Content)'
  <2>1. \A c \in Chunk : c[2] \in 1 .. 3
    <3> TAKE c \in Chunk
    <3>1. c[1] \in Zone /\ c[2] \in 1 .. Chunks(c[1]) /\ Chunks(c[1]) \in 1 .. 3
      BY ChunkIs
    <3> QED BY <3>1
  <2>2. \A c \in Chunk : c[2] <= Len(data) => data[c[2]] \in Content
    <3> TAKE c \in Chunk
    <3>1. c[2] \in 1 .. 3
      BY <2>1
    <3> QED BY <1>4, <3>1
  <2>3. Holding(data, zone) \in [Chunk -> Content]
    BY <1>1, <2>2 DEF Holding, TypeOK, EepromTypeOK
  <2>4. faults' \in 0 .. MaxFaults
    BY <1>0, <1>1, FaultsAssumption DEF TypeOK, EepromTypeOK
  <2> QED BY <1>0, <1>1, <2>3, <2>4 DEF TypeOK, EepromTypeOK
<1>7. OpInv'
  BY <1>0 DEF OpInv
<1>8. /\ UNCHANGED callVars /\ UNCHANGED <<acked, doubt>> /\ hurt \subseteq hurt' /\ harm' = harm
      /\ UNCHANGED <<call, setting, value, part>>
  BY <1>2, <1>6, ChipHistory DEF ChipStep, callVars
<1>9. ASSUME result' = "ok"
      PROVE  /\ \A k \in 1 .. Reach : cell'[Cells[setting][k]] = Piece(value, k)
             /\ Small(setting) => Reach = value.len
  <2>1. \A i \in 1 .. Len(data) : cell'[<<zone, i>>] = data[i]
    <3> TAKE i \in 1 .. Len(data)
    <3>1. i \in Nat /\ 1 <= i /\ i <= Chunks(zone)
      BY <1>2, <1>4
    <3>2. <<zone, i>> \in Chunk
      BY <1>2, <3>1, ChunkIs
    <3>3. cell' = Holding(data, zone)
      BY <1>0, <1>9
    <3> QED BY <3>2, <3>3 DEF Holding
  <2> QED BY <1>0, <1>5, <2>1, Written
<1>10. call = "save" => WrittenSoFar'
  <2>1. Reach' = Reach
    BY <1>8 DEF Reach, CurrentZone
  <2> QED BY <1>0, <1>8, <1>9, <2>1 DEF WrittenSoFar, HoldsUpTo
<1>11. ASSUME NEW s \in Held, s = setting
       PROVE  DurableAt(s)' /\ WholeAt(s)'
  <2>1. CASE result' = "error"
    <3>1. cell' = cell
      BY <1>0, <2>1
    <3> QED BY <1>0, <1>8, <3>1, KeyKeeps DEF DurableInv, WholeInv
  <2>2. CASE result' = "ok"
    <3>1. Small(s) => \A k \in 1 .. value.len : cell'[Cells[s][k]] = Piece(value, k)
      BY <1>9, <1>11, <2>2
    <3> QED BY <1>0, <1>8, <1>11, <3>1, WrittenKeeps
  <2> QED BY <1>0, <2>1, <2>2
<1> QED BY <1>0, <1>2, <1>5, <1>6, <1>7, <1>10, <1>11, Serving

(* One chunk is read from its envelope; what cannot be read is overwritten *)
(* with zeros: if it was sealed, a failure of the chip is to blame, and if *)
(* it was not, enabling the secure channel has left it behind.             *)
LEMMA EnvelopeGetKeeps ==
  ASSUME IInv, ChipStep, EnvelopeGet
  PROVE  IInv'
<1> DEFINE c == <<zone, at + 1>>
<1>0. /\ op \in {"read", "write"} /\ keyed /\ at < want
      /\ UNCHANGED <<keyed, zone, data, want>>
  BY DEF EnvelopeGet
<1>1. TypeOK /\ CallInv /\ OpInv /\ SealInv /\ SaveInv /\ LoadInv
  BY DEF IInv
<1>2. /\ waiting /\ setting \in Held /\ zone = CurrentZone /\ call \in {"save", "load"}
      /\ zone = ZonesOf[setting][part] /\ part \in 1 .. Len(ZonesOf[setting])
      /\ zone \in Zone /\ Chunks(zone) \in 1 .. 3
      /\ op = IF call = "save" THEN "write" ELSE "read"
  BY <1>0, Serves, Where
<1>3. want \in 1 .. Chunks(zone) /\ at \in 0 .. want - 1 /\ want \in 1 .. 3
  <2>1. CASE op = "read"
    BY <1>0, <1>1, <1>2, <2>1 DEF OpInv, BufferChunks, TypeOK, EepromTypeOK
  <2>2. CASE op = "write"
    <3>1. want = Len(data) /\ data = Portion /\ call = "save"
      BY <1>1, <1>2, <2>2 DEF OpInv
    <3>2. want \in 1 .. Chunks(zone)
      BY <1>2, <3>1, Cut
    <3> QED BY <1>0, <1>1, <1>2, <3>2 DEF TypeOK, EepromTypeOK
  <2> QED BY <1>0, <2>1, <2>2
<1>4. c \in Chunk /\ c[1] = zone /\ c[2] = at + 1
  <2>1. at + 1 \in Nat /\ 1 <= at + 1 /\ at + 1 <= Chunks(zone)
    BY <1>2, <1>3
  <2> QED BY <1>2, <2>1, ChunkIs
<1>5. \/ /\ c \in sealed /\ NoFault /\ got' = Append(got, cell[c]) /\ at' = at + 1
         /\ \/ op = "read" /\ at' = want /\ op' = "none" /\ result' = "ok"
            \/ ~ (op = "read" /\ at' = want) /\ UNCHANGED <<op, result>>
         /\ UNCHANGED <<cell, sealed>>
      \/ /\ op' = "none" /\ result' = "error" /\ UNCHANGED <<got, at>>
         /\ \/ /\ IF c \in sealed THEN Fault ELSE NoFault
               /\ cell' = [cell EXCEPT ![c] = Erased] /\ sealed' = sealed \cup {c}
            \/ Fault /\ UNCHANGED <<cell, sealed>>
  BY DEF EnvelopeGet, Finish
<1> HIDE DEF c
<1>6. faults' \in 0 .. MaxFaults
  <2>1. faults' = faults \/ (faults < MaxFaults /\ faults' = faults + 1)
    BY <1>5 DEF Fault, NoFault
  <2> QED BY <1>1, <2>1, FaultsAssumption DEF TypeOK, EepromTypeOK
<1>7. CASE /\ c \in sealed /\ NoFault /\ got' = Append(got, cell[c]) /\ at' = at + 1
           /\ \/ op = "read" /\ at' = want /\ op' = "none" /\ result' = "ok"
              \/ ~ (op = "read" /\ at' = want) /\ UNCHANGED <<op, result>>
           /\ UNCHANGED <<cell, sealed>>
  <2>1. got \in Seq(Content) /\ cell[c] \in Content
    BY <1>1, <1>4 DEF TypeOK, EepromTypeOK
  <2>2. got' \in Seq(Content) /\ Len(got') = Len(got) + 1 /\ got'[Len(got) + 1] = cell[c]
        /\ \A i \in 1 .. Len(got) : got'[i] = got[i]
    BY <1>7, <2>1
  <2>3. EepromTypeOK(Content)'
    <3>1. at' \in 0 .. 6
      BY <1>3, <1>7
    <3>2. op' \in {"none", "read", "write", "fetch", "seal"} /\ result' \in {"none", "ok", "already", "error"}
      BY <1>1, <1>7 DEF TypeOK, EepromTypeOK
    <3> QED BY <1>0, <1>1, <1>6, <1>7, <2>2, <3>1, <3>2 DEF TypeOK, EepromTypeOK
  <2>4. /\ UNCHANGED callVars /\ UNCHANGED <<acked, doubt>> /\ hurt \subseteq hurt' /\ harm' = harm
        /\ UNCHANGED <<call, setting, value, part>>
    BY <1>2, <2>3, ChipHistory DEF ChipStep, callVars
  <2>5. BufferChunks' = BufferChunks /\ Portion' = Portion /\ Reach' = Reach
    BY <2>4 DEF BufferChunks, Portion, Reach, CurrentZone
  <2>6. ASSUME op = "read"
        PROVE  Len(got') = at' /\ \A i \in 1 .. at' : got'[i] = cell'[<<zone, i>>]
    <3>1. Len(got) = at /\ \A i \in 1 .. at : got[i] = cell[<<zone, i>>]
      BY <1>1, <2>6 DEF OpInv
    <3>2. at' = at + 1 /\ at \in Nat /\ cell' = cell
      BY <1>3, <1>7
    <3>3. \A i \in 1 .. at' : i \in 1 .. at \/ i = at + 1
      BY <3>2
    <3> QED BY <2>2, <3>1, <3>2, <3>3 DEF c
  <2>7. OpInv'
    <3>1. CASE op = "read"
      <4>1. op' = "read" => at' < want'
        BY <1>0, <1>3, <1>7, <3>1
      <4>2. op' \in {"read", "none"} /\ want = BufferChunks
        BY <1>1, <1>7, <3>1 DEF OpInv
      <4> QED BY <1>0, <2>5, <2>6, <3>1, <4>1, <4>2 DEF OpInv
    <3>2. CASE op = "write"
      <4>1. op' = "write" /\ data = Portion /\ want = Len(data) /\ Len(got) <= at
        BY <1>1, <1>7, <3>2 DEF OpInv
      <4>2. at' < 2 * want /\ Len(got') <= at'
        BY <1>3, <1>7, <2>1, <2>2, <4>1
      <4> QED BY <1>0, <2>5, <4>1, <4>2 DEF OpInv
    <3> QED BY <1>0, <3>1, <3>2
  <2>8. call = "save" => WrittenSoFar'
    <3>1. at' - want' \in -3 .. 0
      BY <1>0, <1>3, <1>7
    <3>2. call = "save" => op' = "write"
      BY <1>2, <1>7
    <3> QED BY <3>1, <3>2 DEF WrittenSoFar
  <2>9. call = "load" => ReadInFull'
    <3> SUFFICES ASSUME call = "load", op' = "none" PROVE got' = ZoneRow(zone, BufferChunks)'
      BY DEF ReadInFull
    <3>1. op = "read" /\ at' = want /\ want = BufferChunks
      BY <1>1, <1>2, <1>7 DEF OpInv
    <3>2. Len(got') = want /\ \A i \in 1 .. want : got'[i] = cell'[<<zone, i>>]
      BY <2>6, <3>1
    <3>3. got' = [i \in 1 .. want |-> cell'[<<zone, i>>]]
      BY <2>2, <3>2
    <3> QED BY <1>0, <2>5, <3>1, <3>3 DEF ZoneRow
  <2>10. \A s \in Held : s = setting => DurableAt(s)' /\ WholeAt(s)'
    BY <1>0, <1>7, <2>4, KeyKeeps DEF DurableInv, WholeInv
  <2>11. op' = op \/ (op' = "none" /\ result' \in {"ok", "error"})
    BY <1>7
  <2> QED BY <1>0, <1>7, <2>3, <2>7, <2>8, <2>9, <2>10, <2>11, Serving
<1>8. CASE /\ op' = "none" /\ result' = "error" /\ UNCHANGED <<got, at>>
           /\ \/ /\ IF c \in sealed THEN Fault ELSE NoFault
                 /\ cell' = [cell EXCEPT ![c] = Erased] /\ sealed' = sealed \cup {c}
              \/ Fault /\ UNCHANGED <<cell, sealed>>
  <2>1. EepromTypeOK(Content)'
    <3>1. cell' \in [Chunk -> Content] /\ sealed' \subseteq Chunk
      BY <1>1, <1>4, <1>8 DEF TypeOK, EepromTypeOK, Content
    <3> QED BY <1>0, <1>1, <1>6, <1>8, <3>1 DEF TypeOK, EepromTypeOK
  <2>2. /\ UNCHANGED callVars /\ UNCHANGED <<acked, doubt>> /\ hurt \subseteq hurt' /\ harm' = harm
        /\ UNCHANGED <<call, setting, value, part>>
    BY <1>2, <2>1, ChipHistory DEF ChipStep, callVars
  <2>3. OpInv' /\ (call = "save" => WrittenSoFar') /\ (call = "load" => ReadInFull')
    BY <1>8 DEF OpInv, WrittenSoFar, ReadInFull
  <2>4. sealed \subseteq sealed' /\ \A d \in Chunk : d[1] # zone => cell'[d] = cell[d]
    BY <1>1, <1>4, <1>8 DEF TypeOK, EepromTypeOK
  <2>5. ASSUME NEW s \in Held, s = setting
        PROVE  DurableAt(s)' /\ WholeAt(s)'
    <3>1. CASE UNCHANGED cell
      BY <1>0, <2>2, <3>1, KeyKeeps DEF DurableInv, WholeInv
    <3>2. CASE /\ IF c \in sealed THEN Fault ELSE NoFault
               /\ cell' = [cell EXCEPT ![c] = Erased] /\ sealed' = sealed \cup {c}
      <4>1. c \in sealed => s \in hurt'
        <5>1. Fault => faults' # faults
          BY <1>1 DEF Fault, TypeOK, EepromTypeOK
        <5> QED BY <1>2, <2>5, <3>2, <5>1 DEF ChipStep
      <4>2. harm = "none" => c \in sealed
        BY <1>0, <1>1, <1>4 DEF SealInv
      <4>3. DurableAt(s)'
        BY <2>2, <4>1, <4>2 DEF DurableAt
      <4>4. ASSUME Small(s)'
            PROVE  Blank(s)'
        <5>1. MaxLen(s) = 1 \/ (Len(ZonesOf[s]) = 1 /\ ~keyed')
          BY <4>4 DEF Small
        <5>2. MaxLen(s) = 1
          BY <1>0, <5>1
        <5>3. /\ Before(s, part) \in 0 .. 5 /\ Before(s, part + 1) = Before(s, part) + Chunks(zone)
              /\ Before(s, part + 1) \in 1 .. 1
          BY <1>2, <2>5, <5>2, Layout
        <5>4. Before(s, part) = 0 /\ Chunks(zone) = 1
          BY <1>2, <5>3
        <5>5. at = 0
          BY <1>3, <5>4
        <5>6. Cells[s][Before(s, part) + 1] = <<zone, 1>>
          BY <1>2, <2>5, <5>4, CellAt
        <5>7. Cells[s][1] = c
          BY <5>4, <5>5, <5>6 DEF c
        <5> QED BY <1>1, <1>4, <3>2, <5>7 DEF Blank, TypeOK, EepromTypeOK
      <4>5. harm \in {"none", "lost", "mixed"}
        BY <1>1 DEF TypeOK, HistoryTypeOK
      <4>6. WholeAt(s)'
        BY <2>2, <4>1, <4>2, <4>4, <4>5 DEF WholeAt
      <4> QED BY <4>3, <4>6
    <3> QED BY <1>8, <3>1, <3>2
  <2> QED BY <1>0, <1>8, <2>1, <2>3, <2>4, <2>5, Serving
<1> QED BY <1>5, <1>7, <1>8

(* One chunk is stored in its envelope: the pieces before it are there     *)
(* already, and after the last one the zone has its portion.               *)
LEMMA EnvelopeStoreKeeps ==
  ASSUME IInv, ChipStep, EnvelopeStore
  PROVE  IInv'
<1> DEFINE i == at - want + 1
           c == <<zone, i>>
<1>0. /\ op = "write" /\ keyed /\ at >= want /\ UNCHANGED <<keyed, zone, data, want, got>>
  BY DEF EnvelopeStore
<1>1. TypeOK /\ CallInv /\ OpInv /\ SealInv /\ SaveInv
  BY DEF IInv
<1>2. /\ waiting /\ call = "save" /\ setting \in Held /\ zone = CurrentZone
      /\ zone = ZonesOf[setting][part] /\ part \in 1 .. Len(ZonesOf[setting])
      /\ zone \in Zone /\ Chunks(zone) \in 1 .. 3
  BY <1>0, Serves, Where
<1>3. data = Portion /\ want = Len(data) /\ at < 2 * want /\ Len(got) <= at
  BY <1>0, <1>1 DEF OpInv
<1>4. /\ want \in 1 .. Chunks(zone) /\ want \in 1 .. 3 /\ data \in Seq(Content)
      /\ value.len \in 1 .. 7 /\ value.len <= MaxLen(setting)
  <2>1. want \in 1 .. Chunks(zone) /\ data \in Seq(Content)
        /\ value.len \in 1 .. 7 /\ value.len <= MaxLen(setting)
    BY <1>2, <1>3, Cut
  <2> QED BY <1>1, <2>1 DEF TypeOK, EepromTypeOK
<1>5. at \in 0 .. 5 /\ i \in 1 .. want
  BY <1>0, <1>1, <1>3, <1>4 DEF TypeOK, EepromTypeOK
<1>6. c \in Chunk /\ c[1] = zone /\ c[2] = i
  <2>1. i \in Nat /\ 1 <= i /\ i <= Chunks(zone)
    BY <1>2, <1>4, <1>5
  <2> QED BY <1>2, <2>1, ChunkIs
<1>7. \/ /\ NoFault /\ cell' = [cell EXCEPT ![c] = data[i]] /\ sealed' = sealed \cup {c}
         /\ at' = at + 1
         /\ \/ i = want /\ op' = "none" /\ result' = "ok"
            \/ i # want /\ UNCHANGED <<op, result>>
      \/ Fault /\ op' = "none" /\ result' = "error" /\ UNCHANGED <<cell, sealed, at>>
  BY <1>3 DEF EnvelopeStore, Finish
<1>8. \A j \in 1 .. i - 1 : cell[<<zone, j>>] = data[j]
  <2>1. \A j \in 1 .. at - want : cell[<<zone, j>>] = data[j]
    BY <1>0, <1>1, <1>2 DEF SaveInv, WrittenSoFar
  <2>2. i - 1 = at - want
    BY <1>4, <1>5
  <2> QED BY <2>1, <2>2
<1>9. at' = at + 1 => at' - want' = i /\ (i # want => at' < 2 * want) /\ Len(got) <= at + 1
  <2>1. Len(got) \in Nat
    BY <1>1 DEF TypeOK, EepromTypeOK
  <2> QED BY <1>0, <1>3, <1>4, <1>5, <2>1
<1>10. i - 1 + 1 = i /\ i \in Nat /\ \A j \in 1 .. i : j \in 1 .. i - 1 \/ j = i
  BY <1>5
<1> HIDE DEF i
<1>11. \A j \in Int : <<zone, j>> = c <=> j = i
  OBVIOUS
<1> HIDE DEF c
<1>12. faults' \in 0 .. MaxFaults
  <2>1. faults' = faults \/ (faults < MaxFaults /\ faults' = faults + 1)
    BY <1>7 DEF Fault, NoFault
  <2> QED BY <1>1, <2>1, FaultsAssumption DEF TypeOK, EepromTypeOK
<1>13. cell \in [Chunk -> Content] /\ data[i] \in Content
  BY <1>1, <1>3, <1>4, <1>5 DEF TypeOK, EepromTypeOK
<1>14. EepromTypeOK(Content)'
  <2>1. cell' \in [Chunk -> Content] /\ sealed' \subseteq Chunk
    BY <1>1, <1>6, <1>7, <1>13 DEF TypeOK, EepromTypeOK
  <2>2. at' \in 0 .. 6
    BY <1>5, <1>7
  <2>3. op' \in {"none", "read", "write", "fetch", "seal"} /\ result' \in {"none", "ok", "already", "error"}
    BY <1>1, <1>7 DEF TypeOK, EepromTypeOK
  <2> QED BY <1>0, <1>1, <1>12, <2>1, <2>2, <2>3 DEF TypeOK, EepromTypeOK
<1>15. /\ UNCHANGED callVars /\ UNCHANGED <<acked, doubt>> /\ hurt \subseteq hurt' /\ harm' = harm
       /\ UNCHANGED <<call, setting, value, part>>
  BY <1>2, <1>14, ChipHistory DEF ChipStep, callVars
<1>16. Portion' = Portion /\ Reach' = Reach
  BY <1>15 DEF Portion, Reach, CurrentZone
<1>17. /\ \A d \in Chunk : d[1] # zone => cell'[d] = cell[d]
       /\ sealed \subseteq sealed'
       /\ op' = op \/ (op' = "none" /\ result' \in {"ok", "error"})
  BY <1>6, <1>7, <1>13
<1>18. CASE Fault /\ op' = "none" /\ result' = "error" /\ UNCHANGED <<cell, sealed, at>>
  <2>1. OpInv' /\ (call = "save" => WrittenSoFar') /\ (call = "load" => ReadInFull')
    BY <1>18 DEF OpInv, WrittenSoFar, ReadInFull
  <2>2. \A s \in Held : s = setting => DurableAt(s)' /\ WholeAt(s)'
    BY <1>0, <1>15, <1>18, KeyKeeps DEF DurableInv, WholeInv
  <2> QED BY <1>0, <1>14, <1>17, <2>1, <2>2, Serving
<1>19. CASE /\ NoFault /\ cell' = [cell EXCEPT ![c] = data[i]] /\ sealed' = sealed \cup {c}
            /\ at' = at + 1
            /\ \/ i = want /\ op' = "none" /\ result' = "ok"
               \/ i # want /\ UNCHANGED <<op, result>>
  <2>1. OpInv'
    BY <1>0, <1>3, <1>9, <1>16, <1>19 DEF OpInv
  <2>2. \A j \in 1 .. i : cell'[<<zone, j>>] = data[j]
    <3> TAKE j \in 1 .. i
    <3>1. CASE j = i
      BY <1>6, <1>11, <1>13, <1>19, <3>1 DEF c
    <3>2. CASE j \in 1 .. i - 1
      <4>1. j # i
        BY <1>10, <3>2
      <4>2. <<zone, j>> # c
        BY <1>11, <4>1
      <4>3. cell'[<<zone, j>>] = cell[<<zone, j>>]
        <5>1. j \in Nat /\ 1 <= j /\ j <= Chunks(zone)
          BY <1>2, <1>4, <1>5
        <5>2. <<zone, j>> \in Chunk
          BY <1>2, <5>1, ChunkIs
        <5> QED BY <1>13, <1>19, <4>2, <5>2
      <4> QED BY <1>8, <3>2, <4>3
    <3> QED BY <1>10, <3>1, <3>2
  <2>3. ASSUME i = want
        PROVE  /\ \A k \in 1 .. Reach : cell'[Cells[setting][k]] = Piece(value, k)
               /\ Small(setting) => Reach = value.len
    BY <1>0, <1>3, <1>17, <2>2, <2>3, Written
  <2>4. call = "save" => WrittenSoFar'
    <3>1. op' = "write" => \A j \in 1 .. at' - want' : cell'[<<zone', j>>] = data'[j]
      BY <1>0, <1>9, <1>19, <2>2
    <3>2. op' = "none" /\ result' = "ok" => HoldsUpTo(setting, value, Reach)'
      BY <1>0, <1>15, <1>16, <1>19, <2>3 DEF HoldsUpTo
    <3> QED BY <3>1, <3>2 DEF WrittenSoFar
  <2>5. ASSUME Small(setting)
        PROVE  i = want /\ \A k \in 1 .. value.len : cell'[Cells[setting][k]] = Piece(value, k)
    <3>1. MaxLen(setting) = 1
      BY <1>0, <2>5 DEF Small
    <3>2. Before(setting, part) \in 0 .. 5 /\ Before(setting, part + 1) \in 1 .. 1
          /\ Before(setting, part + 1) = Before(setting, part) + Chunks(zone)
      BY <1>2, <3>1, Layout
    <3>3. Chunks(zone) = 1
      BY <1>2, <3>2
    <3>4. i = want
      BY <1>4, <1>5, <3>3
    <3> QED BY <2>3, <2>5, <3>4
  <2>6. \A s \in Held : s = setting => DurableAt(s)' /\ WholeAt(s)'
    BY <1>0, <1>15, <2>5, WrittenKeeps
  <2>7. call = "load" => ReadInFull'
    BY <1>2
  <2> QED BY <1>0, <1>14, <1>17, <2>1, <2>4, <2>6, <2>7, Serving
<1> QED BY <1>7, <1>18, <1>19

(* A step of enabling concerns no save and no load.                        *)
LEMMA Enabling ==
  ASSUME IInv, ChipStep, op \in {"fetch", "seal"}, EepromTypeOK(Content)',
         op' \in {"fetch", "seal", "none"}
  PROVE  /\ TypeOK' /\ CallInv' /\ SaveInv' /\ LoadInv' /\ call = "enable"
         /\ UNCHANGED <<acked, doubt>> /\ hurt \subseteq hurt'
         /\ harm' = IF faults' # faults
                      THEN IF op = "fetch" \/ harm = "mixed" THEN "mixed" ELSE "lost"
                      ELSE harm
<1>1. CallInv /\ call = "enable" /\ ~waiting
  BY DEF IInv, CallInv
<1>2. /\ TypeOK' /\ hurt \subseteq hurt' /\ UNCHANGED <<acked, doubt>>
      /\ UNCHANGED <<call, waiting, setting, value, part, turn, buffer, success, ram>>
  BY ChipHistory DEF callVars
<1>3. CallInv' /\ SaveInv' /\ LoadInv'
  BY <1>1, <1>2 DEF CallInv, SaveInv, LoadInv
<1>4. harm' = IF faults' # faults
                THEN IF op = "fetch" \/ harm = "mixed" THEN "mixed" ELSE "lost"
                ELSE harm
  BY <1>1 DEF ChipStep
<1> QED BY <1>1, <1>2, <1>3, <1>4

(* A zone is fetched: the buffer has what the zone has, unless the read    *)
(* failed, and then the harm is done.                                      *)
LEMMA EnableFetchKeeps ==
  ASSUME IInv, ChipStep, EnableFetch
  PROVE  IInv'
<1> DEFINE n == Chunks(zone)
           row == [i \in 1 .. n |-> cell[<<zone, i>>]]
           old == [i \in 1 .. n |-> IF i <= Len(got) THEN got[i] ELSE Erased]
<1>0. /\ op = "fetch" /\ op' = "seal" /\ at' = 0
      /\ \/ NoFault /\ got' = row
         \/ Fault /\ got' = old
      /\ UNCHANGED <<cell, sealed, keyed, zone, data, want, result>>
  BY DEF EnableFetch
<1>1. TypeOK /\ SealInv
  BY DEF IInv
<1>2. zone \in Zone /\ n \in 1 .. 3 /\ got \in Seq(Content) /\ cell \in [Chunk -> Content]
  BY <1>1, ChunkIs DEF TypeOK, EepromTypeOK
<1> HIDE DEF n
<1>3. row \in [1 .. n -> Content]
  <2>1. \A i \in 1 .. n : cell[<<zone, i>>] \in Content
    <3> TAKE i \in 1 .. n
    <3>1. i \in Nat /\ 1 <= i /\ i <= Chunks(zone)
      BY <1>2 DEF n
    <3> QED BY <1>2, <3>1, ChunkIs
  <2> QED BY <2>1
<1>4. old \in [1 .. n -> Content]
  <2>1. Erased \in Content
    BY DEF Content
  <2>2. \A i \in 1 .. n : i <= Len(got) => got[i] \in Content
    BY <1>2
  <2> QED BY <2>1, <2>2
<1>5. \A i \in 1 .. n : row[i] = cell[<<zone, i>>]
  OBVIOUS
<1> HIDE DEF row, old
<1>6. got' \in Seq(Content) /\ Len(got') = n
  BY <1>0, <1>2, <1>3, <1>4, RowType
<1>7. EepromTypeOK(Content)'
  <2>1. faults' = faults \/ (faults < MaxFaults /\ faults' = faults + 1)
    BY <1>0 DEF Fault, NoFault
  <2>2. faults' \in 0 .. MaxFaults
    BY <1>1, <2>1, FaultsAssumption DEF TypeOK, EepromTypeOK
  <2> QED BY <1>0, <1>1, <1>6, <2>2 DEF TypeOK, EepromTypeOK
<1>8. /\ TypeOK' /\ CallInv' /\ SaveInv' /\ LoadInv'
      /\ UNCHANGED <<acked, doubt>> /\ hurt \subseteq hurt'
      /\ harm' = (IF faults' # faults THEN "mixed" ELSE harm)
  BY <1>0, <1>7, Enabling
<1>9. OpInv'
  BY <1>0, <1>2, <1>6 DEF OpInv, n
<1>10. Fault => faults' # faults
  BY <1>1 DEF Fault, TypeOK, EepromTypeOK
<1>11. SealInv'
  <2>1. harm' # "mixed" => NoFault /\ got' = row /\ harm' = harm
    BY <1>0, <1>8, <1>10 DEF NoFault
  <2>2. \A c \in Chunk : c[1] \in Int /\ c[2] > 0
    <3> TAKE c \in Chunk
    <3>1. c[1] \in Zone /\ c[2] \in 1 .. Chunks(c[1]) /\ Chunks(c[1]) \in 1 .. 3
      BY ChunkIs
    <3> QED BY <3>1, ZoneChunks
  <2>3. \A c \in Chunk : c[1] >= zone => c[1] > zone \/ c[1] = zone
    BY <1>2, <2>2, ZoneChunks
  <2>4. ASSUME harm' = "none", keyed'
        PROVE  \A c \in Chunk : c \in sealed' \/ c[1] > zone' \/ (c[1] = zone' /\ c[2] > at')
    BY <1>0, <1>1, <2>1, <2>2, <2>3, <2>4 DEF SealInv
  <2> QED BY <1>0, <1>5, <2>1, <2>4 DEF SealInv, n
<1>12. DurableInv' /\ WholeInv'
  <2>1. harm' = harm \/ harm' = "mixed"
    BY <1>8
  <2> QED BY <1>0, <1>8, <2>1, KeyKeeps
<1> QED BY <1>8, <1>9, <1>11, <1>12 DEF IInv

(* The zone that is sealed next is the least of those after this one.      *)
LEMMA NextZone ==
  ASSUME NEW z \in Zone, ZonesAfter(z) # {}
  PROVE  LET y == CHOOSE y \in ZonesAfter(z) : \A x \in ZonesAfter(z) : y <= x IN
         y \in Zone /\ \A x \in Zone : x > z => y <= x
<1>1. ZonesAfter(z) \in SUBSET Nat
  BY ZoneChunks DEF ZonesAfter
<1>2. \E y \in ZonesAfter(z) : \A x \in ZonesAfter(z) : y <= x
  BY <1>1, Least
<1> QED BY <1>2 DEF ZonesAfter

(* A chunk is stored back in its envelope: until a command fails it is     *)
(* what the chunk held, and once the last one is stored all are sealed.    *)
LEMMA EnableStoreKeeps ==
  ASSUME IInv, ChipStep, EnableStore
  PROVE  IInv'
<1> DEFINE c == <<zone, at + 1>>
           y == CHOOSE y \in ZonesAfter(zone) : \A x \in ZonesAfter(zone) : y <= x
<1>0. /\ op = "seal" /\ UNCHANGED <<keyed, data, want, got>>
      /\ \/ /\ keyed /\ NoFault /\ cell' = [cell EXCEPT ![c] = got[at + 1]]
            /\ sealed' = sealed \cup {c}
            /\ \/ at + 1 < Chunks(zone) /\ at' = at + 1 /\ UNCHANGED <<op, zone, result>>
               \/ /\ ~ (at + 1 < Chunks(zone)) /\ at' = 0
                  /\ \/ ZonesAfter(zone) = {} /\ op' = "none" /\ result' = "ok" /\ zone' = zone
                     \/ ZonesAfter(zone) # {} /\ zone' = y /\ op' = "fetch" /\ result' = result
         \/ /\ IF keyed THEN Fault ELSE NoFault
            /\ op' = "none" /\ result' = "error" /\ UNCHANGED <<cell, sealed, at, zone>>
  BY DEF EnableStore, Finish
<1>1. TypeOK /\ SealInv /\ OpInv
  BY DEF IInv
<1>2. zone \in Zone /\ Chunks(zone) \in 1 .. 3 /\ at \in 0 .. Chunks(zone) - 1
      /\ Len(got) = Chunks(zone) /\ got \in Seq(Content) /\ cell \in [Chunk -> Content]
      /\ keyed \in BOOLEAN
  <2>1. zone \in Zone /\ Chunks(zone) \in 1 .. 3 /\ at \in 0 .. 6 /\ at < Chunks(zone)
        /\ Len(got) = Chunks(zone)
    BY <1>0, <1>1, ChunkIs DEF TypeOK, EepromTypeOK, OpInv
  <2> QED BY <1>1, <2>1 DEF TypeOK, EepromTypeOK
<1>3. c \in Chunk /\ c[1] = zone /\ c[2] = at + 1 /\ got[at + 1] \in Content
      /\ at + 1 \in 1 .. Chunks(zone)
  <2>1. at + 1 \in Nat /\ 1 <= at + 1 /\ at + 1 <= Chunks(zone) /\ at + 1 \in 1 .. Chunks(zone)
    BY <1>2
  <2> QED BY <1>2, <2>1, ChunkIs
<1>4. ZonesAfter(zone) # {} => y \in Zone /\ \A x \in Zone : x > zone => y <= x
  BY <1>2, NextZone
<1> HIDE DEF y
<1>5. EepromTypeOK(Content)'
  <2>1. faults' = faults \/ (faults < MaxFaults /\ faults' = faults + 1)
    BY <1>0 DEF Fault, NoFault
  <2>2. faults' \in 0 .. MaxFaults
    BY <1>1, <2>1, FaultsAssumption DEF TypeOK, EepromTypeOK
  <2>3. at' \in 0 .. 6
    BY <1>0, <1>2
  <2>4. cell' \in [Chunk -> Content] /\ sealed' \subseteq Chunk
    <3> HIDE DEF c
    <3> QED BY <1>0, <1>1, <1>2, <1>3 DEF TypeOK, EepromTypeOK
  <2>5. /\ zone' \in Zone /\ op' \in {"none", "read", "write", "fetch", "seal"}
        /\ result' \in {"none", "ok", "already", "error"}
    BY <1>0, <1>1, <1>4 DEF TypeOK, EepromTypeOK
  <2> QED BY <1>0, <1>1, <2>2, <2>3, <2>4, <2>5 DEF TypeOK, EepromTypeOK
<1>6. /\ TypeOK' /\ CallInv' /\ SaveInv' /\ LoadInv'
      /\ UNCHANGED <<acked, doubt>> /\ hurt \subseteq hurt'
      /\ harm' = (IF faults' # faults THEN IF harm = "mixed" THEN "mixed" ELSE "lost" ELSE harm)
  <2>1. op' \in {"fetch", "seal", "none"} /\ op # "fetch"
    BY <1>0
  <2> QED BY <1>0, <1>5, <2>1, Enabling
<1>7. harm \in {"none", "lost", "mixed"}
  BY <1>1 DEF TypeOK, HistoryTypeOK
<1>8. harm' = harm \/ (harm = "none" /\ harm' = "lost")
  BY <1>6, <1>7
<1>9. harm # "mixed" => cell' = cell
  <2>1. harm # "mixed" => got[at + 1] = cell[c]
    BY <1>0, <1>1, <1>3 DEF SealInv
  <2> HIDE DEF c
  <2> QED BY <1>0, <1>2, <1>3, <2>1
<1>10. DurableInv' /\ WholeInv'
  <2>1. CASE harm = "mixed"
    <3>1. harm' = "mixed"
      BY <1>6, <2>1
    <3> QED BY <3>1 DEF DurableInv, WholeInv, DurableAt, WholeAt
  <2>2. CASE harm # "mixed"
    BY <1>0, <1>6, <1>8, <1>9, <2>2, KeyKeeps
  <2> QED BY <2>1, <2>2
<1>11. OpInv'
  BY <1>0, <1>1, <1>2 DEF OpInv
<1>12. SealInv'
  <2>1. ASSUME harm' = "none", keyed', NEW d \in Chunk
        PROVE  d \in sealed' \/ (op' = "fetch" /\ d[1] >= zone')
                             \/ (op' = "seal" /\ d[1] > zone')
                             \/ (op' = "seal" /\ d[1] = zone' /\ d[2] > at')
    <3>1. harm = "none" /\ keyed
      BY <1>0, <1>7, <1>8, <2>1
    <3>2. d \in sealed \/ d[1] > zone \/ (d[1] = zone /\ d[2] > at)
      BY <1>0, <1>1, <3>1 DEF SealInv
    <3>3. d[1] \in Zone /\ d[2] \in 1 .. Chunks(d[1]) /\ d = <<d[1], d[2]>>
          /\ Chunks(d[1]) \in 1 .. 3 /\ d[1] \in Nat
      BY ChunkIs, ZoneChunks
    <3>4. faults' = faults
      BY <1>6, <2>1, <1>7
    <3>5. ~ Fault
      BY <1>1, <3>4 DEF Fault, TypeOK, EepromTypeOK
    <3>6. /\ sealed' = sealed \cup {c}
          /\ \/ at + 1 < Chunks(zone) /\ at' = at + 1 /\ UNCHANGED <<op, zone, result>>
             \/ /\ ~ (at + 1 < Chunks(zone)) /\ at' = 0
                /\ \/ ZonesAfter(zone) = {} /\ op' = "none" /\ result' = "ok" /\ zone' = zone
                   \/ ZonesAfter(zone) # {} /\ zone' = y /\ op' = "fetch" /\ result' = result
      BY <1>0, <3>1, <3>5
    <3>7. CASE d \in sealed
      BY <3>6, <3>7
    <3>8. CASE d[1] > zone
      <4>1. ZonesAfter(zone) # {}
        BY <3>3, <3>8 DEF ZonesAfter
      <4>2. y \in Nat /\ y <= d[1]
        BY <1>4, <3>3, <3>8, <4>1, ZoneChunks
      <4> QED BY <1>0, <3>3, <3>6, <3>8, <4>1, <4>2
    <3>9. CASE d[1] = zone /\ d[2] > at
      <4>1. d[2] = at + 1 \/ (d[2] > at + 1 /\ at + 1 < Chunks(zone))
        BY <1>2, <3>3, <3>9
      <4>2. d[2] = at + 1 => d = c
        BY <3>3, <3>9
      <4> HIDE DEF c
      <4> QED BY <1>0, <3>6, <3>9, <4>1, <4>2
    <3> QED BY <3>2, <3>7, <3>8, <3>9
  <2>2. op' = "seal" /\ harm' # "mixed" => \A i \in 1 .. Chunks(zone') : got'[i] = cell'[<<zone', i>>]
    <3>1. harm' # "mixed" => harm # "mixed"
      BY <1>8
    <3>2. op' = "seal" => zone' = zone
      BY <1>0
    <3> QED BY <1>0, <1>1, <1>9, <3>1, <3>2 DEF SealInv
  <2> QED BY <2>1, <2>2 DEF SealInv
<1> QED BY <1>6, <1>10, <1>11, <1>12 DEF IInv

(* Every command the chip carries out keeps the invariant.                 *)
LEMMA ChipStepKeeps ==
  ASSUME IInv, ChipStep
  PROVE  IInv'
<1>1. EepromStep
  BY DEF ChipStep
<1> QED BY <1>1, PlainReadKeeps, EnvelopeGetKeeps, PlainWriteKeeps, EnvelopeStoreKeeps,
           EnableFetchKeeps, EnableStoreKeeps DEF EepromStep

-----------------------------------------------------------------------------
(* The theorems.                                                           *)

(* Every step keeps the invariant.                                         *)
LEMMA StepKeeps ==
  ASSUME IInv, Next
  PROVE  IInv'
<1>1. ASSUME NEW s \in Editable, NEW v \in Value(s), SaveBegin(s, v)
      PROVE  IInv'
  BY <1>1, SaveBeginKeeps
<1> QED BY <1>1, BootKeeps, LoadSkipKeeps, LoadZoneKeeps, LoadGotKeeps, LoadDoneKeeps,
           SaveZoneKeeps, SaveGotKeeps, EnableBeginKeeps, EnableGotKeeps, ChipStepKeeps,
           PowerFailKeeps DEF Next

(* The board that only waits keeps the invariant.                          *)
LEMMA StutterKeeps ==
  ASSUME IInv, UNCHANGED vars
  PROVE  IInv'
<1> USE DEF vars, eepromVars, opVars, callVars, history
<1>1. TypeOK' /\ CallInv'
  BY DEF IInv, TypeOK, EepromTypeOK, CallTypeOK, HistoryTypeOK, CallInv, CurrentZone
<1>2. OpInv' /\ SealInv'
  BY DEF IInv, OpInv, SealInv, BufferChunks, CurrentZone, Portion, Reach
<1>3. SaveInv' /\ LoadInv'
  BY DEF IInv, SaveInv, WrittenSoFar, HoldsUpTo, LoadInv, ReadInFull, ZoneRow, BufferChunks,
         CurrentZone, Reach, RamHas, Row
<1>4. DurableInv' /\ WholeInv'
  BY AllHeldKeep
<1> QED BY <1>1, <1>2, <1>3, <1>4 DEF IInv

(* The inductive invariant holds in every state the board can be in: the   *)
(* chip's operation is the one the call in progress asked for, what it has *)
(* written and read so far is what the code takes it to be, and every      *)
(* setting holds what its saves and failures allow.                        *)
THEOREM InvariantHolds == Spec => []IInv
<1>1. Init => IInv
  BY InitEstablishes
<1>2. IInv /\ [Next]_vars => IInv'
  BY StepKeeps, StutterKeeps
<1> QED BY <1>1, <1>2, PTL DEF Spec

(* The state keeps its types: the part a save or a load has come to is     *)
(* always one of the setting's zones, and nothing is ever saved outside    *)
(* the settings the profile has.                                           *)
THEOREM TypeCorrect == Spec => []TypeOK
<1>1. IInv => TypeOK
  BY DEF IInv
<1> QED BY <1>1, InvariantHolds, PTL

(* What a setting's chunks hold and the string they read as.               *)
LEMMA ReadsAs ==
  ASSUME TypeOK, NEW s \in Held
  PROVE  /\ Blank(s) => Stored(s) = <<>>
         /\ \A v \in Value(s) : Holds(s, v) => Stored(s) = Pieces(v)
<1>1. MaxLen(s) \in 1 .. 7 /\ Len(Row(s)) = MaxLen(s) /\ Row(s) \in Seq(Content)
      /\ \A k \in 1 .. MaxLen(s) : Row(s)[k] = cell[Cells[s][k]]
  BY RowIs
<1>2. ASSUME Blank(s)
      PROVE  Stored(s) = <<>>
  <2>1. 1 <= Len(Row(s)) /\ 1 \in 1 .. MaxLen(s)
    BY <1>1
  <2>2. Row(s)[1] = Erased
    BY <1>1, <1>2, <2>1 DEF Blank
  <2> QED BY <1>1, <2>1, <2>2, TextBlank DEF Stored
<1>3. ASSUME NEW v \in Value(s), Holds(s, v)
      PROVE  Stored(s) = Pieces(v)
  <2>1. v.id \in Id /\ v.len \in 1 .. MaxLen(s)
    BY DEF Value
  <2>2. v.len \in 1 .. 7 /\ v.len <= Len(Row(s)) /\ \A k \in 1 .. v.len : k \in 1 .. MaxLen(s)
    BY <1>1, <2>1
  <2>3. \A k \in 1 .. v.len : Row(s)[k] = Piece(v, k)
    BY <1>1, <1>3, <2>2 DEF Holds, HoldsUpTo
  <2> QED BY <1>1, <2>1, <2>2, <2>3, TextHolds DEF Stored
<1> QED BY <1>2, <1>3

(* DeviceConfig_Save: once it returned 0 the value stays readable, through *)
(* power failures, saves and failures of the other settings and the move   *)
(* to the secure channel, until the setting itself is saved or fails.      *)
THEOREM SavedIsDurable == Spec => []Durable
<1>1. ASSUME IInv
      PROVE  Durable
  <2> SUFFICES ASSUME NEW s \in Held, doubt[s] = {}, s \notin hurt, harm = "none"
               PROVE  Stored(s) \in Acked(s)
    BY DEF Durable
  <2>1. TypeOK /\ acked[s] \subseteq Value(s)
    BY <1>1 DEF IInv, TypeOK, HistoryTypeOK
  <2>2. IF acked[s] = {} THEN Blank(s) ELSE \E v \in acked[s] : Holds(s, v)
    BY <1>1 DEF IInv, DurableInv, DurableAt
  <2>3. CASE acked[s] = {}
    BY <2>1, <2>2, <2>3, ReadsAs DEF Acked
  <2>4. CASE acked[s] # {}
    <3>1. PICK v \in acked[s] : Holds(s, v)
      BY <2>2, <2>4
    <3>2. Stored(s) = Pieces(v)
      BY <2>1, <3>1, ReadsAs
    <3> QED BY <2>4, <3>2 DEF Acked
  <2> QED BY <2>3, <2>4
<1> QED BY <1>1, InvariantHolds, PTL

(* DeviceConfig_Save, enableHostSecureChannel: a setting of one chunk, or  *)
(* of one zone while the secure channel is off, is never a mixture of two  *)
(* values, whatever was cut off or refused: it is the old one, the new one *)
(* or, after a failure, empty.                                             *)
THEOREM SmallStaysWhole == Spec => []SmallSettingsWhole
<1>1. ASSUME IInv
      PROVE  SmallSettingsWhole
  <2> SUFFICES ASSUME NEW s \in Held, harm # "mixed",
                      MaxLen(s) = 1 \/ (Len(ZonesOf[s]) = 1 /\ ~keyed)
               PROVE  \/ Stored(s) \in Acked(s) \cup {Pieces(v) : v \in doubt[s]}
                      \/ (s \in hurt \/ harm = "lost") /\ Stored(s) = <<>>
    BY DEF SmallSettingsWhole
  <2>1. TypeOK /\ acked[s] \subseteq Value(s) /\ doubt[s] \subseteq Value(s)
    BY <1>1 DEF IInv, TypeOK, HistoryTypeOK
  <2>2. \/ \E v \in acked[s] \cup doubt[s] : Holds(s, v)
        \/ Blank(s) /\ (acked[s] = {} \/ s \in hurt \/ harm = "lost")
    BY <1>1 DEF IInv, WholeInv, WholeAt, Small
  <2>3. ASSUME NEW v \in acked[s] \cup doubt[s], Holds(s, v)
        PROVE  Stored(s) \in Acked(s) \cup {Pieces(w) : w \in doubt[s]}
    <3>1. Stored(s) = Pieces(v)
      BY <2>1, <2>3, ReadsAs
    <3> QED BY <2>3, <3>1 DEF Acked
  <2>4. ASSUME Blank(s), acked[s] = {} \/ s \in hurt \/ harm = "lost"
        PROVE  \/ Stored(s) \in Acked(s)
               \/ (s \in hurt \/ harm = "lost") /\ Stored(s) = <<>>
    <3>1. Stored(s) = <<>>
      BY <2>1, <2>4, ReadsAs
    <3> QED BY <2>4, <3>1 DEF Acked
  <2> QED BY <2>2, <2>3, <2>4
<1> QED BY <1>1, InvariantHolds, PTL

(* DeviceConfig_LoadAll: when it returns true, RAM has what the chip has   *)
(* of every setting whose failed read it does not tolerate.                *)
THEOREM LoadedIsStored == Spec => []LoadAllSound
<1>1. ASSUME IInv
      PROVE  LoadAllSound
  <2> SUFFICES ASSUME call = "load", turn > Len(LoadOrder), success,
                      NEW s \in Held \ (Tolerated \cup {"DEVICE_CERT"})
               PROVE  RamHas(s)
    BY DEF LoadAllSound
  <2>1. turn = 14
    BY <1>1, OrderIs DEF IInv, TypeOK, CallTypeOK
  <2>2. \A i \in 1 .. 13 : LoadOrder[i] \in Held \ Tolerated => RamHas(LoadOrder[i])
    <3>1. \A i \in 1 .. turn - 1 :
            LoadOrder[i] \in Held \ Tolerated => RamHas(LoadOrder[i])
      BY <1>1 DEF IInv, LoadInv
    <3>2. turn - 1 = 13
      BY <2>1
    <3> QED BY <3>1, <3>2
  <2>3. PICK i \in 1 .. 13 : LoadOrder[i] = s
    BY HeldZones, OrderIs
  <2> QED BY <2>2, <2>3
<1> QED BY <1>1, InvariantHolds, PTL

(* During a save or a load a step of the chip changes no chunk outside the *)
(* zone the call has come to.                                              *)
LEMMA OnlyItsZone ==
  ASSUME IInv, EepromStep, call \in {"save", "load"}
  PROVE  waiting /\ \A c \in Chunk : c[1] # zone => cell'[c] = cell[c]
<1>1. op # "none"
  BY DEF EepromStep, PlainRead, EnvelopeGet, PlainWrite, EnvelopeStore, EnableFetch, EnableStore
<1>2. op \in {"read", "write"} /\ waiting
  BY <1>1 DEF IInv, CallInv, TypeOK, EepromTypeOK
<1>3. cell \in [Chunk -> Content]
  BY DEF IInv, TypeOK, EepromTypeOK
<1>4. ASSUME NEW c \in Chunk, c[1] # zone
      PROVE  cell'[c] = cell[c]
  <2>1. CASE PlainRead
    BY <2>1 DEF PlainRead
  <2>2. CASE EnvelopeGet
    <3>1. cell' = cell \/ cell' = [cell EXCEPT ![<<zone, at + 1>>] = Erased]
      BY <2>2 DEF EnvelopeGet
    <3> QED BY <1>3, <1>4, <3>1
  <2>3. CASE PlainWrite
    BY <1>4, <2>3 DEF PlainWrite, Holding
  <2>4. CASE EnvelopeStore
    <3>1. cell' = cell \/ cell' = [cell EXCEPT ![<<zone, at - want + 1>>] = data[at - want + 1]]
      BY <2>4 DEF EnvelopeStore
    <3> QED BY <1>3, <1>4, <3>1
  <2> QED BY <1>2, <2>1, <2>2, <2>3, <2>4 DEF EepromStep, EnableFetch, EnableStore
<1> QED BY <1>2, <1>4

(* DeviceConfig_Save and DeviceConfig_LoadAll: no step of theirs, not even *)
(* one the chip fails, changes what another setting holds.                 *)
THEOREM OthersAreUntouched == Spec => OthersUntouched
<1>1. ASSUME IInv, [Next]_vars
      PROVE  OthersKept
  <2> SUFFICES ASSUME call \in {"save", "load"}, NEW s \in Held \ {setting}
               PROVE  Stored(s)' = Stored(s)
    BY DEF OthersKept
  <2>1. ASSUME cell' = cell
        PROVE  Stored(s)' = Stored(s)
    BY <2>1 DEF Stored, Row
  <2>2. CASE ChipStep
    <3>1. waiting /\ \A c \in Chunk : c[1] # zone => cell'[c] = cell[c]
      BY <1>1, <2>2, OnlyItsZone DEF ChipStep
    <3>2. \A k \in 1 .. MaxLen(s) : cell'[Cells[s][k]] = cell[Cells[s][k]]
      BY <1>1, <3>1, Elsewhere
    <3>3. DOMAIN Cells[s] = 1 .. MaxLen(s)
      BY DEF Cells
    <3>4. Row(s)' = Row(s)
      BY <3>2, <3>3 DEF Row
    <3> QED BY <3>4 DEF Stored
  <2>3. ASSUME ~ ChipStep
        PROVE  cell' = cell
    <3>1. CASE UNCHANGED vars
      BY <3>1 DEF vars, eepromVars
    <3>2. CASE Next
      BY <2>3, <3>2 DEF Next, Boot, LoadSkip, LoadZone, StartRead, LoadGot, EepromReturn, LoadDone,
           SaveBegin, SaveZone, StartWrite, SaveGot, EnableBegin, StartEnable, EnableAgain,
           EnableGot, PowerFail, eepromVars
    <3> QED BY <1>1, <3>1, <3>2
  <2> QED BY <2>1, <2>2, <2>3
<1>2. IInv /\ [Next]_vars => [OthersKept]_vars
  BY <1>1
<1> QED BY <1>2, InvariantHolds, PTL DEF Spec, OthersUntouched
=============================================================================
