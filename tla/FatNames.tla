------------------------------ MODULE FatNames ------------------------------
(***************************************************************************)
(* The names of files: UTF-8 in the calls, UTF-16 in the long name, code   *)
(* page 437 in the short one.  FatVolume takes a name as a record of its   *)
(* two forms; here the forms are computed from the characters, stored in   *)
(* an entry, searched for and read back.                                   *)
(***************************************************************************)
EXTENDS Integers, Sequences, SequencesExt, FiniteSets

CONSTANTS FileNames,                \* the names: sequences of code points
          FF_MAX_LFN,               \* UTF-16 units of a long name
          FF_LFN_BUF,               \* bytes of a name that is read
          FF_SFN_BUF,               \* bytes of a short name that is read, 12
          LfnPart,                  \* units in one long name entry, 13
          BodyLen, ExtLen           \* of a short name, 8 and 3

MaxCodePoint == 1114111
Filler == 65535                     \* of put_lfn

ASSUME NamesAssumption ==
    /\ {FF_MAX_LFN, FF_LFN_BUF, FF_SFN_BUF, LfnPart, BodyLen, ExtLen} \subseteq Nat \ {0}
    /\ FileNames \subseteq Seq(32 .. MaxCodePoint)
    /\ \A n \in FileNames : \A i \in DOMAIN n : n[i] # Filler
    /\ BodyLen > 2 /\ \A n \in FileNames : n # <<>>

VARIABLES fileName, dirEntry, fname

nameVars == <<fileName, dirEntry, fname>>

Space == 32
Dot == 46
Underscore == 95
Tilde == 126
QuestionMark == 63
IsUpper(c) == c \in 65 .. 90
IsLower(c) == c \in 97 .. 122
IsSurrogate(c) == c \in 55296 .. 57343

-----------------------------------------------------------------------------
(* Encodings.  tchar2uni reads a character as one or two UTF-16 units, <<>> *)
(* if the bytes are no character.                                           *)

Units(uc) ==
    IF uc < 65536 THEN <<uc>>
    ELSE <<55296 + ((uc - 65536) \div 1024), 56320 + (uc % 1024)>>
tchar2uni(bytes) ==
    LET nf == Len(bytes) - 1
        Trail(n, i) == n * 64 + (bytes[i] % 64)
        uc == IF nf = 0 THEN bytes[1]
              ELSE IF nf = 1 THEN Trail(bytes[1] % 32, 2)
              ELSE IF nf = 2 THEN Trail(Trail(bytes[1] % 16, 2), 3)
              ELSE Trail(Trail(Trail(bytes[1] % 8, 2), 3), 4)
    IN  IF \/ bytes[1] \notin (IF nf = 0 THEN 0 .. 127 ELSE IF nf = 1 THEN 192 .. 223
                               ELSE IF nf = 2 THEN 224 .. 239 ELSE 240 .. 247)
           \/ \E i \in 2 .. nf + 1 : bytes[i] \notin 128 .. 191
           \/ nf > 0 /\ (uc < 128 \/ IsSurrogate(uc) \/ uc > MaxCodePoint)
        THEN <<>> ELSE Units(uc)

(* put_utf: the bytes of a character that was read from a long name.        *)
put_utf(units) ==
    LET uc == IF Len(units) = 1 THEN units[1]
              ELSE (units[1] - 55296) * 1024 + (units[2] - 56320) + 65536
        Six(n) == 128 + (n % 64)
    IN  IF uc < 128 THEN <<uc>>
        ELSE IF uc < 2048 THEN <<192 + (uc \div 64), Six(uc)>>
        ELSE IF uc < 65536 THEN <<224 + (uc \div 4096), Six(uc \div 64), Six(uc)>>
        ELSE <<240 + (uc \div 262144), Six(uc \div 4096), Six(uc \div 64), Six(uc)>>

(* What the caller passes, character by character.                          *)
Utf8(uc) == put_utf(Units(uc))
Bytes(name) == FlattenSeq([i \in DOMAIN name |-> Utf8(name[i])])

(* ff_wtoupper: the blocks for Latin letters of its table.                  *)
ff_wtoupper(c) ==
    IF IsLower(c) \/ c \in 224 .. 246 \/ c \in 248 .. 254 THEN c - 32
    ELSE IF c = 255 THEN 376
    ELSE IF c \in 256 .. 303 THEN c - (c % 2)
    ELSE c

(* Code page 437: the letters that uc437 and ExCvt are asked for.  ExCvt    *)
(* takes some letters to the letter without its accent.                     *)
uc437 == [oem \in {129, 130, 144, 154} |->
             CASE oem = 129 -> 252 [] oem = 130 -> 233 [] oem = 144 -> 201 [] oem = 154 -> 220]
ff_uni2oem(c) ==
    IF c < 128 THEN c
    ELSE LET found == {o \in DOMAIN uc437 : uc437[o] = c} IN IF found = {} THEN 0 ELSE CHOOSE o \in found : TRUE
ff_oem2uni(o) == IF o < 128 THEN o ELSE uc437[o]
ExCvt(oem) == CASE oem = 129 -> 154 [] oem = 130 -> 69 [] OTHER -> oem

-----------------------------------------------------------------------------
(* create_name: the long name without trailing spaces and dots, the short   *)
(* name, and whether the short one lost anything.                           *)

IllegalLfn == {42, 58, 60, 62, 124, 34, 63, 127}     \* * : < > | " ? DEL
IllegalSfn == {43, 44, 59, 61, 91, 93}               \* + , ; = [ ]
InvalidName == [ok |-> FALSE]

TrimKeepsDots(lfn) ==                   \* mutant: trailing dots are not snipped
    LET keep == {i \in DOMAIN lfn : lfn[i] # Space}
    IN  SubSeq(lfn, 1, IF keep = {} THEN 0 ELSE CHOOSE i \in keep : \A j \in keep : j <= i)
Trimmed(lfn) ==
    LET keep == {i \in DOMAIN lfn : lfn[i] \notin {Space, Dot}}
    IN  SubSeq(lfn, 1, IF keep = {} THEN 0 ELSE CHOOSE i \in keep : \A j \in keep : j <= i)

ShortChar(c) ==                         \* 0 if there is none
    LET oem == IF c < 128 THEN c ELSE IF ff_uni2oem(c) >= 128 THEN ExCvt(ff_uni2oem(c)) ELSE ff_uni2oem(c)
    IN  IF oem \in IllegalSfn THEN 0 ELSE oem
Stored(field) ==
    [i \in DOMAIN field |-> LET o == ShortChar(field[i])
                            IN  IF o = 0 THEN Underscore ELSE IF IsLower(o) THEN o - 32 ELSE o]
Cut(seq, n) == SubSeq(seq, 1, IF Len(seq) < n THEN Len(seq) ELSE n)

ShortName(lfn) ==
    LET dots == {i \in DOMAIN lfn : lfn[i] = Dot}
        di == IF dots = {} THEN Len(lfn) + 1 ELSE CHOOSE i \in dots : \A j \in dots : j <= i
        Plain(seq) == SelectSeq(seq, LAMBDA c : c \notin {Space, Dot})
        body == Plain(SubSeq(lfn, 1, di - 1))
        ext == Plain(SubSeq(lfn, di + 1, Len(lfn)))
        kept == Cut(body, BodyLen) \o Cut(ext, ExtLen)
        Mixed(f) == {IsUpper(ShortChar(f[i])) : i \in {j \in DOMAIN f : IsUpper(ShortChar(f[j])) \/ IsLower(ShortChar(f[j]))}}
        loss == \/ Head(lfn) \in {Space, Dot}
                \/ Len(body) > BodyLen \/ Len(ext) > ExtLen
                \/ Len(body) + Len(ext) + (IF dots = {} THEN 0 ELSE 1) # Len(lfn)
                \/ \E i \in DOMAIN kept : ShortChar(kept[i]) = 0
    IN  [body |-> Stored(Cut(body, BodyLen)), ext |-> Stored(Cut(ext, ExtLen)), loss |-> loss,
         lfn |-> \/ loss \/ \E i \in DOMAIN kept : kept[i] >= 128
                 \/ Cardinality(Mixed(Cut(body, BodyLen))) = 2 \/ Cardinality(Mixed(Cut(ext, ExtLen))) = 2,
         NS_BODY |-> Mixed(Cut(body, BodyLen)) = {FALSE}, NS_EXT |-> Mixed(Cut(ext, ExtLen)) = {FALSE}]

create_name(name) ==
    LET units == [i \in DOMAIN name |-> tchar2uni(Utf8(name[i]))]
        lfn == Trimmed(FlattenSeq(units))
    IN  IF \/ <<>> \in Range(units) \/ Range(name) \cap IllegalLfn # {}
           \/ Len(FlattenSeq(units)) > FF_MAX_LFN \/ lfn = <<>>
        THEN InvalidName
        ELSE [ok |-> TRUE, lfn |-> lfn, sfn |-> ShortName(lfn)]
Created == [n \in FileNames |-> create_name(n)]     \* once for each name

(* dir_register: a short name that lost something ends in ~1 (the first     *)
(* number; FatVolume has the others), and the long name is put in parts,    *)
(* the last one filled up.                                                  *)
gen_numname(body) == Cut(body, BodyLen - 2) \o <<Tilde, 49>>
Parts(lfn) == (Len(lfn) + LfnPart - 1) \div LfnPart
PutLfnUnended(lfn, ord) ==              \* mutant: no terminator
    [i \in 1 .. LfnPart |-> LET p == (ord - 1) * LfnPart + i IN IF p <= Len(lfn) THEN lfn[p] ELSE Filler]
put_lfn(lfn, ord) ==
    [i \in 1 .. LfnPart |-> LET p == (ord - 1) * LfnPart + i
                            IN  IF p <= Len(lfn) THEN lfn[p] ELSE IF p = Len(lfn) + 1 THEN 0 ELSE Filler]
dir_register(c) ==
    [parts |-> IF c.sfn.lfn THEN [ord \in 1 .. Parts(c.lfn) |-> put_lfn(c.lfn, ord)] ELSE <<>>,
     body |-> IF c.sfn.loss THEN gen_numname(c.sfn.body) ELSE c.sfn.body,
     ext |-> c.sfn.ext,
     NTres |-> IF c.sfn.lfn THEN [body |-> FALSE, ext |-> FALSE]
               ELSE [body |-> c.sfn.NS_BODY, ext |-> c.sfn.NS_EXT]]

(* dir_find: by the long name in any case, or by the short one.             *)
cmp_lfn(lfn, entry) ==
    /\ Len(entry.parts) = Parts(lfn)
    /\ \A ord \in DOMAIN entry.parts, i \in 1 .. LfnPart :
          ff_wtoupper(entry.parts[ord][i]) = ff_wtoupper(put_lfn(lfn, ord)[i])
dir_find(c, entry) ==
    \/ cmp_lfn(c.lfn, entry)
    \/ ~c.sfn.loss /\ entry.body = c.sfn.body /\ entry.ext = c.sfn.ext

(* get_fileinfo: the long name if there is one and it fits its buffer, else *)
(* the short one in the case that the flags say, else a question mark.      *)
pick_lfn(entry) ==                      \* the units before the terminator
    LET Unit(p) == entry.parts[(p - 1) \div LfnPart + 1][((p - 1) % LfnPart) + 1]
    IN  [p \in {p \in 1 .. Len(entry.parts) * LfnPart : \A j \in 1 .. p : Unit(j) # 0} |-> Unit(p)]
Paired(units) ==                        \* surrogates with their partners
    LET starts == {i \in DOMAIN units : units[i] \notin 56320 .. 57343}
        char(i) == IF IsSurrogate(units[i]) THEN SubSeq(units, i, i + 1) ELSE <<units[i]>>
    IN  [k \in 1 .. Cardinality(starts) |->
            char(CHOOSE i \in starts : Cardinality({j \in starts : j < i}) = k - 1)]
ShortBytes(entry) ==
    LET Cased(field, low) == [i \in DOMAIN field |-> IF low /\ IsUpper(field[i]) THEN field[i] + 32 ELSE field[i]]
        text == Cased(entry.body, entry.NTres.body)
                \o (IF entry.ext = <<>> THEN <<>> ELSE <<Dot>> \o Cased(entry.ext, entry.NTres.ext))
        bytes == FlattenSeq([i \in DOMAIN text |-> put_utf(<<ff_oem2uni(text[i])>>)])
    IN  IF Len(bytes) <= FF_SFN_BUF THEN bytes ELSE <<QuestionMark>>
LongBytes(entry) ==
    LET chars == Paired(pick_lfn(entry)) IN FlattenSeq([i \in DOMAIN chars |-> put_utf(chars[i])])
get_fileinfo(entry) ==
    IF entry.parts # <<>> /\ Len(LongBytes(entry)) <= FF_LFN_BUF THEN LongBytes(entry) ELSE ShortBytes(entry)

-----------------------------------------------------------------------------
NoEntryYet == [body |-> <<>>]

CreateFile ==
    /\ dirEntry = NoEntryYet
    /\ Created[fileName].ok
    /\ dirEntry' = dir_register(Created[fileName])
    /\ UNCHANGED <<fileName, fname>>

ListFile ==
    /\ dirEntry # NoEntryYet /\ fname = <<>>
    /\ fname' = get_fileinfo(dirEntry)
    /\ UNCHANGED <<fileName, dirEntry>>

NamesInit == fileName \in FileNames /\ dirEntry = NoEntryYet /\ fname = <<>>
NamesNext == CreateFile \/ ListFile
NamesSpec == NamesInit /\ [][NamesNext]_nameVars

-----------------------------------------------------------------------------
(* The name as the caller means it: without trailing dots and spaces.       *)
Meant(name) ==
    CHOOSE m \in {SubSeq(name, 1, n) : n \in 0 .. Len(name)} :
        /\ m # <<>> => Last(m) \notin {Space, Dot}
        /\ \A i \in Len(m) + 1 .. Len(name) : name[i] \in {Space, Dot}
SameLetters(a, b) == Len(a) = Len(b) /\ \A i \in DOMAIN a : ff_wtoupper(a[i]) = ff_wtoupper(b[i])
(* A small e loses its accent in the short name.                            *)
Bare(c) == IF c = 233 THEN 69 ELSE ff_wtoupper(c)
SameBare(a, b) ==
    Len(a) = Len(b) /\ \A i \in DOMAIN a : Bare(a[i]) = Bare(b[i]) \/ ff_wtoupper(a[i]) = ff_wtoupper(b[i])

(* create_name, put_lfn, get_fileinfo: a name that fits the buffer is       *)
(* listed as it was given, whether or not it is stored as a long name.      *)
(* dir_find: a file is found by its name in any case, and by no other name  *)
(* that differs in more than accents or is not the short form of its own.   *)
NamesKept ==
    /\ fname # <<>> =>
           LET meant == Bytes(Meant(fileName))
           IN  Len(meant) <= FF_LFN_BUF => fname = meant
    /\ dirEntry # NoEntryYet =>
           \A q \in FileNames : Created[q].ok =>
               /\ SameLetters(Meant(q), Meant(fileName)) => dir_find(Created[q], dirEntry)
               /\ dir_find(Created[q], dirEntry) =>
                     SameBare(Meant(q), Meant(fileName)) \/ (Created[fileName].sfn.loss /\ Tilde \in Range(q))

(* put_lfn, pick_lfn, cmp_lfn: however the length of a long name divides    *)
(* into entries, its units are read back as they were stored, and a search  *)
(* by the long name matches for the same units in any case and for no       *)
(* others.                                                                  *)
LongNamesStored ==
    dirEntry # NoEntryYet /\ Created[fileName].sfn.lfn =>
        /\ pick_lfn(dirEntry) = Created[fileName].lfn
        /\ \A q \in FileNames : Created[q].ok =>
              (cmp_lfn(Created[q].lfn, dirEntry) <=> SameLetters(Created[q].lfn, Created[fileName].lfn))
=============================================================================
