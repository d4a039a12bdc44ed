------------------------------ MODULE Attachments ------------------------------
(***************************************************************************)
(* The computations behind save_attachments and get_attachment_content: the*)
(* byte caps and the names of the files that are written                   *)
(* (mail_connector.py), and the window of a base64 part that is fetched for*)
(* a range of its bytes (imap_connector.py).                               *)
(*                                                                         *)
(* A file name is a sequence of parts: the base and what the code puts     *)
(* before or behind it.  A directory is a function from the names as the   *)
(* volume compares them to contents, and a content has a size.             *)
(***************************************************************************)
EXTENDS Naturals, Integers, Sequences, FiniteSets, SequencesExt, FiniteSetsExt, Lists

CONSTANTS
  PerCap, TotalCap, (* max_attachment_bytes, max_total_attachment_bytes    *)
  MaxNames,         (* the names _eml_target tries, 999 in the code        *)
  Digits,           (* a number as a part of a name                        *)
  Line, TailSize,   (* 76 characters in a base64 line, 96 octets of tail   *)
  Null              (* an argument that is not given, no character, no name*)

ASSUME AttachmentsAssumption ==
  /\ PerCap \in Nat /\ TotalCap \in Nat /\ MaxNames \in Nat
  /\ \A m, n \in DOMAIN Digits : Digits[m] = Digits[n] => m = n
  /\ \A n \in DOMAIN Digits : Digits[n] \notin {"a", "A"}
  /\ Line \in Nat \ {0} /\ Line % 4 = 0 /\ TailSize \in Nat /\ TailSize > 2
  /\ Null \notin Int

Attachment(Part) == [name : Seq(Part), size : Nat, reported : Nat]
Content(Part)    == [body : Seq(Part), size : Nat]

(* _fs_key: the names "a" and "A" are one file.                            *)
FsKey(name) == [k \in DOMAIN name |-> IF name[k] = "A" THEN "a" ELSE name[k]]

Selection(indices, atts) == IF indices = Null THEN [i \in DOMAIN atts |-> i] ELSE indices

-------------------------------------------------------------------------------
(* Saving                                                                  *)

(* _select_attachments_within_caps, by the reported sizes: what is allowed *)
(* after each of those selected, and its sum.                              *)
Allow(s, att, i, total) ==
  IF att.reported > PerCap \/ s.sum + att.reported > total THEN s
  ELSE [sum |-> s.sum + att.reported, allowed |-> Append(s.allowed, i)]
Allowed(atts, selected, total) ==
  LET after[k \in 0 .. Len(selected)] ==
        IF k = 0 THEN [sum |-> 0, allowed |-> <<>>]
        ELSE Allow(after[k - 1], atts[selected[k]], selected[k], total)
  IN  after
WithinCaps(atts, indices, total) ==
  LET selected == Selection(indices, atts)
  IN  Allowed(atts, selected, total)[Len(selected)].allowed

(* _compute_attachment_save_targets: a name in use gets the index in front.*)
NameOf(targets, att, i) ==
  IF \E k \in DOMAIN targets : FsKey(targets[k].name) = FsKey(att.name)
  THEN <<Digits[i - 1]>> \o att.name ELSE att.name
AddTarget(targets, att, i) == Append(targets, [index |-> i, name |-> NameOf(targets, att, i)])
Targets(atts, allowed) ==
  LET after[k \in 0 .. Len(allowed)] ==
        IF k = 0 THEN <<>> ELSE AddTarget(after[k - 1], atts[allowed[k]], allowed[k])
  IN  after
SaveTargets(atts, allowed) == Targets(atts, allowed)[Len(allowed)]

Put(dir, name, content) == [k \in DOMAIN dir \cup {FsKey(name)} |->
                              IF k = FsKey(name) THEN content ELSE dir[k]]
Body(att) == [body |-> att.name, size |-> att.size]
Written(atts, dir, targets) ==
  LET after[k \in 0 .. Len(targets)] ==
        IF k = 0 THEN dir
        ELSE Put(after[k - 1], targets[k].name, Body(atts[targets[k].index]))
  IN  after
WriteAll(atts, dir, targets) == Written(atts, dir, targets)[Len(targets)]

(* _prune_oversized_written, by the sizes on disk: the directory and the   *)
(* running total after each target.  Mutant: each file by itself, without  *)
(* the total.                                                              *)
CheckSizeOnly(s, key) ==
  IF key \notin DOMAIN s.dir THEN s
  ELSE IF s.dir[key].size > PerCap
  THEN [s EXCEPT !.dir = [f \in DOMAIN s.dir \ {key} |-> s.dir[f]]]
  ELSE [s EXCEPT !.sum = s.sum + s.dir[key].size]
Check(s, key) ==
  IF key \notin DOMAIN s.dir THEN s
  ELSE IF s.dir[key].size > PerCap \/ s.sum + s.dir[key].size > TotalCap
  THEN [s EXCEPT !.dir = [f \in DOMAIN s.dir \ {key} |-> s.dir[f]]]
  ELSE [s EXCEPT !.sum = s.sum + s.dir[key].size]
Pruned(dir, targets) ==
  LET after[k \in 0 .. Len(targets)] ==
        IF k = 0 THEN [dir |-> dir, sum |-> 0]
        ELSE Check(after[k - 1], FsKey(targets[k].name))
  IN  after
Prune(dir, targets) == Pruned(dir, targets)[Len(targets)].dir

(* _eml_target: the first name that is free, or holds these bytes already; *)
(* Null is the OSError.  Mutant: only what this call has written is in use.*)
EmlTargetOverwrites(dir, targets, subject, message) ==
  LET candidate(n) == IF n = 1 THEN <<subject>> ELSE <<subject, Digits[n]>>
      taken == {FsKey(targets[k].name) : k \in DOMAIN targets}
      free == {n \in 1 .. MaxNames : FsKey(candidate(n)) \notin taken}
  IN  IF free = {} THEN Null ELSE candidate(Min(free))
EmlTarget(dir, targets, subject, message) ==
  LET candidate(n) == IF n = 1 THEN <<subject>> ELSE <<subject, Digits[n]>>
      taken == {FsKey(targets[k].name) : k \in DOMAIN targets}
      free == {n \in 1 .. MaxNames :
                 LET k == FsKey(candidate(n)) IN
                 k \notin taken /\ (k \notin DOMAIN dir \/ dir[k] = message)}
  IN  IF free = {} THEN Null ELSE candidate(Min(free))

(* _save_from_raw_message: sizes are exact; the message is budgeted first, *)
(* when it was asked for and is no larger than PerCap.  Its name is looked *)
(* for in any case, and last: when it finds none, `eml` is Null, and the   *)
(* call fails behind what it has written.                                  *)
Writes(message) == message # Null /\ message.size <= PerCap
SaveFromRaw(atts, indices, dir, subject, message) ==
  LET exact == [i \in DOMAIN atts |-> [atts[i] EXCEPT !.reported = atts[i].size]]
      left == IF ~ Writes(message) THEN TotalCap
              ELSE IF message.size > TotalCap THEN 0 ELSE TotalCap - message.size
      targets == SaveTargets(exact, WithinCaps(exact, indices, left))
      written == Prune(WriteAll(exact, dir, targets), targets)
      eml == IF message = Null THEN Null ELSE EmlTarget(written, targets, subject, message)
  IN  [dir |-> IF eml = Null \/ ~ Writes(message) THEN written ELSE Put(written, eml, message),
       targets |-> targets, eml |-> eml]

(* save_attachments through Mail, which may fail to save some of them.     *)
SaveByScript(atts, indices, dir, failed) ==
  LET targets == SaveTargets(atts, WithinCaps(atts, indices, TotalCap))
      saved == Only(targets, {t \in ToSet(targets) : t.index \notin failed})
  IN  Prune(WriteAll(atts, dir, saved), targets)

-------------------------------------------------------------------------------
(* A range of a base64 part.  The part's n bytes are characters 0, 1, ...  *)
(* in lines of Line, ended by two octets (Null), the last one perhaps not. *)
Characters(n) == 4 * ((n + 2) \div 3)
Lines(n)      == (Characters(n) + Line - 1) \div Line
Transfer(n, ended) ==
  LET chars == Characters(n)
      size  == chars + 2 * (IF ended THEN Lines(n) ELSE Lines(n) - 1)
  IN  [k \in 1 .. size |-> LET row == (k - 1) \div (Line + 2)
                               char == row * Line + ((k - 1) % (Line + 2))
                           IN  IF (k - 1) % (Line + 2) >= Line \/ char >= chars THEN Null ELSE char]

(* _base64_body_octets: the number of characters that explains the size.   *)
BodyOctets(size) ==
  LET valid(n, lines) == n > 0 /\ n % 4 = 0 /\ (lines - 1) * Line < n /\ n <= lines * Line
      about == IF size \div (Line + 2) > 1 THEN size \div (Line + 2) ELSE 1
      tried == (IF about > 5 THEN about - 4 ELSE 1) .. about + 7
      whole(lines) == valid(size - 2 * lines, lines)
      open(lines)  == valid(size - 2 * (lines - 1), lines)
      fits == {lines \in tried : whole(lines) \/ open(lines)}
  IN  IF fits = {} THEN size - (size % 4)
      ELSE IF whole(Min(fits)) THEN size - 2 * Min(fits) ELSE size - 2 * (Min(fits) - 1)

(* _decode_transfer_payload: whole groups of four, or binascii.Error; a    *)
(* group that does not begin where the part's does yields other bytes      *)
(* (Null).                                                                 *)
Undecodable(octets) == Len(Only(octets, Nat)) % 4 # 0
Decode(octets, n) ==
  LET chars == Only(octets, Nat)
      groups == Len(chars) \div 4
      byte(k) == LET g == k \div 3 IN
                 IF chars[4 * g + 1] % 4 = 0 THEN 3 * (chars[4 * g + 1] \div 4) + (k % 3) ELSE Null
      bytes == [k \in 1 .. 3 * groups |-> byte(k - 1)]
  IN  Only(bytes, {Null} \cup 0 .. n - 1)

(* _base64_transfer_offset.  Mutant: the ends of lines are not counted.    *)
TransferOffsetFlat(char, chars, size) == char
TransferOffset(char, chars, size) == IF size = chars THEN char ELSE char + 2 * (char \div Line)

(* _base64_transfer_window: from the group of the first byte.              *)
TransferWindow(offset, count, size) ==
  LET chars == BodyOctets(size)
      start == 4 * (offset \div 3)
      needed == 4 * (((offset % 3) + count + 2) \div 3)
      end == IF start + needed > chars THEN chars ELSE start + needed
      first == TransferOffset(start, chars, size)
      last == TransferOffset(end, chars, size)
  IN  [first |-> first, end |-> IF last > size THEN size ELSE last, skip |-> offset % 3]

(* _base64_decoded_size_from_tail: the padding is in the last characters.  *)
SizeFromTail(octets, n) ==
  LET from == IF Len(octets) > TailSize THEN Len(octets) - TailSize + 1 ELSE 1
      tail == {octets[k] : k \in from .. Len(octets)} \ {Null}
      padding == IF tail = {} THEN 0 ELSE (3 - (n % 3)) % 3
  IN  3 * (BodyOctets(Len(octets)) \div 4) - padding

(* _range_end, and the bytes of the range from those of its window.        *)
Stop(offset, max, size) == IF max = Null \/ offset + max > size THEN size ELSE offset + max
Piece(decoded, skip, wanted) ==
  SubSeq(decoded, skip + 1, IF skip + wanted > Len(decoded) THEN Len(decoded) ELSE skip + wanted)

(* fetch_attachment_payload: the whole part, when the window was too short.*)
FetchRange(n, ended, offset, max) ==
  LET octets == Transfer(n, ended)
      total  == SizeFromTail(octets, n)
      wanted == Stop(offset, max, total) - offset
      w      == TransferWindow(offset, wanted, Len(octets))
      part   == SubSeq(octets, w.first + 1, w.end)
      piece  == Piece(Decode(part, n), w.skip, wanted)
  IN  IF offset > total \/ (wanted > 0 /\ Undecodable(part)) THEN [error |-> TRUE]
      ELSE IF wanted > 0 /\ Len(piece) < wanted
      THEN [error |-> FALSE, whole |-> TRUE, size |-> n,
            bytes |-> SubSeq(Decode(octets, n), offset + 1, Stop(offset, max, n))]
      ELSE [error |-> FALSE, whole |-> FALSE, size |-> total,
            bytes |-> IF wanted = 0 THEN <<>> ELSE piece]

(* _decoded_size_from_bodystructure: what a listing shows, before a fetch. *)
ListedSize(n, ended) == 3 * (BodyOctets(Len(Transfer(n, ended))) \div 4) - 1
-------------------------------------------------------------------------------
(* The caps hold: what one call leaves of its own on disk is never more    *)
(* than TotalCap bytes, and none of it more than PerCap, though Mail       *)
(* reports too small sizes for what it has not downloaded, and though the  *)
(* message itself is saved with its attachments (PerCap <= TotalCap).      *)
Changed(before, after) == {k \in DOMAIN after : k \notin DOMAIN before \/ after[k] # before[k]}
Sizes(dir, order) ==
  LET upto[n \in 0 .. Len(order)] == IF n = 0 THEN 0 ELSE upto[n - 1] + dir[order[n]].size
  IN  upto
Bytes(dir, files) == LET order == SetToSeq(files) IN Sizes(dir, order)[Len(order)]
CapsKept(atts, indices, dir, subject, message, failed) ==
  PerCap <= TotalCap =>
    \A after \in {SaveFromRaw(atts, indices, dir, subject, message).dir,
                  SaveByScript(atts, indices, dir, failed)} :
      /\ Bytes(after, Changed(dir, after)) <= TotalCap
      /\ \A k \in Changed(dir, after) : after[k].size <= PerCap

(* A call never writes two things to one file: every attachment it saves   *)
(* is there afterwards with its own bytes, on a volume that does not       *)
(* distinguish case, whatever names their senders gave them, as long as    *)
(* none of these begins with the number that the code puts in front; and   *)
(* the .eml lands on none of them, nor on a file with other content that   *)
(* was in the directory ("It never lands on another file").                *)
EachKept(atts, indices, dir, subject, message) ==
  LET result == SaveFromRaw(atts, indices, dir, subject, message)
      key(k) == FsKey(result.targets[k].name)
  IN  (\A i \in DOMAIN atts : Len(atts[i].name) = 1) =>
        /\ \A k \in DOMAIN result.targets : result.dir[key(k)] = Body(atts[result.targets[k].index])
        /\ Writes(message) /\ result.eml # Null
           /\ FsKey(result.eml) \in DOMAIN dir \ {key(k) : k \in DOMAIN result.targets}
             => dir[FsKey(result.eml)] = message

(* A range read returns exactly the bytes of the range, or fails when the  *)
(* range begins behind the end, and tells the true size, without fetching  *)
(* the whole part, for a part in lines of the standard length; the listed  *)
(* size is within one byte of it ("the exact decoded-size range of +/- 1   *)
(* byte").                                                                 *)
RangeExact(n, ended, offset, max) ==
  /\ FetchRange(n, ended, offset, max) =
       IF offset > n THEN [error |-> TRUE]
       ELSE [error |-> FALSE, whole |-> FALSE, size |-> n,
             bytes |-> [k \in 1 .. Stop(offset, max, n) - offset |-> offset + k - 1]]
  /\ ListedSize(n, ended) \in n - 1 .. n + 1
===============================================================================
