------------------------------- MODULE Parcels -------------------------------
(***************************************************************************)
(* What the camera client library (libmocha/camera) writes into binder     *)
(* parcels and reads back from them.  A parcel is a sequence of items      *)
(* <<kind, label, value>>; the label says which argument of the call the   *)
(* item is, the value matters for the integers that decide what follows.   *)
(*                                                                         *)
(* A layout is a sequence of fields.  A writer resolves the choices of its *)
(* layout (an optional part, the length of a list, a status); a reader     *)
(* follows the values it finds.  A read past the end of a parcel yields    *)
(* zero, as Parcel::readInt32() does (Parcel itself is external).          *)
(***************************************************************************)
EXTENDS Integers, Sequences

CONSTANT MaxList       \* longest list a writer sends

OK == 0

Int32(l) == <<"int32", l>>
Int64(l) == <<"int64", l>>
Str(l) == <<"string", l>>
Binder(l) == <<"binder", l>>
Fd(l) == <<"fd", l>>
Blob(l) == <<"blob", l>>
NoException == <<"exception", "exception">>
Status == <<"status", "status">>            \* the status_t a call returns
If(l, then, else) == <<"if", l, then, else>>
Opt(p) == If("present", p, <<>>)
Present(p) == <<"present", p>>              \* always sent, with its marker 1
ListThen(l, p, q) == <<"list", l, p, q, 0>>  \* q follows unless the list is empty
List(l, p) == ListThen(l, p, <<>>)
Nonempty(l, p) == <<"list", l, p, <<>>, 1>>  \* fewer are refused
Rest(p) == <<"rest", p>>                    \* optional, found by dataAvail()
Array(l, limit) == <<"array", l, limit>>
OwnStatus == <<"own", "status">>            \* read from data, not from reply
StopOnError == <<"stop">>                   \* return if the status is an error
Metadata == <<"metadata", "metadata">>      \* a blob, valid or not

Plain == {"int32", "int64", "string", "binder", "fd", "blob", "exception"}
Item(kind, l, v) == <<kind, l, v>>

RECURSIVE Write(_), Repeat(_, _)

Repeat(p, n) == IF n = 0 THEN {<<>>} ELSE {a \o b : a \in Write(p), b \in Repeat(p, n - 1)}

WriteField(f) ==
    CASE f[1] \in Plain -> {<<Item(f[1], f[2], 0)>>}
      [] f[1] = "status" -> {<<Item("int32", "status", v)>> : v \in {OK, -1}}
      [] f[1] = "metadata" -> {<<Item("blob", "metadata", v)>> : v \in {OK, -1}}
      [] f[1] = "if" -> {<<Item("int32", f[2], 1)>> \o a : a \in Write(f[3])}
                        \cup {<<Item("int32", f[2], 0)>> \o a : a \in Write(f[4])}
      [] f[1] = "present" -> {<<Item("int32", "present", 1)>> \o a : a \in Write(f[2])}
      [] f[1] = "list" ->
            UNION {{<<Item("int32", f[2], n)>> \o a \o b :
                    a \in Repeat(f[3], n), b \in IF n = 0 THEN {<<>>} ELSE Write(f[4])} :
                   n \in f[5]..MaxList}
      [] f[1] = "array" -> {<<Item("int32", f[2], n)>> \o [i \in 1..n |-> Item("int32", "element", 0)]
                               : n \in 0..MaxList} \cup {<<Item("int32", f[2], -1)>>}
      [] f[1] = "rest" -> {<<>>} \cup Write(f[2])

\* Every parcel that a writer of layout p can produce
Write(p) ==
    IF p = <<>> THEN {<<>>} ELSE {a \o b : a \in WriteField(Head(p)), b \in Write(Tail(p))}

\* A reader's progress: what is left, whether each item was the one it took it
\* for, the status it found, whether metadata failed its validation, whether
\* it gave the call up.
Reader(parcel) == [left |-> parcel, ok |-> TRUE, status |-> OK, invalid |-> FALSE, failed |-> FALSE]

Value(r) == IF r.left = <<>> THEN 0 ELSE Head(r.left)[3]

\* readExceptionCode() at the end of a parcel finds no exception.
Take(r, kind, l) ==
    IF r.left = <<>> THEN [r EXCEPT !.ok = r.ok /\ kind = "exception"]
    ELSE [r EXCEPT !.left = Tail(r.left),
                   !.ok = r.ok /\ Head(r.left)[1] = kind /\ Head(r.left)[2] = l]

RECURSIVE Read(_, _), ReadTimes(_, _, _)

ReadTimes(p, r, n) == IF n <= 0 \/ r.left = <<>> THEN r ELSE ReadTimes(p, Read(p, r), n - 1)

ReadField(f, r) ==
    CASE f[1] \in Plain -> Take(r, f[1], f[2])
      [] f[1] = "status" -> [Take(r, "int32", "status") EXCEPT !.status = Value(r)]
      [] f[1] = "metadata" -> [Take(r, "blob", "metadata") EXCEPT !.invalid = r.invalid \/ Value(r) # OK]
      [] f[1] = "own" -> r
      [] f[1] = "if" -> Read(IF Value(r) # 0 THEN f[3] ELSE f[4], Take(r, "int32", f[2]))
      [] f[1] = "list" -> LET items == ReadTimes(f[3], Take(r, "int32", f[2]), Value(r))
                          IN  IF Value(r) < f[5] THEN [r EXCEPT !.failed = TRUE]
                              ELSE IF Value(r) = 0 THEN items ELSE Read(f[4], items)
      [] f[1] = "array" -> IF Value(r) < 0 \/ Value(r) > f[3] THEN [r EXCEPT !.failed = TRUE]
                           ELSE ReadTimes(<<Int32("element")>>, Take(r, "int32", f[2]), Value(r))
      [] f[1] = "rest" -> IF r.left = <<>> THEN r ELSE Read(f[2], r)
      [] f[1] = "stop" -> [r EXCEPT !.failed = r.status # OK]
      [] f[1] = "request" -> LET m == Read(f[2], r)
                             IN  IF m.invalid THEN [m EXCEPT !.failed = f[4]] ELSE Read(f[3], m)

Read(p, r) == IF p = <<>> \/ r.failed THEN r ELSE Read(Tail(p), ReadField(Head(p), r))

-----------------------------------------------------------------------------
(* The parcelables *)

\* The offset goes out ahead of the blob it points into.
MetadataWrite_OffsetFirst == <<If("blobSize", <<Int32("offset"), Metadata>>, <<>>)>>

\* CameraMetadata::writeToParcel(): size of the blob, 0 for no metadata, then
\* the blob, then the offset of the metadata in it, known only after the blob.
MetadataWrite == <<If("blobSize", <<Metadata, Int32("offset")>>, <<>>)>>

\* readFromParcel() validates what it copies once it has read all three.
MetadataRead == <<If("blobSize", <<Metadata, Int32("offset")>>, <<>>)>>

ExtrasWrite == <<Int32("requestId"), Int32("burstId"), Int32("afTriggerId"),
                 Int32("precaptureTriggerId"), Int64("frameNumber"), Int32("partialResultCount")>>

ExtrasRead == <<Int32("requestId"), Int32("burstId"), Int32("afTriggerId"),
                Int32("precaptureTriggerId"), Int64("frameNumber"), Int32("partialResultCount")>>

RequestWrite == MetadataWrite
                \o <<List("surfaces", <<Str("class"), Str("name"), Binder("producer")>>), Int32("isReprocess")>>

\* Invalid metadata ends the read, with the rest of the request unread; only a
\* strict caller looks at the result.
RequestRead(strict) ==
    <<<<"request", MetadataRead,
        <<List("surfaces", <<Str("class"), Str("name"), Binder("producer")>>), Int32("isReprocess")>>, strict>>>>

OutputWrite == <<Int32("rotation"), Str("name"), Binder("producer")>>
OutputRead == <<Int32("rotation"), Str("name"), Binder("producer")>>

\* VendorTagDescriptor::writeToParcel(): the sections come only with tags.
DescriptorWrite ==
    <<ListThen("tagCount", <<Int32("tag"), Int32("tagType"), Str("tagName"), Int32("sectionIndex")>>,
               <<Nonempty("sectionCount", <<Str("sectionName")>>)>>)>>

\* createFromParcel() refuses a descriptor with tags and too few sections.
DescriptorRead ==
    <<ListThen("tagCount", <<Int32("tag"), Int32("tagType"), Str("tagName"), Int32("sectionIndex")>>,
               <<Nonempty("sectionCount", <<Str("sectionName")>>)>>)>>
=============================================================================
