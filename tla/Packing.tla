------------------------------- MODULE Packing -------------------------------
(***************************************************************************)
(* What becomes of a selection of files before it is sent (apps/web):        *)
(* upload-files.ts turns files down, zip.ts packs the others into one ZIP.   *)
(*                                                                         *)
(* A file is its name and its size.  A name is a stem, the numbers appended   *)
(* to it, an extension, and the case its letters are written in; the stem     *)
(* itself does not end with a number.                                        *)
(***************************************************************************)
EXTENDS Naturals, Sequences, FiniteSets

Names == [stem : STRING, numbers : Seq(Nat), extension : STRING, case : {"lower", "upper"}]
Files == [name : Names, size : Nat]

SUPPORTED_EXTENSIONS == {"pdf", "png", "jpg", "jpeg", "webp", "docx", "xlsx"}
ARCHIVE_EXTENSION == "zip"

isZip(file) == file.name.extension = ARCHIVE_EXTENSION

\* The format is looked at before the size.
checkUploadFile(file) ==
    CASE file.name.extension \notin SUPPORTED_EXTENSIONS \cup {ARCHIVE_EXTENSION} ->
            "unsupportedType"
      [] file.size = 0 -> "empty"
      [] OTHER -> "fine"

\* The files of a selection that are among fit, in their order.
Only(selection, fit) ==
    LET only[i \in 0 .. Len(selection)] ==
            IF i = 0 THEN <<>>
            ELSE IF selection[i] \in fit THEN Append(only[i - 1], selection[i])
            ELSE only[i - 1]
    IN only[Len(selection)]

\* A ZIP goes alone or not at all.
splitUploadFiles(selection) ==
    LET files == {selection[i] : i \in DOMAIN selection}
        fine == Only(selection, {file \in files : checkUploadFile(file) = "fine"})
        zips == {file \in files : isZip(file)}
    IN IF Len(fine) > 1 /\ \E i \in DOMAIN fine : fine[i] \in zips
         THEN Only(fine, files \ zips)
         ELSE fine

lower(name) == [name EXCEPT !.case = "lower"]

\* The file's own name, or its name with a number.
withSuffix(name, n) ==
    IF n = 1 THEN name ELSE [name EXCEPT !.numbers = Append(@, n)]

\* Variant: names that differ in case are different names.
uniqueNamesExact(selection) ==
    LET unique[i \in 1 .. Len(selection)] ==
            LET taken == {unique[j] : j \in 1 .. (i - 1)}
                Free(n) == withSuffix(selection[i].name, n) \notin taken
            IN withSuffix(selection[i].name,
                          CHOOSE n \in 1 .. i : Free(n) /\ \A m \in 1 .. (n - 1) : ~Free(m))
    IN unique

\* A name that is taken, whatever the case, gets the first number that is free.
uniqueNames(selection) ==
    LET unique[i \in 1 .. Len(selection)] ==
            LET taken == {lower(unique[j]) : j \in 1 .. (i - 1)}
                Free(n) == lower(withSuffix(selection[i].name, n)) \notin taken
            IN withSuffix(selection[i].name,
                          CHOOSE n \in 1 .. i : Free(n) /\ \A m \in 1 .. (n - 1) : ~Free(m))
    IN unique

\* The entries of the ZIP that is sent; a single ZIP is sent as it is.
packForUpload(selection) ==
    IF Len(selection) = 1 /\ isZip(selection[1])
      THEN <<selection[1].name>>
      ELSE uniqueNames(selection)

\* What is left of them where two names that differ in case are the same file.
Unpacked(entries) == {lower(entries[i]) : i \in DOMAIN entries}
=============================================================================
