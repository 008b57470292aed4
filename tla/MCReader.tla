------------------------------- MODULE MCReader -------------------------------
(* Instances of Reader for TLC. *)
EXTENDS Reader

\* Path components: 4 and 5 are one name in two cases.
Pdf(path, bytes) ==
  [path |-> path, type |-> "pdf", format |-> "pdf", package |-> None, bytes |-> bytes]

Docx(path, names, bytes) ==
  [path |-> path, type |-> "docx", format |-> "zip", bytes |-> bytes,
   package |-> [entries |-> [i \in DOMAIN names |-> [name |-> names[i], local |-> names[i], end |-> i]],
                directory |-> Len(names),
                overrides |-> <<[part |-> "document", contentType |-> "docx"]>>]]

Parts == <<"contentTypes", "relationships", "document">>

MCDirectories ==
  [whole   |-> {Docx(<<6, 2>>, Parts, <<2>>), Pdf(<<4>>, <<1, 2, 3, 4, 5>>), Pdf(<<8>>, <<>>)},
   edited  |-> {Docx(<<6, 2>>, Parts, <<2>>), Pdf(<<4>>, <<1, 2, 3, 5, 4>>), Pdf(<<8>>, <<>>)},
   refused |-> {Pdf(<<4>>, <<1>>), Pdf(<<5, 2>>, <<2>>), Docx(<<8>>, Append(Parts, "macro"), <<3>>)}]
=============================================================================
