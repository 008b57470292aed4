--------------------------- MODULE MCArchivePage ---------------------------
(***************************************************************************)
(* The page of an archive with three selections, the first of which is       *)
(* turned down, and two visits.                                              *)
(***************************************************************************)
EXTENDS ArchivePage

File(stem, case, numbers, extension, size) ==
    [name |-> [stem |-> stem, case |-> case, numbers |-> numbers, extension |-> extension],
     size |-> size]

\* "video.mp4" and an empty "a.pdf"; "docs.zip" and an empty "a.pdf"; and
\* "a.pdf", "docs.zip", "a (2).pdf", "A.pdf".
ThreeSelections ==
    << <<File("video", "lower", <<>>, "mp4", 1), File("a", "lower", <<>>, "pdf", 0)>>,
       <<File("docs", "lower", <<>>, "zip", 1), File("a", "lower", <<>>, "pdf", 0)>>,
       <<File("a", "lower", <<>>, "pdf", 1), File("docs", "lower", <<>>, "zip", 1),
         File("a", "lower", <<2>>, "pdf", 1), File("a", "upper", <<>>, "pdf", 1)>> >>
=============================================================================
