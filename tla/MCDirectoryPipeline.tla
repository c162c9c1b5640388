------------------------ MODULE MCDirectoryPipeline ------------------------
(* Bounded instances of DirectoryPipeline.                                  *)
EXTENDS DirectoryPipeline

(* The first files have two chunks, so that an export may stop between them; *)
(* the last one of three has none.                                          *)
Plain(big) == [regular |-> TRUE, hidden |-> FALSE, big |-> big, chunks |-> 2]
Empty == [Plain(FALSE) EXCEPT !.chunks = 0]

(* None to three files to process, and a directory with a hidden file and   *)
(* something that is not a file.                                            *)
MCDirectories ==
  {<<>>} \cup {<<Plain(b)>> : b \in BOOLEAN}
    \cup {<<Plain(b), Plain(~ b), Empty>> : b \in BOOLEAN}
    \cup {<<[Plain(FALSE) EXCEPT !.hidden = TRUE],
            [Plain(FALSE) EXCEPT !.regular = FALSE],
            Plain(FALSE)>>}

=============================================================================
