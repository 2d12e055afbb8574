--------------------------- MODULE MC_NMMetadata ---------------------------
EXTENDS NMMetadata

\* Two registered storage servers, ids 1 and 2.
MCSSList == <<1, 2>>

\* SS 1 already holds file g when the NM starts; SS 2 is empty.
MCInitStored == <<{"g"}, {}>>

\* Folder "/a/b" is made under "/a", and "/a" under the root.
MCParent == [d \in {"/a", "/a/b"} |-> IF d = "/a/b" THEN "/a" ELSE ""]

\* Both storage servers start empty.
MCNoneStored == <<{}, {}>>
=============================================================================
