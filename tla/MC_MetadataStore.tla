-------------------------- MODULE MC_MetadataStore --------------------------
EXTENDS MetadataStore

\* Bytes: two below 128, and "W", one at or above it.
MCChar == {"a", "b", "W"}
MCWide == {"W"}

\* "a" is a prefix of "ab", so deleting either must keep the other;
\* "aW" is refused by trie_insert after it walked through "a".
MCName == {<<"a">>, <<"a", "b">>, <<"b">>, <<"a", "W">>}

\* hash_string(name) % capacity: a slot of its own for each name.
MCHashOwn == [n \in MCName |-> CASE n = <<"a">> -> 0
                                 [] n = <<"a", "b">> -> 1
                                 [] n = <<"b">> -> 2
                                 [] OTHER -> 3]
=============================================================================
