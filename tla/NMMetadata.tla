----------------------------- MODULE NMMetadata -----------------------------
(***************************************************************************)
(* File metadata on the name server (src/nm.c).  One NM thread serves each *)
(* connected client (handle_client_connection).  The metadata of a file    *)
(* (owner, storage server, ACL) lives in the file trie, with a copy in the *)
(* cache.  Each trie call and each cache call takes its own lock and is    *)
(* one step.  No lock spans a handler: a handler searches the trie, works  *)
(* on its private copy, and writes the copy back with trie_update and      *)
(* cache_put.                                                              *)
(*                                                                         *)
(* The storage servers' files appear as `stored[s]`; the NM's request to   *)
(* an SS holds that SS's socket mutex and is one step.  The cache is taken *)
(* at its contract (AbstractCache) without forgetting: cache.c itself is   *)
(* LRUCache.  A user has one client (nm.c rejects a second login), so a    *)
(* user is also the name of its NM thread.                                 *)
(***************************************************************************)
EXTENDS Integers, Sequences, FiniteSets

CONSTANTS
    User,      \* registered users
    Client,    \* users with a connected client, each served by one NM thread
    File,      \* file names
    SSList,    \* nm.ss_list: the ids of the registered storage servers, in order
    InitStored,\* InitStored[s]: the files on SS s's disk when the NM starts
               \* (on at most one SS each, in its storage directory)
    Folder,    \* folder paths a client may name ("/a", "/a/b")
    Parent,    \* Parent[d]: the path d is created under (Root for "/a")
    Nil

ASSUME Client \subseteq User /\ SSList \in Seq(Nat \ {0}) /\ Len(SSList) > 0

SS == {SSList[i] : i \in 1..Len(SSList)}
Access == {"none", "R", "RW"}
NoAcl == [v \in User |-> "none"]
\* handle_ss_connection gives a file it has not seen the owner "system".
\* Root is the empty folder_path: the SS's storage directory itself.
Root == ""
Meta == [owner : User \cup {"system"}, ss : SS, acl : [User -> Access],
         folder : Folder \cup {Root}]
FolderMeta == [owner : User, ss : SS]

VARIABLES
    trie,      \* trie[f]: the FileMetadata in nm.file_trie, or Nil
    cache,     \* cache[f]: the FileMetadata in nm.cache, or Nil
    stored,    \* stored[s]: the files on storage server s, as <<directory, name>>
    rr,        \* nm.next_ss_id modulo nm.ss_count
    pc,        \* pc[u]: where u's NM thread is in its handler
    fl,        \* fl[u]: the file of its request
    dst,       \* dst[u]: the storage server it talks to
    loc,       \* loc[u]: its private copy of the metadata (Nil if none)
    ftrie,     \* ftrie[d]: the FolderMetadata in nm.folder_trie, or Nil
    dirs,      \* dirs[s]: the folders made under SS s's storage directory
    tgt,       \* tgt[u]: the folder path of its CREATEFOLDER or MOVE
    snap,      \* snap[u]: the copies VIEW -l took with trie_get_all_files and
               \* has not yet written back, by file name
    aclSet     \* history: aclSet[f] is the ACL the latest ADDACCESS/REMACCESS
               \* wrote (all "none" at create)

vars == <<trie, cache, stored, rr, pc, fl, dst, loc, aclSet, ftrie, dirs, tgt, snap>>

Idle(u) == pc[u] = "idle"

\* check_access: the owner has every access; READ needs R or RW, WRITE RW.
CheckAccess(m, u, need) ==
    \/ m.owner = u
    \/ need = "R" /\ m.acl[u] \in {"R", "RW"}
    \/ need = "RW" /\ m.acl[u] = "RW"

\* The NM after the storage servers' first registration: each file on an SS's
\* disk is in the trie with owner "system", and the cache is empty.
Init ==
    /\ trie = [f \in File |-> IF \E s \in SS : f \in InitStored[s]
                             THEN [owner |-> "system", acl |-> NoAcl, folder |-> Root,
                                   ss |-> CHOOSE s \in SS : f \in InitStored[s]]
                             ELSE Nil]
    /\ cache = [f \in File |-> Nil]
    /\ stored = [s \in SS |-> {<<Root, f>> : f \in InitStored[s]}]
    /\ rr = 0
    /\ pc = [u \in Client |-> "idle"]
    /\ fl = [u \in Client |-> Nil]
    /\ dst = [u \in Client |-> Nil]
    /\ loc = [u \in Client |-> Nil]
    /\ aclSet = [f \in File |-> NoAcl]
    /\ ftrie = [d \in Folder |-> Nil]
    /\ dirs = [s \in SS |-> {}]
    /\ tgt = [u \in Client |-> Nil]
    /\ snap = [u \in Client |-> [f \in {} |-> Nil]]

Goto(u, l) == pc' = [pc EXCEPT ![u] = l]

-----------------------------------------------------------------------------
(* handle_create                                                           *)

\* The trie has no file of that name; get_next_ss_round_robin picks the SS.
CreateSearch(u, f) ==
    /\ Idle(u)
    /\ trie[f] = Nil
    /\ fl' = [fl EXCEPT ![u] = f]
    /\ dst' = [dst EXCEPT ![u] = SSList[rr + 1]]
    /\ rr' = (rr + 1) % Len(SSList)
    /\ Goto(u, "c_ss")
    /\ UNCHANGED <<trie, cache, stored, loc, aclSet, ftrie, dirs, tgt, snap>>

\* MSG_CREATE to the SS: create_file_ss fails if storage_path/filename is
\* there.
CreateOnSS(u) ==
    /\ pc[u] = "c_ss"
    /\ \/ <<Root, fl[u]>> \in stored[dst[u]] /\ Goto(u, "idle") /\ UNCHANGED stored
       \/ /\ <<Root, fl[u]>> \notin stored[dst[u]]
          /\ stored' = [stored EXCEPT ![dst[u]] = @ \cup {<<Root, fl[u]>>}]
          /\ Goto(u, "c_trie")
    /\ UNCHANGED <<trie, cache, rr, fl, dst, loc, aclSet, ftrie, dirs, tgt, snap>>

\* The new metadata as handle_create fills it in.
NewMeta(u) == [owner |-> u, ss |-> dst[u], acl |-> NoAcl, folder |-> Root]

\* Mutant: the metadata records the round-robin index, not the SS id.
CreateInsertIndex(u) ==
    /\ pc[u] = "c_trie"
    /\ trie' = [trie EXCEPT ![fl[u]] = [NewMeta(u) EXCEPT !.ss = rr]]
    /\ aclSet' = [aclSet EXCEPT ![fl[u]] = NoAcl]
    /\ Goto(u, "c_cache")
    /\ UNCHANGED <<cache, stored, rr, fl, dst, loc, ftrie, dirs, tgt, snap>>

\* trie_insert overwrites whatever the trie holds for the name.
CreateInsert(u) ==
    /\ pc[u] = "c_trie"
    /\ trie' = [trie EXCEPT ![fl[u]] = NewMeta(u)]
    /\ aclSet' = [aclSet EXCEPT ![fl[u]] = NoAcl]
    /\ Goto(u, "c_cache")
    /\ UNCHANGED <<cache, stored, rr, fl, dst, loc, ftrie, dirs, tgt, snap>>

CreatePut(u) ==
    /\ pc[u] = "c_cache"
    /\ cache' = [cache EXCEPT ![fl[u]] = NewMeta(u)]
    /\ Goto(u, "idle")
    /\ UNCHANGED <<trie, stored, rr, fl, dst, loc, aclSet, ftrie, dirs, tgt, snap>>

-----------------------------------------------------------------------------
(* handle_delete                                                           *)

\* The file exists and the sender owns it.
DeleteSearch(u, f) ==
    /\ Idle(u)
    /\ trie[f] # Nil
    /\ trie[f].owner = u
    /\ fl' = [fl EXCEPT ![u] = f]
    /\ dst' = [dst EXCEPT ![u] = trie[f].ss]
    /\ Goto(u, "d_ss")
    /\ UNCHANGED <<trie, cache, stored, rr, loc, aclSet, ftrie, dirs, tgt, snap>>

\* MSG_CHECK_LOCKS then MSG_DELETE under the SS socket mutex.  The request
\* fails if a client holds a sentence lock (ERR_FILE_LOCKED, which the NM
\* cannot see coming) or storage_path/filename is gone (delete_file_ss).
DeleteOnSS(u) ==
    /\ pc[u] = "d_ss"
    /\ \/ Goto(u, "idle") /\ UNCHANGED stored
       \/ /\ <<Root, fl[u]>> \in stored[dst[u]]
          /\ stored' = [stored EXCEPT ![dst[u]] = @ \ {<<Root, fl[u]>>}]
          /\ Goto(u, "d_trie")
    /\ UNCHANGED <<trie, cache, rr, fl, dst, loc, aclSet, ftrie, dirs, tgt, snap>>

\* Mutant: the SS deleted the file but the trie keeps it.
DeleteTrieSkip(u) ==
    /\ pc[u] = "d_trie"
    /\ Goto(u, "d_cache")
    /\ UNCHANGED <<trie, cache, stored, rr, fl, dst, loc, aclSet, ftrie, dirs, tgt, snap>>

DeleteTrie(u) ==
    /\ pc[u] = "d_trie"
    /\ trie' = [trie EXCEPT ![fl[u]] = Nil]
    /\ Goto(u, "d_cache")
    /\ UNCHANGED <<cache, stored, rr, fl, dst, loc, aclSet, ftrie, dirs, tgt, snap>>

\* cache_remove of the deleted name.
DeleteCache(u) ==
    /\ pc[u] = "d_cache"
    /\ cache' = [cache EXCEPT ![fl[u]] = Nil]
    /\ Goto(u, "idle")
    /\ UNCHANGED <<trie, stored, rr, fl, dst, loc, aclSet, ftrie, dirs, tgt, snap>>

-----------------------------------------------------------------------------
(* handle_access: ADDACCESS (acc R or RW) and REMACCESS (acc "none").       *)

\* The sender owns the file and names another user; the change is made to
\* the private copy.  A new entry is not added once the ACL holds
\* MAX_ACL_ENTRIES (100, nm.c:1171); User has far fewer members, so that
\* branch is never taken here.
AccessSearch(u, f, v, acc) ==
    /\ Idle(u)
    /\ trie[f] # Nil
    /\ trie[f].owner = u
    /\ v # u
    /\ fl' = [fl EXCEPT ![u] = f]
    /\ loc' = [loc EXCEPT ![u] = [trie[f] EXCEPT !.acl[v] = acc]]
    /\ Goto(u, "a_trie")
    /\ UNCHANGED <<trie, cache, stored, rr, dst, aclSet, ftrie, dirs, tgt, snap>>

\* trie_update writes the whole copy back; it fails if the name is gone.
AccessUpdate(u) ==
    /\ pc[u] = "a_trie"
    /\ trie' = IF trie[fl[u]] # Nil THEN [trie EXCEPT ![fl[u]] = loc[u]] ELSE trie
    /\ aclSet' = IF trie[fl[u]] # Nil THEN [aclSet EXCEPT ![fl[u]] = loc[u].acl] ELSE aclSet
    /\ Goto(u, "a_cache")
    /\ UNCHANGED <<cache, stored, rr, fl, dst, loc, ftrie, dirs, tgt, snap>>

\* cache_put of the copy, whether or not trie_update succeeded.
AccessPut(u) ==
    /\ pc[u] = "a_cache"
    /\ cache' = [cache EXCEPT ![fl[u]] = loc[u]]
    /\ loc' = [loc EXCEPT ![u] = Nil]
    /\ Goto(u, "idle")
    /\ UNCHANGED <<trie, stored, rr, fl, dst, aclSet, ftrie, dirs, tgt, snap>>

-----------------------------------------------------------------------------
(* MSG_READ, MSG_WRITE, MSG_STREAM, MSG_UNDO in handle_client_connection:   *)
(* check access, find the SS through find_ss_for_file, then record the      *)
(* access time in the trie and the cache.                                  *)

ReadCheck(u, f, need) ==
    /\ Idle(u)
    /\ trie[f] # Nil
    /\ CheckAccess(trie[f], u, need)
    /\ fl' = [fl EXCEPT ![u] = f]
    /\ Goto(u, "r_cache")
    /\ UNCHANGED <<trie, cache, stored, rr, dst, loc, aclSet, ftrie, dirs, tgt, snap>>

\* find_ss_for_file: cache_get; on a miss, trie_search then cache_put.
ReadCacheGet(u) ==
    /\ pc[u] = "r_cache"
    /\ \/ cache[fl[u]] # Nil /\ dst' = [dst EXCEPT ![u] = cache[fl[u]].ss]
                              /\ Goto(u, "r_meta")
       \/ cache[fl[u]] = Nil /\ Goto(u, "r_trie") /\ UNCHANGED dst
    /\ UNCHANGED <<trie, cache, stored, rr, fl, loc, aclSet, ftrie, dirs, tgt, snap>>

ReadTrieSearch(u) ==
    /\ pc[u] = "r_trie"
    /\ \/ trie[fl[u]] = Nil /\ Goto(u, "idle") /\ UNCHANGED <<dst, loc>>
       \/ /\ trie[fl[u]] # Nil
          /\ loc' = [loc EXCEPT ![u] = trie[fl[u]]]
          /\ dst' = [dst EXCEPT ![u] = trie[fl[u]].ss]
          /\ Goto(u, "r_fill")
    /\ UNCHANGED <<trie, cache, stored, rr, fl, aclSet, ftrie, dirs, tgt, snap>>

ReadFill(u) ==
    /\ pc[u] = "r_fill"
    /\ cache' = [cache EXCEPT ![fl[u]] = loc[u]]
    /\ Goto(u, "r_meta")
    /\ UNCHANGED <<trie, stored, rr, fl, dst, loc, aclSet, ftrie, dirs, tgt, snap>>

\* trie_search again, for the access-time update.
ReadMeta(u) ==
    /\ pc[u] = "r_meta"
    /\ \/ trie[fl[u]] = Nil /\ Goto(u, "idle") /\ loc' = [loc EXCEPT ![u] = Nil]
       \/ trie[fl[u]] # Nil /\ loc' = [loc EXCEPT ![u] = trie[fl[u]]]
                             /\ Goto(u, "r_trie_upd")
    /\ UNCHANGED <<trie, cache, stored, rr, fl, dst, aclSet, ftrie, dirs, tgt, snap>>

\* trie_update of the copy with the new access time and reader.
ReadUpdate(u) ==
    /\ pc[u] = "r_trie_upd"
    /\ trie' = IF trie[fl[u]] # Nil THEN [trie EXCEPT ![fl[u]] = loc[u]] ELSE trie
    /\ Goto(u, "r_put")
    /\ UNCHANGED <<cache, stored, rr, fl, dst, loc, aclSet, ftrie, dirs, tgt, snap>>

ReadPut(u) ==
    /\ pc[u] = "r_put"
    /\ cache' = [cache EXCEPT ![fl[u]] = loc[u]]
    /\ loc' = [loc EXCEPT ![u] = Nil]
    /\ Goto(u, "idle")
    /\ UNCHANGED <<trie, stored, rr, fl, dst, aclSet, ftrie, dirs, tgt, snap>>

-----------------------------------------------------------------------------
(* handle_createfolder: the client names the full path d (target_path and  *)
(* foldername joined).                                                     *)

\* The folder trie has no such path; get_next_ss_round_robin picks the SS
\* (every SS of SSList is registered and active here).
CreateFolderSearch(u, d) ==
    /\ Idle(u)
    /\ ftrie[d] = Nil
    /\ tgt' = [tgt EXCEPT ![u] = d]
    /\ dst' = [dst EXCEPT ![u] = SSList[rr + 1]]
    /\ rr' = (rr + 1) % Len(SSList)
    /\ Goto(u, "f_ss")
    /\ UNCHANGED <<trie, cache, stored, fl, loc, aclSet, ftrie, dirs, snap>>

\* The folders above d, up to the root.
RECURSIVE Above(_)
Above(d) == IF Parent[d] = Root THEN {} ELSE {Parent[d]} \cup Above(Parent[d])

\* MSG_CREATEFOLDER: create_folder_ss fails if the path exists, and
\* otherwise makes it with every missing folder above it (mkdir -p).
CreateFolderOnSS(u) ==
    /\ pc[u] = "f_ss"
    /\ \/ tgt[u] \in dirs[dst[u]] /\ Goto(u, "idle") /\ UNCHANGED dirs
       \/ /\ tgt[u] \notin dirs[dst[u]]
          /\ dirs' = [dirs EXCEPT ![dst[u]] = @ \cup {tgt[u]} \cup Above(tgt[u])]
          /\ Goto(u, "f_trie")
    /\ UNCHANGED <<trie, cache, stored, rr, fl, dst, loc, aclSet, ftrie, tgt, snap>>

\* folder_trie_insert of the new folder's metadata.
CreateFolderInsert(u) ==
    /\ pc[u] = "f_trie"
    /\ ftrie' = [ftrie EXCEPT ![tgt[u]] = [owner |-> u, ss |-> dst[u]]]
    /\ Goto(u, "idle")
    /\ UNCHANGED <<trie, cache, stored, rr, fl, dst, loc, aclSet, dirs, tgt, snap>>

-----------------------------------------------------------------------------
(* handle_move: d is the target folder, or Root.                           *)

\* The file exists, the sender owns it or may write it, and the target
\* folder is in the folder trie; the copy found names the SS and the old
\* folder.
MoveSearch(u, f, d) ==
    /\ Idle(u)
    /\ trie[f] # Nil
    /\ CheckAccess(trie[f], u, "RW")
    /\ d # Root => ftrie[d] # Nil
    /\ fl' = [fl EXCEPT ![u] = f]
    /\ tgt' = [tgt EXCEPT ![u] = d]
    /\ loc' = [loc EXCEPT ![u] = trie[f]]
    /\ dst' = [dst EXCEPT ![u] = trie[f].ss]
    /\ Goto(u, "m_ss")
    /\ UNCHANGED <<trie, cache, stored, rr, aclSet, ftrie, dirs, snap>>

\* MSG_MOVE: move_file_ss renames old folder/name to new folder/name; the
\* rename fails if the file is not there or the target folder was never
\* made on this SS.
MoveOnSS(u) ==
    LET old == <<loc[u].folder, fl[u]>>
        new == <<tgt[u], fl[u]>>
    IN  /\ pc[u] = "m_ss"
        /\ \/ /\ old \in stored[dst[u]]
              /\ tgt[u] \in dirs[dst[u]] \cup {Root}
              /\ stored' = [stored EXCEPT ![dst[u]] = (@ \ {old}) \cup {new}]
              /\ Goto(u, "m_trie")
              /\ UNCHANGED loc
           \/ /\ ~(old \in stored[dst[u]] /\ tgt[u] \in dirs[dst[u]] \cup {Root})
              /\ loc' = [loc EXCEPT ![u] = Nil]
              /\ Goto(u, "idle")
              /\ UNCHANGED stored
        /\ UNCHANGED <<trie, cache, rr, fl, dst, aclSet, ftrie, dirs, tgt, snap>>

\* The copy gets the new folder_path and is written back with trie_update.
MoveUpdate(u) ==
    /\ pc[u] = "m_trie"
    /\ loc' = [loc EXCEPT ![u].folder = tgt[u]]
    /\ trie' = IF trie[fl[u]] # Nil THEN [trie EXCEPT ![fl[u]] = loc'[u]] ELSE trie
    /\ Goto(u, "m_cache")
    /\ UNCHANGED <<cache, stored, rr, fl, dst, aclSet, ftrie, dirs, tgt, snap>>

MovePut(u) ==
    /\ pc[u] = "m_cache"
    /\ cache' = [cache EXCEPT ![fl[u]] = loc[u]]
    /\ loc' = [loc EXCEPT ![u] = Nil]
    /\ Goto(u, "idle")
    /\ UNCHANGED <<trie, stored, rr, fl, dst, aclSet, ftrie, dirs, tgt, snap>>

-----------------------------------------------------------------------------
(* handle_view with -l: the metadata of every file is refreshed from its   *)
(* SS and written back.  VIEW without -l changes nothing.                  *)

\* trie_get_all_files: a copy of every file's metadata, under one read lock.
ViewAll(u) ==
    /\ Idle(u)
    /\ snap' = [snap EXCEPT ![u] = [f \in {g \in File : trie[g] # Nil} |-> trie[f]]]
    /\ Goto(u, "v_next")
    /\ UNCHANGED <<trie, cache, stored, rr, fl, dst, loc, aclSet, ftrie, dirs, tgt>>

\* get_file_info_ss answers SUCCESS when storage_path/filename exists.
InfoFound(f, m) == <<Root, f>> \in stored[m.ss]

\* The next copy, in a fixed order of the names as the trie's traversal is:
\* MSG_SS_INFO to its SS; on SUCCESS the copy, with the sizes and times
\* from the answer, is written back, and otherwise skipped.
ViewInfo(u) ==
    /\ pc[u] = "v_next"
    /\ \/ DOMAIN snap[u] = {} /\ Goto(u, "idle") /\ UNCHANGED <<snap, fl, loc>>
       \/ /\ DOMAIN snap[u] # {}
          /\ LET f == CHOOSE g \in DOMAIN snap[u] : TRUE IN
               /\ snap' = [snap EXCEPT ![u] = [g \in DOMAIN snap[u] \ {f} |-> snap[u][g]]]
               /\ \/ /\ InfoFound(f, snap[u][f])
                     /\ fl' = [fl EXCEPT ![u] = f]
                     /\ loc' = [loc EXCEPT ![u] = snap[u][f]]
                     /\ Goto(u, "v_trie")
                  \/ /\ ~InfoFound(f, snap[u][f])
                     /\ UNCHANGED <<pc, fl, loc>>
    /\ UNCHANGED <<trie, cache, stored, rr, dst, aclSet, ftrie, dirs, tgt>>

\* trie_update of the copy; it fails if the name is gone.
ViewUpdate(u) ==
    /\ pc[u] = "v_trie"
    /\ trie' = IF trie[fl[u]] # Nil THEN [trie EXCEPT ![fl[u]] = loc[u]] ELSE trie
    /\ Goto(u, "v_put")
    /\ UNCHANGED <<cache, stored, rr, fl, dst, loc, aclSet, ftrie, dirs, tgt, snap>>

\* cache_put of the copy, whether or not trie_update succeeded.
ViewPut(u) ==
    /\ pc[u] = "v_put"
    /\ cache' = [cache EXCEPT ![fl[u]] = loc[u]]
    /\ loc' = [loc EXCEPT ![u] = Nil]
    /\ Goto(u, "v_next")
    /\ UNCHANGED <<trie, stored, rr, fl, dst, aclSet, ftrie, dirs, tgt, snap>>

-----------------------------------------------------------------------------
(* handle_ss_connection: an SS registers (at start, or again after a       *)
(* reconnect) with the regular files of its storage directory (not of its *)
(* subfolders).  For each file the NM searches   *)
(* the trie: a known file keeps its owner and ACL and gets this SS's id    *)
(* (trie_update); an unknown one is inserted with owner "system".  The     *)
(* cache is not touched.  A file's search and update are one step here.   *)
RegisterFile(s, f) ==
    /\ <<Root, f>> \in stored[s]
    /\ trie' = [trie EXCEPT ![f] = IF @ # Nil THEN [@ EXCEPT !.ss = s]
                                  ELSE [owner |-> "system", ss |-> s, acl |-> NoAcl,
                                        folder |-> Root]]
    /\ aclSet' = IF trie[f] # Nil THEN aclSet ELSE [aclSet EXCEPT ![f] = NoAcl]
    /\ UNCHANGED <<cache, stored, rr, pc, fl, dst, loc, ftrie, dirs, tgt, snap>>

\* The cache loses an entry: cache_remove of another key cut its probe chain
\* (LRUCache, run cachestale).
CacheDrop(f) ==
    /\ cache[f] # Nil
    /\ cache' = [cache EXCEPT ![f] = Nil]
    /\ UNCHANGED <<trie, stored, rr, pc, fl, dst, loc, aclSet, ftrie, dirs, tgt, snap>>

-----------------------------------------------------------------------------
Next ==
    \/ \E u \in Client, f \in File :
          \/ CreateSearch(u, f)
          \/ DeleteSearch(u, f)
          \/ \E need \in {"R", "RW"} : ReadCheck(u, f, need)
          \/ \E v \in User, acc \in Access : AccessSearch(u, f, v, acc)
          \/ \E d \in Folder \cup {Root} : MoveSearch(u, f, d)
    \/ \E u \in Client, d \in Folder : CreateFolderSearch(u, d)
    \/ \E u \in Client :
          \/ CreateOnSS(u) \/ CreateInsert(u) \/ CreatePut(u)
          \/ DeleteOnSS(u) \/ DeleteTrie(u) \/ DeleteCache(u)
          \/ AccessUpdate(u) \/ AccessPut(u)
          \/ ReadCacheGet(u) \/ ReadTrieSearch(u) \/ ReadFill(u)
          \/ ReadMeta(u) \/ ReadUpdate(u) \/ ReadPut(u)
          \/ CreateFolderOnSS(u) \/ CreateFolderInsert(u)
          \/ MoveOnSS(u) \/ MoveUpdate(u) \/ MovePut(u)
          \/ ViewAll(u) \/ ViewInfo(u) \/ ViewUpdate(u) \/ ViewPut(u)
    \/ \E s \in SS, f \in File : RegisterFile(s, f)
    \/ \E f \in File : CacheDrop(f)

Spec == Init /\ [][Next]_vars

-----------------------------------------------------------------------------
\* A thread is between its SS request and its trie update for file f.
Pending(f) == \E u \in Client : fl[u] = f /\ pc[u] \in {"c_trie", "d_trie", "m_trie"}

\* No thread is inside a handler.
AtRest == \A u \in Client : Idle(u)

(* Every variable has the type of the C data it models.                   *)
TypeOK ==
    /\ trie \in [File -> Meta \cup {Nil}]
    /\ cache \in [File -> Meta \cup {Nil}]
    /\ stored \in [SS -> SUBSET ((Folder \cup {Root}) \X File)]
    /\ rr \in 0..Len(SSList) - 1
    /\ pc \in [Client -> {"idle", "c_ss", "c_trie", "c_cache", "d_ss", "d_trie",
                          "d_cache", "a_trie", "a_cache", "r_cache", "r_trie",
                          "r_fill", "r_meta", "r_trie_upd", "r_put", "f_ss",
                          "f_trie", "m_ss", "m_trie", "m_cache", "v_next",
                          "v_trie", "v_put"}]
    /\ fl \in [Client -> File \cup {Nil}]
    /\ dst \in [Client -> SS \cup {Nil}]
    /\ loc \in [Client -> Meta \cup {Nil}]
    /\ aclSet \in [File -> [User -> Access]]
    /\ ftrie \in [Folder -> FolderMeta \cup {Nil}]
    /\ dirs \in [SS -> SUBSET Folder]
    /\ tgt \in [Client -> Folder \cup {Root, Nil}]
    /\ \A u \in Client : DOMAIN snap[u] \subseteq File /\ \A f \in DOMAIN snap[u] : snap[u][f] \in Meta

(* The trie and the storage servers agree on where every file is: a file   *)
(* in the trie is stored on the SS its metadata names, in the folder it    *)
(* names, and a file stored on an SS is in the trie with that SS and that  *)
(* folder.  The exception is a file whose CREATE, DELETE or MOVE has done  *)
(* the SS step but not the trie step.  A file    *)
(* outside this relation is one that READ routes to the wrong SS, or one   *)
(* that nobody can delete and that blocks later CREATEs of its name.       *)
TrieMatchesSS ==
    \A f \in File : ~Pending(f) =>
        /\ trie[f] # Nil => <<trie[f].folder, f>> \in stored[trie[f].ss]
        /\ \A s \in SS, d \in Folder \cup {Root} :
              <<d, f>> \in stored[s] => /\ trie[f] # Nil
                                        /\ trie[f].ss = s /\ trie[f].folder = d

(* The ACL in the trie is the one the latest ADDACCESS or REMACCESS of the *)
(* file wrote, so an access the owner granted or revoked stays granted or  *)
(* revoked.                                                                *)
AclAsSet == \A f \in File : trie[f] # Nil => trie[f].acl = aclSet[f]

(* When no handler is running, the cache holds nothing but the trie's own  *)
(* metadata: find_ss_for_file answers from the cache without looking at    *)
(* the trie.                                                               *)
CacheAgreesAtRest == AtRest => \A f \in File : cache[f] \in {Nil, trie[f]}

(* A folder is in the folder trie only if the folder it was created under  *)
(* is (spec, folder metadata: creating a folder whose parent path does not *)
(* exist is a failure).  handle_createfolder never looks the parent up,    *)
(* and create_folder_ss makes the missing folders above it on the SS.      *)
FolderParentsExist ==
    \A d \in Folder : ftrie[d] # Nil /\ Parent[d] # Root => ftrie[Parent[d]] # Nil

(* Every file in the trie can be served by its SS: the SS handlers for     *)
(* READ, WRITE, LOCK, STREAM, UNDO, INFO and DELETE open                   *)
(* storage_path/filename, whatever folder_path says, so a file is usable   *)
(* only while it lies in the storage directory itself.                     *)
IndexedFilesServable ==
    \A f \in File : trie[f] # Nil /\ ~Pending(f) => <<Root, f>> \in stored[trie[f].ss]
=============================================================================
