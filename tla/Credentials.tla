---------------------------- MODULE Credentials ----------------------------
(***************************************************************************)
(* internal/remote/credentials.go: a login is picked from the caches of    *)
(* the installed plugins and exported to a file, which a proxy reads at    *)
(* every request.  An export writes a temporary file beside the target,    *)
(* always of the same name, and renames it; it may die at any point.       *)
(***************************************************************************)
EXTENDS Integers, SequencesExt

CONSTANTS
  Exporters,  \* processes that export to the same path
  Logins,     \* [modified, expires]: when the plugin wrote it, how long it holds
  Inodes,     \* files on disk
  NoFile

ASSUME CredentialAssumption ==
  /\ Logins \subseteq [modified : Int, expires : Int]
  /\ NoFile \notin Inodes
  /\ Inodes # {} /\ \A i \in Inodes : Inodes # {i}  \* a file is always to be had

VARIABLES
  target, tmp, \* the inodes at the two names
  content,     \* inode -> <<login>>, or <<>> for what is no whole login
  exporter,
  saved,       \* history: the login of the last export that was renamed
  together     \* history: two exports have been under way at once

credentialVars == <<target, tmp, content, exporter, saved, together>>

Exporting(pc, inode, login) == [pc |-> pc, inode |-> inode, login |-> login]
Ready == Exporting("ready", NoFile, <<>>)
Caches == BoundedSeq({<<>>} \cup {<<l>> : l \in Logins}, 3)

CredentialsInit ==
  /\ target = NoFile /\ tmp = NoFile
  /\ content = [i \in Inodes |-> <<>>]
  /\ exporter = [e \in Exporters |-> Ready]
  /\ saved = <<>> /\ together = FALSE

betterCredentialCandidate(candidate, best, policy) ==
  \/ policy = "newest" /\ candidate.modified > best.modified
  \/ policy = "longest" /\ candidate.expires > best.expires

\* The caches are looked at in a fixed order; <<>> is one that cannot be read.
importLingmaCacheCredential(caches) ==
  LET i == SelectInSeq(caches, LAMBDA cache : cache # <<>>)
  IN  IF i = 0 THEN <<>> ELSE caches[i]

Better(best, cache, policy) ==
  IF cache # <<>> /\ (best = <<>> \/ betterCredentialCandidate(cache[1], best[1], policy)) THEN cache ELSE best

LoadCredentialByPolicy(caches, policy) ==
  IF policy = "auto" THEN importLingmaCacheCredential(caches)
  ELSE FoldLeft(LAMBDA best, cache : Better(best, cache, policy), <<>>, caches)

\* What a request finds: an error, <<>>, for no file and for a torn one.
loadCredentialFile == IF target = NoFile THEN <<>> ELSE content[target]

-----------------------------------------------------------------------------
(* SaveCredentialFile *)

Idle == \A e \in Exporters : exporter[e] = Ready
Done(e) == exporter' = [exporter EXCEPT ![e] = Ready]

\* The temporary file is created or emptied.
OpenTemporary(e) ==
  /\ exporter[e].pc = "ready"
  /\ \E login \in {LoadCredentialByPolicy(caches, "auto") : caches \in Caches} \ {<<>>} :
       LET i == IF tmp # NoFile THEN tmp
                ELSE CHOOSE j \in Inodes \ {target} : \A d \in Exporters : exporter[d].inode # j
       IN  /\ tmp' = i
           /\ content' = [content EXCEPT ![i] = <<>>]
           /\ exporter' = [exporter EXCEPT ![e] = Exporting("opened", i, login)]
  /\ together' = (together \/ \E d \in Exporters \ {e} : exporter[d].pc # "ready")
  /\ UNCHANGED <<target, saved>>

\* Of what another export has written to the same file a longer end stays.
WriteTemporary(e) ==
  /\ exporter[e].pc = "opened"
  /\ \E whole \in {<<>>, exporter[e].login} :
       /\ whole = <<>> => content[exporter[e].inode] # <<>>
       /\ content' = [content EXCEPT ![exporter[e].inode] = whole]
  /\ exporter' = [exporter EXCEPT ![e].pc = "written"]
  /\ UNCHANGED <<target, tmp, saved, together>>

\* Mutant: the file is renamed although it could not be written.
RenameAnyway(e) ==
  /\ exporter[e].pc \in {"opened", "written"} /\ tmp # NoFile
  /\ target' = tmp /\ tmp' = NoFile
  /\ saved' = exporter[e].login
  /\ Done(e)
  /\ UNCHANGED <<content, together>>

\* Whatever file has the temporary name by now.
Rename(e) ==
  /\ exporter[e].pc = "written" /\ tmp # NoFile
  /\ target' = tmp /\ tmp' = NoFile
  /\ saved' = exporter[e].login
  /\ Done(e)
  /\ UNCHANGED <<content, together>>

\* The file is gone, or cannot be renamed.
RenameFails(e) ==
  /\ exporter[e].pc = "written"
  /\ tmp' = NoFile
  /\ Done(e)
  /\ UNCHANGED <<target, content, saved, together>>

\* Writing fails or the process ends, somewhere in the text: what was written
\* stays behind under the temporary name.
Die(e) ==
  /\ exporter[e].pc # "ready"
  /\ content' = [content EXCEPT ![exporter[e].inode] = IF exporter[e].pc = "opened" THEN <<>> ELSE @]
  /\ Done(e)
  /\ UNCHANGED <<target, tmp, saved, together>>

CredentialsNext ==
  \E e \in Exporters : OpenTemporary(e) \/ WriteTemporary(e) \/ Rename(e) \/ RenameFails(e) \/ Die(e)

CredentialsSpec == CredentialsInit /\ [][CredentialsNext]_credentialVars

-----------------------------------------------------------------------------

\* Exports that follow one another, dying and leaving files behind wherever they
\* may, leave for every request to read the login of the last one that was
\* renamed, whole; two exports at once can put a half-written file in place.  And
\* no readable cache beats the login an export picks.
CredentialWhole ==
  /\ ~together => loadCredentialFile = saved
  /\ ~Idle => \A caches \in Caches, policy \in {"auto", "newest", "longest"} :
       LET login == LoadCredentialByPolicy(caches, policy)
           readable == {k \in DOMAIN caches : caches[k] # <<>>}
       IN  /\ login = <<>> <=> readable = {}
           /\ \A k \in readable :
                /\ ~betterCredentialCandidate(caches[k][1], login[1], policy)
                /\ policy = "auto" => \E j \in 1..k : caches[j] = login
=============================================================================
