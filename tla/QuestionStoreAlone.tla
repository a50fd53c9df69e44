-------------------------- MODULE QuestionStoreAlone --------------------------
(***************************************************************************)
(* QuestionStore with a history of what the code relies on without         *)
(* enforcing it: that requests and updates come one at a time.  The two    *)
(* counters, the table word and the rows that are read, changed and        *)
(* written back have no lock of their own.                                 *)
(***************************************************************************)
EXTENDS QuestionStore

(* history: two threads were inside a request or an update at once.        *)
VARIABLE overlapped

OneAtATime == \A t, u \in Threads : At(t, "idle") \/ At(u, "idle") \/ t = u

AloneInit == Init /\ overlapped = FALSE

AloneNext == Next /\ overlapped' = (overlapped \/ ~OneAtATime')

AloneSpec == AloneInit /\ [][AloneNext]_<<vars, overlapped>>

-----------------------------------------------------------------------------
(* What holds as long as requests and updates come one at a time.          *)

(* No id is given twice, also after a restart.                             *)
IdsAreUniqueAlone == ~overlapped => IdsAreUnique

(* A stored question is found by its words, but for those a statement of   *)
(* insertWord failed for.                                                  *)
FoundByItsWordsAlone == ~overlapped => FoundByItsWords

(* A reported answer is listed by its question, unless its UPDATE failed.  *)
RepliedIsListedAlone == ~overlapped => RepliedIsListed

(* However often the update is interrupted and repeated, no question of    *)
(* the file is stored twice, and the file is truncated only when all of    *)
(* them are stored, but for those that were dropped because a SELECT or an *)
(* INSERT failed.  (When two questions got one id, updateQuestion writes   *)
(* one over the other.)                                                    *)
CrawledOnceAlone == [][~overlapped' => StoredOnce /\ AllStored]_vars

=============================================================================
