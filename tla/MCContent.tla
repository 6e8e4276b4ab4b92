----------------------------- MODULE MCContent ------------------------------
(***************************************************************************)
(* A TLC instance of four modules about what pages and files are made of,  *)
(* which share no state: CollabPersistence, PageDocument, Multipart and    *)
(* Backup.  A behaviour picks one of them, follows its specification and   *)
(* leaves the others where they started, so that the states of the four    *)
(* add up and do not multiply.                                             *)
(***************************************************************************)
EXTENDS CollabPersistence, PageDocument, Backup, Multipart, TLC

VARIABLE checked  \* the module this behaviour follows

\* An empty file, an image that ends like a boundary, a text with a line's end
\* in it, and an image that is too large.
MCContents ==
  {<<>>, <<"img", "r", "n", "-", "-">>, <<"txt", "r", "r", "n">>,
   <<"img", "img", "img", "img", "img", "img">>}

UploadRests ==
  /\ sent = [preamble |-> <<>>, parts |-> <<>>, closing |-> <<"-", "-">>, cut |-> 0,
             epilogue |-> <<>>]
  /\ MultipartInit

ContentInit ==
  /\ PersistenceInit /\ PageInit /\ BackupInit
  /\ \/ checked \in {"persistence", "document", "recovery"} /\ UploadRests
     \/ checked = "upload" /\ MultipartInit

ContentNext ==
  \/ /\ checked = "persistence" /\ PersistenceNext
     /\ UNCHANGED <<checked, pageVars, multipartVars, backupVars>>
  \/ /\ checked = "document" /\ PageNext
     /\ UNCHANGED <<checked, persistenceVars, multipartVars, backupVars>>
  \/ /\ checked = "upload" /\ MultipartNext
     /\ UNCHANGED <<checked, persistenceVars, pageVars, backupVars>>
  \/ /\ checked = "recovery" /\ BackupNext
     /\ UNCHANGED <<checked, persistenceVars, pageVars, multipartVars>>

contentVars == <<checked, persistenceVars, pageVars, multipartVars, backupVars>>

ContentSpec == ContentInit /\ [][ContentNext]_contentVars

\* One pair of values stands for two edits, the shapes and the objects, one for
\* the calls and the groups: every module is symmetric in its own, and they
\* share no state.
ContentSymmetry == {p @@ q : p \in Permutations(Shapes), q \in Permutations(Groups)}
=============================================================================
