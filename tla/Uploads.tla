------------------------------- MODULE Uploads ------------------------------
(***************************************************************************)
(* Uploaded images: a player's cover and badge icon, whose old file is     *)
(* unlinked before the new address is committed, the admins' uploads, and  *)
(* the file manager, whose "used by" column looks at rows up to 15 s old.  *)
(***************************************************************************)
EXTENDS Integers, FiniteSets

CONSTANTS
    Slots,     \* "cover", "badge": columns of one user
    Requests,  \* uploads under way
    NoFile,    \* NULL
    Lapsed,    \* no cached lookup
    MaxFiles   \* bound: files written

VARIABLES
    url,       \* url[s]: the file the committed row names, or NoFile
    files,     \* the files in UPLOAD_DIR
    made,      \* files written so far: the name of the last
    upload,    \* upload[r]: the request under way
    logo,      \* the file the setting site_logo_url names, or NoFile
    lookup,    \* the logo in _used_by_rows_cache, or Lapsed
    torn       \* files taken away by an admin or an upload without its commit

vars == <<url, files, made, upload, logo, lookup, torn>>

FileNames == 1..MaxFiles
Idle == [at |-> "idle"]

Init ==
    /\ url = [s \in Slots |-> NoFile]
    /\ files = {}
    /\ made = 0
    /\ upload = [r \in Requests |-> Idle]
    /\ logo = NoFile
    /\ lookup = Lapsed
    /\ torn = {}

\* get_current_user loads the row; the body is read and checked after that.
Begin(r, s) ==
    /\ upload[r] = Idle
    /\ upload' = [upload EXCEPT ![r] = [at |-> "read", slot |-> s, old |-> url[s]]]
    /\ UNCHANGED <<url, files, made, logo, lookup, torn>>

\* The type, the size or the connection: nothing was written.
Refuse(r) ==
    /\ upload[r].at = "read"
    /\ upload' = [upload EXCEPT ![r] = Idle]
    /\ UNCHANGED <<url, files, made, logo, lookup, torn>>

\* mutant: one name for every cover of a user
NameOfUser == 1

\* A new name for every file: uuid4 in its name.
NewName == made + 1

\* upload_cover and upload_badge_icon write the file and unlink the old one
\* they had read, with no await in between.
Write(r) ==
    /\ upload[r].at = "read"
    /\ made < MaxFiles
    /\ made' = made + 1
    /\ files' = (files \cup {NewName}) \ {upload[r].old}
    /\ torn' = torn \cup ({upload[r].old} \ {NoFile})
    /\ upload' = [upload EXCEPT ![r] = [at |-> "commit", slot |-> upload[r].slot,
                                        old |-> upload[r].old, new |-> NewName]]
    /\ UNCHANGED <<url, logo, lookup>>

\* clear_badge_icon
Clear(r) ==
    /\ upload[r].at = "read"
    /\ upload[r].slot = "badge"
    /\ files' = files \ {upload[r].old}
    /\ torn' = torn \cup ({upload[r].old} \ {NoFile})
    /\ upload' = [upload EXCEPT ![r] = [at |-> "commit", slot |-> upload[r].slot,
                                        old |-> upload[r].old, new |-> NoFile]]
    /\ UNCHANGED <<url, made, logo, lookup>>

\* NULL over a row that was loaded as NULL is no change and no UPDATE.
Commit(r) ==
    /\ upload[r].at = "commit"
    /\ url' = IF upload[r].new = upload[r].old THEN url
              ELSE [url EXCEPT ![upload[r].slot] = upload[r].new]
    /\ torn' = torn \ {upload[r].old}
    /\ upload' = [upload EXCEPT ![r] = Idle]
    /\ UNCHANGED <<files, made, logo, lookup>>

\* The lock timeout, or a crash: the row keeps the old address.
Abort(r) ==
    /\ upload[r].at = "commit"
    /\ upload' = [upload EXCEPT ![r] = Idle]
    /\ UNCHANGED <<url, files, made, logo, lookup, torn>>

\* upload_file of the admins and upload_message_attachment: a file, no row.
AdminUpload ==
    /\ made < MaxFiles
    /\ made' = made + 1
    /\ files' = files \cup {NewName}
    /\ UNCHANGED <<url, upload, logo, lookup, torn>>

\* update_setting of site_logo_url.
SetLogo(f) ==
    /\ f \in files
    /\ logo' = f
    /\ UNCHANGED <<url, files, made, upload, lookup, torn>>

\* _uploads_used_by_lookup of a listing.
List ==
    /\ lookup = Lapsed
    /\ lookup' = logo
    /\ UNCHANGED <<url, files, made, upload, logo, torn>>

Expire ==
    /\ lookup # Lapsed
    /\ lookup' = Lapsed
    /\ UNCHANGED <<url, files, made, upload, logo, torn>>

\* delete_upload, delete_media: the admin deletes what the listing calls
\* unused; covers and badges are not in its queries.
DeleteUnused(f) ==
    /\ f \in files
    /\ lookup \notin {Lapsed, f}
    /\ files' = files \ {f}
    /\ torn' = torn \cup {f}
    /\ UNCHANGED <<url, made, upload, logo, lookup>>

Next ==
    \/ \E r \in Requests :
           \/ \E s \in Slots : Begin(r, s)
           \/ Refuse(r)
           \/ Write(r)
           \/ Clear(r)
           \/ Commit(r)
           \/ Abort(r)
    \/ AdminUpload
    \/ \E f \in FileNames : SetLogo(f) \/ DeleteUnused(f)
    \/ List
    \/ Expire

Reading == [at : {"read"}, slot : Slots, old : FileNames \cup {NoFile}]
Writing == [at : {"commit"}, slot : Slots, old : FileNames \cup {NoFile},
            new : FileNames \cup {NoFile}]

TypeOK ==
    /\ url \in [Slots -> FileNames \cup {NoFile}]
    /\ files \subseteq FileNames
    /\ made \in 0..MaxFiles
    /\ upload \in [Requests -> {Idle} \cup Reading \cup Writing]
    /\ logo \in FileNames \cup {NoFile}
    /\ lookup \in FileNames \cup {NoFile, Lapsed}
    /\ torn \subseteq FileNames

\* A cover that the profile shows is there: of uploads that overlap the last
\* to commit has its file, which no other has unlinked.  Only an upload that
\* did not come to its commit, or an admin, takes a file away that is shown.
CoverExists ==
    \A s \in Slots : url[s] \in files \cup torn \cup {NoFile}

\* Not so: what the file manager deletes as unused is not in use.
LogoExists == logo \in files \cup {NoFile}
=============================================================================
