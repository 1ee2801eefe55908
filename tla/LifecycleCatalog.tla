-------------------------- MODULE LifecycleCatalog --------------------------
(***************************************************************************)
(* DownloadLifecycle as an implementation of Catalog: the stored records   *)
(* and the merged files are what Catalog is about, requests, runners,      *)
(* transactions, the scheduler and the process are hidden.                 *)
(***************************************************************************)
EXTENDS DownloadLifecycle

Promised == INSTANCE Catalog WITH records <- repo, files <- final

\* Whatever requests, runners, monitors, the scheduler, shutdowns and crashes
\* do, all that is ever seen of records and files is a behaviour of Catalog:
\* identifiers are not reused, removed records do not come back, completed is
\* stored only beside the file, files go only after their record, and a pause
\* or cancellation that has taken hold is not finished by a late writer.
ImplementsCatalog == Promised!Spec
=============================================================================
