----------------------------- MODULE BlobStore -----------------------------
(***************************************************************************)
(* Sealed attachment bytes, outside the database: crates/blob-store.       *)
(*                                                                         *)
(* A blob is named by its storage key.  put always makes a fresh key (a    *)
(* UUID), which carries the region when a RegionRouter serves the store    *)
(* and no region when a single bucket or the local disk does.  The bytes   *)
(* are abstracted to the attachment they are the sealed form of.           *)
(***************************************************************************)
EXTENDS Naturals

CONSTANTS
  Region,   \* where a vault's blobs may live
  Routed,   \* whether the store is a RegionRouter
  File      \* the attachments that may be uploaded

ASSUME StoreAssumption == Routed \in BOOLEAN

VARIABLES
  stored,   \* the blobs that exist, in every region
  puts      \* how many keys were handed out

blobVars == <<stored, puts>>

NoRegion == "none"
Blob == [id: Nat \ {0}, region: Region \cup {NoRegion}, holds: File]
NoBlob == [id |-> 0, region |-> NoRegion, holds |-> NoRegion]

BlobInit == stored = {} /\ puts = 0
BlobTypeOK == stored \subseteq Blob /\ puts \in Nat

\* parse_key: the region a key carries, if any.
KeyRegion(b) == b.region

\* The key of the bytes of attachment f, when put into region r.
FreshKey(r, f) ==
  [id |-> puts + 1, region |-> IF Routed THEN r ELSE NoRegion, holds |-> f]

\* put: write to a temporary file and rename, or PutObject.
Put(r, f) ==
  /\ stored' = stored \cup {FreshKey(r, f)}
  /\ puts' = puts + 1

\* delete: deleting what is not there is a success.
Delete(b) ==
  /\ stored' = stored \ {b}
  /\ UNCHANGED puts

=============================================================================
