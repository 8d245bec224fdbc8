------------------------------- MODULE Fleet -------------------------------
(***************************************************************************)
(* Identities and application bundles of a fleet (swarm.deploy.identities, *)
(* bundle, setup).  A state machine follows requests, enrolments and       *)
(* bundles from machine to machine on drives: an operator may pick a wrong *)
(* drive, a file may arrive damaged, a machine may lose power between two  *)
(* writes, clocks differ, and a device may be set up again.  Then, as      *)
(* operators: what packing makes of a folder and what unpacking accepts.   *)
(*                                                                         *)
(* A directory made by init_device is known by its number; its TLS and     *)
(* encryption keys are unique to it.  A fingerprint stands for the file it *)
(* was computed from, a signature for the key and the file.                *)
(***************************************************************************)
EXTENDS Integers, SequencesExt, FiniteSetsExt

CONSTANTS NodeIds, Authorities, MaxIdentities, MaxFolders, MaxBundles, MaxTime,
          CaLife, MaxLife,      \* ten years, and ninety days
          Backdate,             \* the five minutes certificates are backdated by
          MaxFiles, MaxFileBytes, MaxUnpacked, MaxBundle, Overhead

ASSUME FleetAssumption ==
    /\ {MaxLife, CaLife, MaxFiles, MaxFileBytes, MaxUnpacked, MaxBundle} \subseteq Nat \ {0}
    /\ {MaxIdentities, MaxFolders, MaxBundles, MaxTime, Backdate, Overhead} \subseteq Nat
    /\ Backdate < MaxLife

VARIABLES identities,   \* what init_device made: [node, files, open]
          folders,      \* what enroll made: [leaf, ca, files, open]
          credentials,  \* what accept_enrollment made: [identity, leaf, ca, files, open]
          bundles,      \* what pack and export_usb made: [node, recipient, signer, whole, open]
          approvals,    \* the fingerprints an operator approved, and for which authority
          verified,     \* the bundles verify_bundle accepted, and where
          clock

fleetVars == <<identities, folders, credentials, bundles, approvals, verified, clock>>

FleetInit ==
    /\ identities = <<>> /\ folders = <<>> /\ credentials = <<>> /\ bundles = <<>>
    /\ approvals = {} /\ verified = {} /\ clock = 0

\* init_authority at time 0.
CaFrom == -Backdate
CaTo == CaLife
CaValid(now) == CaFrom <= now /\ now < CaTo

-----------------------------------------------------------------------------
(* Directories.  private_directory refuses one that exists, and write_new  *)
(* a file that exists: what a crash leaves is never completed.             *)

IdentityFiles == 6      \* identity, TLS key, CSR, encryption key pair, request

InitDevice(n) ==
    /\ Len(identities) < MaxIdentities
    /\ identities' = Append(identities, [node |-> n, files |-> 0, open |-> TRUE])
    /\ UNCHANGED <<folders, credentials, bundles, approvals, verified, clock>>

\* write_new into the directory an operation just made; the last write ends it.
Written(record, all) ==
    IF record.files + 1 = all THEN [record EXCEPT !.files = @ + 1, !.open = FALSE]
    ELSE [record EXCEPT !.files = @ + 1]

WriteIdentity(i) ==
    /\ identities[i].open
    /\ identities' = [identities EXCEPT ![i] = Written(@, IdentityFiles)]
    /\ UNCHANGED <<folders, credentials, bundles, approvals, verified, clock>>

WriteFolder(f) ==
    /\ folders[f].open
    /\ folders' = [folders EXCEPT ![f] = Written(@, 2)]
    /\ UNCHANGED <<identities, credentials, bundles, approvals, verified, clock>>

WriteCredentials(c) ==
    /\ credentials[c].open
    /\ credentials' = [credentials EXCEPT ![c] = Written(@, 2)]
    /\ UNCHANGED <<identities, folders, bundles, approvals, verified, clock>>

\* A machine loses power: an operation ends between two of its writes.
LosePower ==
    /\ \/ \E i \in DOMAIN identities : /\ identities[i].open
                                       /\ identities' = [identities EXCEPT ![i].open = FALSE]
                                       /\ UNCHANGED <<folders, credentials, bundles>>
       \/ \E f \in DOMAIN folders : /\ folders[f].open
                                    /\ folders' = [folders EXCEPT ![f].open = FALSE]
                                    /\ UNCHANGED <<identities, credentials, bundles>>
       \/ \E c \in DOMAIN credentials : /\ credentials[c].open
                                        /\ credentials' = [credentials EXCEPT ![c].open = FALSE]
                                        /\ UNCHANGED <<identities, folders, bundles>>
       \/ \E b \in DOMAIN bundles : /\ bundles[b].open
                                    /\ bundles' = [bundles EXCEPT ![b].open = FALSE]
                                    /\ UNCHANGED <<identities, folders, credentials>>
    /\ UNCHANGED <<approvals, verified, clock>>

\* The request of directory i is its last file.
HasRequest(i) == identities[i].files = IdentityFiles

-----------------------------------------------------------------------------
(* Enrolment.                                                              *)

\* Mutant: the fingerprint is not compared.
AnyRequest(i, whole, read) == whole

\* The request file of i on the drive, against the fingerprint that was read
\* out on the device of directory `read`; _request refuses nothing that
\* init_device wrote.
Requested(i, whole, read) == whole /\ i = read

\* Mutant: the certificate may outlive the authority's.
LeafUncut(a, i, now, days) ==
    LET from == Max({now - Backdate, CaFrom})
    IN  [ca |-> a, key |-> i, node |-> identities[i].node, from |-> from, to |-> from + days]

Leaf(a, i, now, days) ==
    LET from == Max({now - Backdate, CaFrom})
    IN  [ca |-> a, key |-> i, node |-> identities[i].node,
         from |-> from, to |-> Min({from + days, CaTo})]

\* enroll: `a` approves the request of i that is on the drive, meaning the one
\* whose fingerprint was read out on `read`.
Enroll(a, i, whole, read, days) ==
    /\ Len(folders) < MaxFolders
    /\ HasRequest(i) /\ HasRequest(read)
    /\ Requested(i, whole, read) /\ CaValid(clock)
    /\ folders' = Append(folders, [leaf |-> Leaf(a, i, clock, days), ca |-> a,
                                   files |-> 0, open |-> TRUE])
    /\ approvals' = approvals \cup {<<a, read>>}
    /\ UNCHANGED <<identities, credentials, bundles, verified, clock>>

\* Mutant: the certificate's key is not compared with the device's.
AcceptableByName(i, leaf, ca, pinned, now) ==
    /\ ca = pinned /\ CaValid(now) /\ leaf.ca = ca
    /\ leaf.node = identities[i].node
    /\ leaf.from <= now /\ now < leaf.to /\ leaf.to - leaf.from <= MaxLife
    /\ leaf.from >= CaFrom /\ leaf.to <= CaTo

\* accept_enrollment's checks, in its order.
Acceptable(i, leaf, ca, pinned, now) ==
    /\ ca = pinned /\ CaValid(now) /\ leaf.ca = ca
    /\ leaf.node = identities[i].node
    /\ leaf.key = i
    /\ leaf.from <= now /\ now < leaf.to /\ leaf.to - leaf.from <= MaxLife
    /\ leaf.from >= CaFrom /\ leaf.to <= CaTo

\* The device reads whatever folder it is given; its clock may lag.
\* The default destination is taken once, a renewal names a new one.
AcceptEnrollment(i, f, pinned, lag) ==
    /\ Len(credentials) < MaxFolders
    /\ identities[i].files >= 2       \* identity.json and tls-key.pem are read
    /\ folders[f].files = 2
    /\ Acceptable(i, folders[f].leaf, folders[f].ca, pinned, clock - lag)
    /\ credentials' = Append(credentials, [identity |-> i, leaf |-> folders[f].leaf, ca |-> folders[f].ca,
                                           pinned |-> pinned, files |-> 0, open |-> TRUE])
    /\ UNCHANGED <<identities, folders, bundles, approvals, verified, clock>>

-----------------------------------------------------------------------------
(* Bundles.                                                                *)

\* pack: the operator types the node id and picks the recipient's request.
Pack(a, n, i) ==
    /\ Len(bundles) < MaxBundles
    /\ HasRequest(i)
    /\ bundles' = Append(bundles, [node |-> n, recipient |-> i, signer |-> a, whole |-> FALSE, open |-> TRUE])
    /\ UNCHANGED <<identities, folders, credentials, approvals, verified, clock>>

\* _read_signed_envelope: the signature over every byte comes first.
Signed(b, trust) == b.whole /\ b.signer = trust

\* export_usb: a verified bundle is copied to a new file.
ExportUsb(b, trust) ==
    /\ Len(bundles) < MaxBundles
    /\ Signed(bundles[b], trust)
    /\ bundles' = Append(bundles, [bundles[b] EXCEPT !.whole = FALSE, !.open = TRUE])
    /\ UNCHANGED <<identities, folders, credentials, approvals, verified, clock>>

\* The one write of pack and export_usb; without it the file is cut short.
WriteBundle(b) ==
    /\ bundles[b].open
    /\ bundles' = [bundles EXCEPT ![b].whole = TRUE, ![b].open = FALSE]
    /\ UNCHANGED <<identities, folders, credentials, approvals, verified, clock>>

\* Mutant: only the node id is compared.
OpensByNode(i, b, trust) == Signed(b, trust) /\ b.node = identities[i].node

\* verify_bundle on the device of directory i.
Opens(i, b, trust) ==
    /\ Signed(b, trust)
    /\ b.node = identities[i].node
    /\ identities[i].files >= 4       \* encryption-key.pem is read
    /\ b.recipient = i

VerifyBundle(i, b, trust) ==
    /\ Opens(i, bundles[b], trust)
    /\ verified' = verified \cup {<<i, b, trust>>}
    /\ UNCHANGED <<identities, folders, credentials, bundles, approvals, clock>>

-----------------------------------------------------------------------------

PassTime ==
    /\ clock < MaxTime
    /\ clock' = clock + 1
    /\ UNCHANGED <<identities, folders, credentials, bundles, approvals, verified>>

FleetNext ==
    \/ \E n \in NodeIds : InitDevice(n)
    \/ \E i \in DOMAIN identities : WriteIdentity(i)
    \/ \E f \in DOMAIN folders : WriteFolder(f)
    \/ \E c \in DOMAIN credentials : WriteCredentials(c)
    \/ \E b \in DOMAIN bundles : WriteBundle(b)
    \/ LosePower \/ PassTime
    \/ \E a \in Authorities, i, read \in DOMAIN identities, whole \in BOOLEAN, days \in (Backdate + 1)..MaxLife :
          Enroll(a, i, whole, read, days)
    \/ \E i \in DOMAIN identities, f \in DOMAIN folders, a \in Authorities, lag \in 0..Backdate :
          AcceptEnrollment(i, f, a, lag)
    \/ \E a \in Authorities, n \in NodeIds, i \in DOMAIN identities : Pack(a, n, i)
    \/ \E b \in DOMAIN bundles, a \in Authorities : ExportUsb(b, a)
    \/ \E i \in DOMAIN identities, b \in DOMAIN bundles, a \in Authorities : VerifyBundle(i, b, a)

FleetSpec == FleetInit /\ [][FleetNext]_fleetVars

\* Credentials that were written out are for the very keys whose fingerprint
\* an operator of the pinned authority approved, although drives are mixed up,
\* node ids reused and devices set up again (enroll, accept_enrollment).
CredentialsApproved ==
    \A c \in Range(credentials) : c.files = 2 => <<c.pinned, c.leaf.key>> \in approvals /\ c.leaf.key = c.identity

\* What enroll signs, the device it was asked for accepts at once, on any
\* clock that lags no more than the backdating, and as long as it lasts.
ApprovalUsable ==
    \A f \in Range(folders) : \A now \in f.leaf.from..(f.leaf.to - 1) :
        Acceptable(f.leaf.key, f.leaf, f.ca, f.ca, now)

\* A bundle opens on at most one directory ever made, the one it was packed
\* for, and a file that an interrupted write cut short opens on none.
OpensOnOne ==
    \A v, w \in verified : /\ bundles[v[2]].whole
                           /\ bundles[v[2]].recipient = v[1]
                           /\ v[2] = w[2] => v = w

\* Enrolments and bundles, whatever becomes of drives, clocks and power.
FleetKept == CredentialsApproved /\ ApprovalUsable /\ OpensOnOne

-----------------------------------------------------------------------------
(* What is in a bundle.  A name is <<letters, spelling>>, a path a         *)
(* sequence of names, a file [path, size, data, exec, kind].               *)

Folded(path) == [k \in DOMAIN path |-> path[k][1]]
Sizes(files) == MapThenSumSet(LAMBDA f : f.size, files)

\* relative_path
Named(path) == path # <<>> /\ \A k \in DOMAIN path : path[k][1] # "credentials"

\* _payload_content: no private keys, and native code for its target only.
ContentFits(file, target) ==
    /\ file.kind # "key"
    /\ file.kind \notin {"plain", "key", "swm"} => file.kind = target

\* _source_files, on a folder's files.
Collected(files, target) ==
    /\ Cardinality(files) <= MaxFiles
    /\ \A f \in files : /\ Named(f.path) /\ f.kind # "link"
                        /\ f.size <= MaxFileBytes
                        /\ ContentFits(f, target)
    /\ Sizes(files) <= MaxUnpacked /\ Sizes(files) <= MaxBundle

\* validate_records: files and folders stay apart on a disk that folds case.
Apart(p, q) ==
    /\ ~IsPrefix(Folded(p), Folded(q))
    /\ \A k \in 1..Min({Len(p), Len(q)}) :
          Folded(SubSeq(p, 1, k)) = Folded(SubSeq(q, 1, k)) => SubSeq(p, 1, k) = SubSeq(q, 1, k)

\* Manifest.from_dict
ManifestFits(files, entrypoint) ==
    /\ Cardinality(files) \in 1..MaxFiles
    /\ \A f, g \in files : f # g => Apart(f.path, g.path)
    /\ Sizes(files) <= MaxUnpacked
    /\ entrypoint \in {f.path : f \in files}

\* Where the k-th entry of a stored archive ends: each has a local header.
EntryEnd(records, k) ==
    LET end[i \in 0..Len(records)] == IF i = 0 THEN 0 ELSE end[i - 1] + records[i].size + Overhead
    IN  end[k]

\* _stored_zip: the entries in the manifest's order, then the directory.
StoredZip(records) ==
    [entries |-> [k \in DOMAIN records |->
                     [path |-> records[k].path, size |-> records[k].size, data |-> records[k].data,
                      exec |-> records[k].exec, kind |-> records[k].kind,
                      offset |-> EntryEnd(records, k) - records[k].size - Overhead]],
     central |-> EntryEnd(records, Len(records))]

ZipBytes(records) == EntryEnd(records, Len(records)) + Overhead * (Len(records) + 1)

\* What pack writes, as the sequence of records its manifest lists: none if
\* it refuses.  The sort by path is one order of a set of files.
Packed(files, target, entrypoint) ==
    IF /\ Collected(files, target) /\ ManifestFits(files, entrypoint)
       /\ ZipBytes(SetToSeq(files)) + Overhead <= MaxBundle
    THEN SetToSeq(files) ELSE <<>>

\* Mutant: what follows the last entry is not looked at.
UnpackLoosely(zip, records, target) ==
    /\ Len(zip.entries) = Len(records)
    /\ \A k \in DOMAIN records : LET e == zip.entries[k]  r == records[k] IN
          /\ <<e.path, e.exec, e.size, e.data>> = <<r.path, r.exec, r.size, r.data>>
          /\ e.offset + e.size + Overhead <= zip.central
          /\ ContentFits(e, target)

\* _preflight_zip and _unpack_payload: one pass with a cursor, entry by entry
\* against the manifest, with nothing before, between or after them.
Unpacks(zip, records, target) ==
    /\ Len(zip.entries) \in 1..MaxFiles
    /\ Len(zip.entries) = Len(records)
    /\ \A k \in DOMAIN records : LET e == zip.entries[k]  r == records[k] IN
          /\ <<e.path, e.exec, e.size, e.data>> = <<r.path, r.exec, r.size, r.data>>
          /\ e.offset = EntryEnd(records, k - 1)
          /\ e.offset + e.size + Overhead <= zip.central
          /\ ContentFits(e, target)
    /\ zip.central = EntryEnd(records, Len(records))

\* An archive with one thing out of place.
Disordered(zip) ==
    LET n == Len(zip.entries)
        entry(k) == zip.entries[k]
        with(entries) == [zip EXCEPT !.entries = entries]
        put(k, e) == with([zip.entries EXCEPT ![k] = e])
    IN  {with(RemoveAt(zip.entries, k)) : k \in 1..n}
        \cup {with(Append(zip.entries, entry(k))) : k \in 1..n}
        \cup {put(k, entry(j)) : k, j \in 1..n}
        \cup {put(k, [entry(k) EXCEPT !.offset = @ + 1]) : k \in 1..n}
        \cup {put(k, [entry(k) EXCEPT !.exec = ~@]) : k \in 1..n}
        \cup {put(k, [entry(k) EXCEPT !.data = "damaged"]) : k \in 1..n}
        \cup {[zip EXCEPT !.central = @ + 1]}

\* prepare: the folder it assembles for a device, or no files if it refuses.
\* Refusals come before the destination is made, or undo it.
Prepared(runtime, brains, model, library, target) ==
    LET under(top, files) == {[f EXCEPT !.path = <<top>> \o @, !.exec = FALSE] : f \in files}
        native == IF model.kind = "none" THEN {} ELSE {model, library}
        all == runtime \cup under(<<"python", 1>>, brains) \cup native
    IN  IF /\ Collected(brains, target)
           /\ \A f \in brains : f.path[1][1] # "swarm"
           /\ (model.kind = "none") <=> (library.kind = "none")
           /\ model.kind # "none" => target # "python-any" /\ model.kind = "swm"
           /\ \A f \in all : Named(f.path) /\ ContentFits(f, target)
           /\ Collected(all, target)
        THEN all ELSE {}

\* Unpacking accepts what packing wrote and gives back exactly its files, and
\* accepts nothing that has an entry lost, doubled, moved, damaged or added
\* (pack, verify_bundle).
ArchiveExact(files, target, entrypoint) ==
    LET records == Packed(files, target, entrypoint) IN
    records # <<>> =>
        /\ Range(records) = files
        /\ Unpacks(StoredZip(records), records, target)
        /\ \A zip \in Disordered(StoredZip(records)) \ {StoredZip(records)} : ~Unpacks(zip, records, target)
        /\ ZipBytes(records) <= MaxBundle

\* What prepare assembled, pack refuses for two reasons only: names that
\* differ in case, and the archive's own size.  It never replaces a runtime file.
PreparedPacks(runtime, brains, model, library, target, entrypoint) ==
    LET all == Prepared(runtime, brains, model, library, target) IN
    all # {} =>
        /\ runtime \subseteq all
        /\ Cardinality({f.path : f \in all}) = Cardinality(all)
        /\ \/ Packed(all, target, entrypoint) # <<>>
           \/ \E f, g \in all : f # g /\ ~Apart(f.path, g.path)
           \/ ZipBytes(SetToSeq(all)) + Overhead > MaxBundle
=============================================================================
