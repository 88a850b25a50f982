----------------------------- MODULE ReleasePackage ----------------------------
(***************************************************************************)
(* scripts/package_esp32_release.py: the output of a firmware build is     *)
(* turned into release assets, one file after the other, in a directory    *)
(* that an earlier run may have left in any condition.  A run may be       *)
(* killed between two files or within one.                                 *)
(*                                                                         *)
(* Of flash_args the places of images are kept, in their order, each with  *)
(* its line; options are left out.  A checksum stands for the bytes it is  *)
(* taken of, and the size is left out.  The bytes are those of the build:  *)
(* two builds may have the same image.                                     *)
(***************************************************************************)
EXTENDS Integers, Sequences, SequencesExt

CONSTANTS
  MaxRuns,   \* bound: how often the script is run
  Builds     \* what the build directory may hold when it is

VARIABLES
  build,     \* the build directory: the places in flash_args, the images' bytes
  run,       \* number of the present or last run
  step,      \* what the run is writing, or "idle"
  pos,       \* the first mention of the image it is writing
  out,       \* the output directory: each asset's content, <<>> without one
  outcome,   \* how the last run ended: "none", "packaged", "refused", "killed"
  (* History variables. *)
  writer,    \* number of the run that wrote each asset last
  released   \* the build whose manifest was written last

vars == <<build, run, step, pos, out, outcome, writer, released>>

\* The images that flash_args may place, with their directories: ota/app.bin is
\* an app.bin too, and "../boot" is outside the build directory.  Nothing keeps
\* an image from being named like one of the texts: README.md stands for those.
Image == {"boot", "table", "app", "ota", "extra", "README.md", "../boot"}

Required == {"boot", "table", "app"}

Name(image) == IF image = "ota" THEN "app" ELSE image

Asset == {"boot", "table", "app", "extra", "flash_args", "README.md", "manifest.json"}

IsBuild(b) ==
  /\ b.places \in Seq([line: Nat, address: Nat, image: Image])
  /\ DOMAIN b.files \subseteq Image
  /\ \A image \in DOMAIN b.files : b.files[image] # <<>>

NoBuild == [places |-> <<>>, files |-> <<>>]

Init ==
  /\ build = NoBuild
  /\ run = 0
  /\ step = "idle"
  /\ pos = 1
  /\ out = [asset \in Asset |-> <<>>]
  /\ outcome = "none"
  /\ writer = [asset \in Asset |-> 0]
  /\ released = NoBuild

-----------------------------------------------------------------------------
\* The parser reads flash_args as one text: it does not see the lines.
FlashImages(b) ==
  [i \in DOMAIN b.places |-> [address |-> b.places[i].address, image |-> b.places[i].image]]

ReferencedImages(b) == {place.image : place \in ToSet(FlashImages(b))}

\* The dictionary without duplicates keeps the first mention of each image, and
\* the images are packaged in that order.
Referenced(b) ==
  {i \in DOMAIN FlashImages(b) :
     \A j \in 1 .. i - 1 : FlashImages(b)[j].image # FlashImages(b)[i].image}

Later(b, i) == {j \in Referenced(b) : j > i}

\* The dictionary of addresses keeps the last one of an image.
FlashAddress(b, image) ==
  LET last == CHOOSE i \in DOMAIN FlashImages(b) :
                /\ FlashImages(b)[i].image = image
                /\ \A j \in DOMAIN FlashImages(b) : FlashImages(b)[j].image = image => j <= i
  IN  FlashImages(b)[last].address

\* Mutant: one path may not appear twice, one name may.
ValidByPath(b) ==
  /\ "../boot" \notin ReferencedImages(b)
  /\ Required \subseteq ReferencedImages(b)
  /\ ReferencedImages(b) \subseteq DOMAIN b.files

\* What is checked before anything is written.
Valid(b) ==
  /\ "../boot" \notin ReferencedImages(b)
  /\ Required \subseteq ReferencedImages(b)
  /\ ReferencedImages(b) \subseteq DOMAIN b.files
  /\ \A i, j \in ReferencedImages(b) : Name(i) = Name(j) => i = j

\* What is checked while flash_args is rewritten, line by line.
Rewritable(b) == \A i, j \in DOMAIN b.places : b.places[i].line = b.places[j].line => i = j

\* Mutant: the arguments before the images.
OrderArgsEarly == <<"idle", "flash_args", "images", "README.md", "manifest.json", "idle">>

Order == <<"idle", "images", "flash_args", "README.md", "manifest.json", "idle">>

Following(current) == Order[(CHOOSE i \in 1 .. 5 : Order[i] = current) + 1]

-----------------------------------------------------------------------------
Package(b) ==
  /\ step = "idle" /\ run < MaxRuns
  /\ run' = run + 1
  /\ build' = b
  /\ pos' = 1
  /\ IF Valid(b)
     THEN step' = Following(step) /\ outcome' = "none"
     ELSE outcome' = "refused" /\ UNCHANGED step
  /\ UNCHANGED <<out, writer, released>>

WriteFile(asset, content) ==
  /\ out' = [out EXCEPT ![asset] = content]
  /\ writer' = [writer EXCEPT ![asset] = run]
  /\ UNCHANGED <<build, run>>

Proceed ==
  /\ step' = Following(step)
  /\ outcome' = IF step' = "idle" THEN "packaged" ELSE outcome

WriteImage ==
  LET image == FlashImages(build)[pos].image
  IN  /\ step = "images"
      /\ WriteFile(Name(image), build.files[image])
      /\ IF Later(build, pos) = {}
         THEN Proceed /\ UNCHANGED pos
         ELSE /\ pos' \in Later(build, pos) /\ \A i \in Later(build, pos) : pos' <= i
              /\ UNCHANGED <<step, outcome>>
      /\ UNCHANGED released

RewrittenArgs(b) ==
  LET images == FlashImages(b)
  IN  [i \in DOMAIN images |-> [address |-> images[i].address, name |-> Name(images[i].image)]]

WriteFlashArgs ==
  /\ step = "flash_args"
  /\ IF Rewritable(build)
     THEN WriteFile("flash_args", RewrittenArgs(build)) /\ Proceed
     ELSE step' = "idle" /\ outcome' = "refused" /\ UNCHANGED <<build, run, out, writer>>
  /\ UNCHANGED <<pos, released>>

WriteReadme ==
  /\ step = "README.md"
  /\ WriteFile("README.md", <<"FLASHING.md">>) /\ Proceed
  /\ UNCHANGED <<pos, released>>

\* One entry per image; the numbers of the entries are those of the mentions.
ManifestImages(b) ==
  [i \in Referenced(b) |->
     LET image == FlashImages(b)[i].image
     IN  [path |-> Name(image), sha256 |-> b.files[image], address |-> FlashAddress(b, image)]]

WriteManifest ==
  /\ step = "manifest.json"
  /\ WriteFile("manifest.json", ManifestImages(build)) /\ Proceed
  /\ released' = build
  /\ UNCHANGED pos

\* The run is killed before it writes its next file, or has emptied it.
Killed ==
  /\ step # "idle"
  /\ \/ UNCHANGED <<out, writer, build, run>>
     \/ WriteFile(IF step = "images" THEN Name(FlashImages(build)[pos].image) ELSE step, <<>>)
  /\ step' = "idle"
  /\ outcome' = "killed"
  /\ UNCHANGED <<pos, released>>

Next ==
  \/ \E b \in Builds : Package(b)
  \/ WriteImage
  \/ WriteFlashArgs
  \/ WriteReadme
  \/ WriteManifest
  \/ Killed

Spec == Init /\ [][Next]_vars

-----------------------------------------------------------------------------
Args == out["flash_args"]
Manifest == out["manifest.json"]

Matches(entry) == out[entry.path] = entry.sha256

\* flash_args used beside the assets flashes what b's own flash_args would: the
\* same bytes, in the same order, at the same addresses.
Flashes(b) ==
  /\ Len(Args) = Len(FlashImages(b))
  /\ \A i \in DOMAIN FlashImages(b) :
       /\ Args[i].address = FlashImages(b)[i].address
       /\ out[Args[i].name] = b.files[FlashImages(b)[i].image]

\* The manifest lists what is flashed, at an address where it is flashed.
Describes(manifest, args) ==
  /\ \A i \in DOMAIN args : \E j \in DOMAIN manifest : manifest[j].path = args[i].name
  /\ \A j \in DOMAIN manifest :
       [address |-> manifest[j].address, name |-> manifest[j].path] \in ToSet(args)

\* After a run that succeeds the assets flash exactly the build, whatever was in
\* the directory before, and match a manifest that describes them; unless an
\* image of the build is named like a text, which then replaces it.
Flashable ==
  outcome = "packaged" /\ "README.md" \notin ReferencedImages(build) =>
    /\ Flashes(build)
    /\ Describes(Manifest, Args)
    /\ \A i \in DOMAIN Manifest : Matches(Manifest[i])
    /\ out["README.md"] = <<"FLASHING.md">>

\* How far the checksums protect from a mixture of runs, however many were
\* refused or killed at any point: when every image matches the manifest, the
\* assets flash the build of the manifest, byte for byte.  The one exception is
\* a later run that was cut off between flash_args, which has no checksum, and
\* the manifest; even then no image that flash_args names is older than it.
MixtureIsConfined ==
  (Manifest # <<>> /\ \A i \in DOMAIN Manifest : Matches(Manifest[i])) =>
    \/ Flashes(released)
    \/ /\ writer["flash_args"] > writer["manifest.json"]
       /\ \A i \in DOMAIN Args : writer[Args[i].name] >= writer["flash_args"]
=============================================================================
