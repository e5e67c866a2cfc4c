-------------------------------- MODULE RamDisk --------------------------------
(***************************************************************************)
(* The ram disk image: Image of bootimage/src/main.rs writes it on the host, *)
(* the bootloader loads it, ram_disk.rs of the kernel checks and reads it.   *)
(* Layout: length, checksum, file count, one end offset per file (each a     *)
(* little-endian word), then the files one after another.                    *)
(* A word has WordSize bytes of Base values each (8 and 256 in the code).    *)
(***************************************************************************)
EXTENDS Integers, SequencesExt

CONSTANTS WordSize, Base,
          Content,    \* the contents a file may have: sequences of bytes
          MaxFiles,   \* bound on the files of an image
          MaxFaults   \* bound on the bytes damaged while loading

ASSUME RamDiskAssumption ==
    /\ WordSize \in Nat \ {0} /\ Base \in Nat \ {0, 1}
    /\ \A f \in Content : f \in Seq(0..Base - 1)

VARIABLES phase,        \* "adding", "loading", "running" or "panic"
          files,        \* what add_file and add_string were given
          region_ends, buffer,
          image,        \* the bytes of the image, as loaded
          faults

vars == <<phase, files, region_ends, buffer, image, faults>>

WordValues == Base ^ WordSize
to_le_bytes(n) == [i \in 1..WordSize |-> (n \div Base ^ (i - 1)) % Base]
\* entry i, from 0, of the image read as a slice of words
u64_slice(i) == FoldRight(LAMBDA b, acc : b + Base * acc,
                          SubSeq(image, i * WordSize + 1, (i + 1) * WordSize), 0)

\* stands for the CRC: like it, it notices any change of a single byte
Crc32(bytes) == FoldSeq(LAMBDA b, acc : b + acc, 0, bytes) % WordValues

Init ==
    /\ phase = "adding"
    /\ files = <<>> /\ region_ends = <<>> /\ buffer = <<>>
    /\ image = <<>> /\ faults = 0

add_file(f) ==
    /\ phase = "adding" /\ Len(files) < MaxFiles
    /\ files' = Append(files, f)
    /\ buffer' = buffer \o f
    /\ region_ends' = Append(region_ends, Len(buffer'))
    /\ UNCHANGED <<phase, image, faults>>

build ==
    /\ phase = "adding"
    /\ LET ends == <<Len(region_ends)>> \o region_ends
           region_lengths_buf == FlattenSeq([i \in DOMAIN ends |-> to_le_bytes(ends[i])])
           checksum == Crc32(region_lengths_buf \o buffer)
           length == Len(region_lengths_buf) + Len(buffer) + 2 * WordSize
       IN  image' = to_le_bytes(length) \o to_le_bytes(checksum) \o region_lengths_buf \o buffer
    /\ phase' = "loading"
    /\ UNCHANGED <<files, region_ends, buffer, faults>>

\* a byte of the image is damaged before the kernel looks at it
Damage ==
    /\ phase = "loading" /\ faults < MaxFaults
    /\ \E i \in DOMAIN image, b \in 0..Base - 1 :
          b # image[i] /\ image' = [image EXCEPT ![i] = b]
    /\ faults' = faults + 1
    /\ UNCHANGED <<phase, files, region_ends, buffer>>

\* Mutant: the checksum is not compared
Sound_unchecked ==
    /\ Len(image) >= 4 * WordSize + 1
    /\ u64_slice(0) = Len(image)
    /\ u64_slice(2) <= (u64_slice(0) - 3 * WordSize) \div (WordSize + 1)

\* Mutant: every file is taken to need more than one byte
Sound_strict ==
    /\ Len(image) >= 4 * WordSize + 1
    /\ u64_slice(0) = Len(image)
    /\ u64_slice(1) = Crc32(SubSeq(image, 2 * WordSize + 1, Len(image)))
    /\ u64_slice(2) < (u64_slice(0) - 3 * WordSize) \div (WordSize + 1)

\* the assertions of assert_soundness, in its order
Sound ==
    /\ Len(image) >= 4 * WordSize + 1
    /\ u64_slice(0) = Len(image)
    /\ u64_slice(1) = Crc32(SubSeq(image, 2 * WordSize + 1, Len(image)))
    /\ u64_slice(2) <= (u64_slice(0) - 3 * WordSize) \div (WordSize + 1)

assert_soundness ==
    /\ phase = "loading"
    /\ phase' = IF Sound THEN "running" ELSE "panic"
    /\ UNCHANGED <<files, region_ends, buffer, image, faults>>

Next == (\E f \in Content : add_file(f)) \/ build \/ Damage \/ assert_soundness

Spec == Init /\ [][Next]_vars

get_file_count == u64_slice(2)

\* the bytes from file_start up to, not including, the end; indices count from 0
get_file_slice(index) ==
    LET end(i) == u64_slice(3 + i)
        raw_file_start == IF index = 0 THEN 0 ELSE end(index - 1)
        file_size == end(index) - raw_file_start
        file_start == raw_file_start + (get_file_count + 3) * WordSize
    IN  SubSeq(image, file_start + 1, file_start + file_size)
--------------------------------------------------------------------------------
\* What the kernel accepts it reads back right: once assert_soundness has passed,
\* get_file_count and get_file_slice return the files Image was given, in their
\* order, even if a byte was damaged on the way.
AcceptedReadsBack ==
    phase = "running" =>
        /\ get_file_count = Len(files)
        /\ \A i \in DOMAIN files : get_file_slice(i - 1) = files[i]

\* assert_soundness refuses an undamaged image only if it has fewer bytes of files
\* than files, or no file: its bound of 9 bytes per file is the tightest that lets
\* pass every image whose files are not empty.
RefusesOnlySparse ==
    phase \in {"running", "panic"} /\ faults = 0 =>
        (phase = "running" <=> files # <<>> /\ Len(buffer) >= Len(files))
================================================================================
