----------------------------- MODULE MCMftScan -----------------------------
(***************************************************************************)
(* Small tables: 0 is the table itself, 1 the root directory, 2 .. 5 hold  *)
(* files and directories in every order of parents and children.           *)
(***************************************************************************)
EXTENDS MftScan

CONSTANTS fa, fb, fc, fs, fx     \* names of files; of a stream; of a `$' stream

Base(dir, attrs) == [use |-> "base", dir |-> dir, attrs |-> attrs]

TableFile == Base(FALSE, <<FileName(Root, fa, "win32"), Stream(<<>>, 1)>>)

RootDir == Base(TRUE, <<FileName(Root, fa, "win32"), Stream(<<>>, 1)>>)

Dir(parent, name) == Base(TRUE, <<FileName(parent, name, "win32"), Stream(<<fx>>, 0),
                                  Stream(<<>>, 0)>>)

(* A file with a DOS name, in two pieces, and with a second stream.        *)
Large(parent, name) ==
  Base(FALSE, <<FileName(parent, fb, "dos"), FileName(parent, name, "win32"),
                Stream(<<>>, 2), Stream(<<fs>>, 2)>>)

Small(parent, name) == Base(FALSE, <<FileName(parent, name, "posix"), Stream(<<>>, 1)>>)

(* A file whose attributes are in its base record r and in a child record. *)
Big(r, child, parent, name, fragments) ==
  Base(FALSE, <<List(<<fx>>, fragments, <<ListEntry(r, 2, "name", <<>>),
                                         ListEntry(child, 1, "name", <<>>),
                                         ListEntry(r, 3, "stream", <<>>),
                                         ListEntry(child, 2, "stream", <<>>),
                                         ListEntry(child, 3, "stream", <<fs>>)>>),
                FileName(parent, name, "win32"), Stream(<<>>, 1)>>)

Child(parent) == [use |-> "child", dir |-> FALSE,
                  attrs |-> <<FileName(parent, fb, "dos"), Stream(<<>>, 1), Stream(<<fs>>, 2)>>]

Table(r2, r3, r4, r5) ==
  [r \in Ids |-> CASE r = 0 -> TableFile [] r = 1 -> RootDir [] r = 2 -> r2
                   [] r = 3 -> r3 [] r = 4 -> r4 [] r = 5 -> r5 [] OTHER -> FreeRecord]

(* A file with a name in each of two directories.                          *)
Linked == Base(FALSE, <<FileName(2, fc, "win32"), FileName(3, fa, "win32"), Stream(<<>>, 1)>>)

(* A damaged record, with an empty name.                                   *)
Nameless == Base(FALSE, <<FileName(2, NoName, "win32"), Stream(<<>>, 1)>>)

(* Directories below and above their files and each other, a file with     *)
(* hard links, and a directory that claims to be its own parent.           *)
Trees ==
  { Table(Dir(1, fa), Dir(2, fb), Big(4, 5, 3, fc, 0), Child(3)),
    Table(Dir(3, fa), Dir(1, fb), Child(2), Big(5, 4, 2, fc, 1)),
    Table(Large(3, fc), Dir(4, fa), Dir(5, fb), Dir(1, fc)),
    Table(Small(1, fc), FreeRecord, Small(5, fa), Dir(1, fb)),
    Table(Large(5, fc), Dir(5, fa), Small(3, fc), Dir(1, fb)),
    Table(Dir(1, fa), Dir(1, fb), Linked, FreeRecord),
    Table(Small(3, fc), Dir(3, fa), Nameless, FreeRecord) }

MCHidden == {fx}

MCNames == {fa, fb, fc, fs, fx, NoName, NewName}
=============================================================================
