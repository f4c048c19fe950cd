-------------------------- MODULE MCArchiveHandler --------------------------
EXTENDS ArchiveHandler

N(kind, parent, nesting) == [kind |-> kind, parent |-> parent, nesting |-> nesting]
\* A file; an archive in a stream between two texts; one that is nested too deep, before
\* a text; an archive with a broken file; a stream of what cannot be opened.
SmallTrees == {
  <<N("text", 0, 0)>>,
  <<N("archive", 0, 0), N("text", 1, 1), N("archive", 1, 1), N("text", 3, 2),
    N("skipped", 3, 2), N("stream", 1, 1), N("text", 6, 2), N("text", 1, 1)>>,
  <<N("archive", 0, 0), N("stream", 1, 1), N("archive", 2, 2), N("text", 3, 3),
    N("text", 1, 1)>>,
  <<N("archive", 0, 0), N("skipped", 1, 1), N("text", 1, 1), N("binary", 1, 1),
    N("broken", 1, 1), N("text", 1, 1)>>,
  <<N("stream", 0, 0), N("broken", 1, 1)>>}
=============================================================================
