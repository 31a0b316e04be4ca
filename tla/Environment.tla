---------------------------- MODULE Environment ----------------------------
(***************************************************************************)
(* Where the API key comes from: src/arena/env.py.  A line of .env is the  *)
(* setting [name, value] it makes, name "" when it makes none (a comment, a*)
(* blank, no "=", nothing before it).  A value is [text, quote]: what is   *)
(* between its quotes, and whether they are "straight" and match, "curly", *)
(* or not there.  A file that cannot be read has no lines.                 *)
(***************************************************************************)
EXTENDS Naturals, Sequences

KeyName == "GEMINI_API_KEY"

\* A line with bytes that are not text: read_text raises UnicodeDecodeError,
\* which is no OSError, whatever else the file holds.
NotText == [name |-> "not text", value |-> [text |-> "", quote |-> "none"]]
Decodes(lines) == \A i \in 1..Len(lines) : lines[i] # NotText

-----------------------------------------------------------------------------
\* Slips the runs must notice; nothing below uses them.
FileWins(environ, settings) ==
    [n \in DOMAIN environ \cup DOMAIN settings |->
        IF n \in DOMAIN settings THEN settings[n] ELSE environ[n]]
-----------------------------------------------------------------------------

unquoted(value) ==
    IF value.quote = "straight" THEN [value EXCEPT !.quote = "none"] ELSE value

assign(settings, line) ==
    IF line.name = "" THEN settings
    ELSE [n \in DOMAIN settings \cup {line.name} |->
            IF n = line.name THEN unquoted(line.value) ELSE settings[n]]

parse_dotenv(lines) ==
    LET settings[n \in 0..Len(lines)] ==
            IF n = 0 THEN <<>> ELSE assign(settings[n - 1], lines[n])
    IN settings[Len(lines)]

\* os.environ.setdefault for each setting.
load_dotenv(environ, settings) ==
    [n \in DOMAIN environ \cup DOMAIN settings |->
        IF n \in DOMAIN environ THEN environ[n] ELSE settings[n]]

\* GeminiDriver.__init__ raises ValueError for a key that is not.
Usable(environ) ==
    /\ KeyName \in DOMAIN environ
    /\ environ[KeyName].text # "" /\ environ[KeyName].quote = "none"
=============================================================================
