----------------------------- MODULE FileFilters -----------------------------
(***************************************************************************)
(* Which files of a working tree the ingestion reports, and as what: the   *)
(* directories that discover_files prunes, the names and suffixes that     *)
(* classify_file rules out, the look at the first bytes of a file with an  *)
(* unknown suffix, and the language and category of the files that remain. *)
(* A name is the sequence of its parts between the dots: lib.min.js is     *)
(* <<"lib", "min", "js">>, .env is <<"", "env">>.                          *)
(***************************************************************************)
EXTENDS Naturals, Sequences

\* A path: the directories on the way and whether the file or one of them is a
\* symbolic link, the name, and the suffix in lower case without its dot.
PathType ==
  [directories : Seq(STRING), symlink : BOOLEAN, name : Seq(STRING), suffix : STRING]
-----------------------------------------------------------------------------
DEFAULT_IGNORED_DIR_NAMES ==
  {".git", "node_modules", "__pycache__", ".venv", "venv", ".next", "dist", "build",
   "coverage", ".cache", ".pytest_cache", ".mypy_cache", ".idea", ".vscode"}

DEFAULT_IGNORED_FILE_PATTERNS ==
  {<<"*", "min", "js">>, <<"*", "min", "css">>} \cup
  {<<"*", s>> : s \in {"pyc", "pyo", "class", "o", "obj", "so", "dylib", "dll", "exe",
                       "map", "log", "tmp", "temp", "swp"}}

DEFAULT_SENSITIVE_FILE_PATTERNS ==
  {<<"", "env">>, <<"", "env", "*">>, <<"id_rsa">>, <<"id_dsa">>, <<"id_ecdsa">>,
   <<"id_ed25519">>, <<"credentials", "json">>, <<"secrets", "json">>, <<"", "npmrc">>,
   <<"", "netrc">>} \cup
  {<<"*", s>> : s \in {"pem", "key", "pfx", "p12", "keystore", "jks", "kdbx"}}

DEFAULT_BINARY_EXTENSIONS ==
  {"png", "jpg", "jpeg", "gif", "ico", "bmp", "webp", "pdf", "zip", "tar", "gz", "7z", "rar",
   "woff", "woff2", "ttf", "eot", "mp3", "mp4", "mov", "db", "sqlite"}

KNOWN_TEXT_LIKELY_EXTENSIONS ==
  {"py", "js", "jsx", "ts", "tsx", "java", "c", "h", "cpp", "cc", "cxx", "hpp", "go", "html",
   "htm", "css", "sql", "json", "yaml", "yml", "md", "rst", "txt", "toml", "ini", "cfg"}
-----------------------------------------------------------------------------
\* A star, first or last in its pattern, stands for any number of parts but none.
fnmatch(name, pattern) ==
  LET n == Len(name)
      p == Len(pattern)
  IN  \/ name = pattern
      \/ /\ pattern[1] = "*" /\ n >= p
         /\ \A k \in 2 .. p : name[n - p + k] = pattern[k]
      \/ /\ pattern[p] = "*" /\ n >= p
         /\ \A k \in 1 .. p - 1 : name[k] = pattern[k]

\* The directories os.walk goes into, and the files that are no links.
discovered(path) ==
  /\ \A k \in DOMAIN path.directories : path.directories[k] \notin DEFAULT_IGNORED_DIR_NAMES
  /\ ~ path.symlink

is_sensitive_filename(path) ==
  \E pattern \in DEFAULT_SENSITIVE_FILE_PATTERNS : fnmatch(path.name, pattern)

matches_ignored_pattern(path) ==
  \E pattern \in DEFAULT_IGNORED_FILE_PATTERNS : fnmatch(path.name, pattern)

\* What classify_file makes of the name alone.
ruled_out(path) ==
  \/ is_sensitive_filename(path)
  \/ matches_ignored_pattern(path)
  \/ path.suffix \in DEFAULT_BINARY_EXTENSIONS

\* The first segment of a text is what the look takes in.
looks_binary_by_content(text) == text # <<>> /\ text[1] = "NUL"

\* Mutant: the name is not looked at.
classify_size(path, v) == ~ v.large

\* A file with the content v is relevant unless its name or its size rules it
\* out, or its first bytes where the suffix says nothing.
classify_file(path, v) ==
  /\ ~ ruled_out(path)
  /\ ~ v.large
  /\ \/ path.suffix \in KNOWN_TEXT_LIKELY_EXTENSIONS
     \/ ~ looks_binary_by_content(v.text)
-----------------------------------------------------------------------------
detect_language(suffix) ==
  CASE suffix = "py" -> "Python"
    [] suffix = "js" -> "JavaScript"
    [] suffix = "jsx" -> "JSX"
    [] suffix = "ts" -> "TypeScript"
    [] suffix = "tsx" -> "TSX"
    [] suffix = "java" -> "Java"
    [] suffix \in {"c", "h"} -> "C"
    [] suffix \in {"cpp", "cc", "cxx", "hpp"} -> "C++"
    [] suffix = "go" -> "Go"
    [] suffix \in {"html", "htm"} -> "HTML"
    [] suffix = "css" -> "CSS"
    [] suffix = "sql" -> "SQL"
    [] suffix = "json" -> "JSON"
    [] suffix \in {"yaml", "yml"} -> "YAML"
    [] OTHER -> "Unknown"

SUPPORTED_LANGUAGES ==
  {"Python", "JavaScript", "JSX", "TypeScript", "TSX", "Java", "C", "C++", "Go"}

SOURCE_LANGUAGES == SUPPORTED_LANGUAGES \cup {"SQL"}

categorize(suffix) ==
  CASE detect_language(suffix) \in SOURCE_LANGUAGES -> "source"
    [] detect_language(suffix) \in {"HTML", "CSS"} -> "markup"
    [] detect_language(suffix) \in {"JSON", "YAML"} -> "config"
    [] suffix \in {"md", "rst", "txt"} -> "documentation"
    [] suffix \in {"toml", "ini", "cfg"} -> "config"
    [] OTHER -> "other"
=============================================================================
