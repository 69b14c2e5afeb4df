\* Two calls, eighteen spellings of seven locations, eight settings of the allowlist.
CONSTANTS
    Requests = {c1, c2}
    Uris <- AllUris
    Settings <- AllSettings
    Cwd <- WorkingDirectory
    KnownSchemes = {"s3"}
    Tokens = {"b", "t", "-new", "x", "srv", "d", "e", ".."}
    Unset = Unset
    Blank = Blank
SPECIFICATION Spec
SYMMETRY Symmetry
INVARIANTS
    IInv
    AllowlistExact
    NoDirectoryForRefused
    OneCommitPerLocation
