SPECIFICATION MCSpec
CONSTANTS
    clip = clip
    message = message
    file1 = file1
    file2 = file2
    Undefined = Undefined
    Unset = Unset
    Names <- MCNames
    Values <- MCValues
    Clips = {clip}
    FrameNumbers = {0, 1}
    Files <- MCFiles
    Plain = {message}
    MaxDepth = 3
    MaxImports = 3
INVARIANTS ContextBalanced SeesOwnFrame ScriptNamesRight
PROPERTY CallerUndisturbed
