SPECIFICATION Spec
CONSTANTS
    FourGb = 48
    ENTRIES = 16
    KERNEL_DATA = 64
    VPages <- Pages48
    FirstFrame = 8
    MMAP <- Memory
    PMRs <- KernelRanges
    BASE_ADDR <- KernelBase
    Limits <- AnyLimit
    UNITS = 2
    HeapPages = 2
    Modules <- Disks
    InitrdName = "initrd"
    FetchName = "fetch.elf"
    DEFAULT_STACK_BASE = 47
    Logo = "logo"
CHECK_DEADLOCK FALSE
INVARIANTS
    KernelMapped
    HeapBacked
    LoadedImage
    UserPages
    PrintsArgument
    FoundFile
PROPERTIES
    RegistersKept
